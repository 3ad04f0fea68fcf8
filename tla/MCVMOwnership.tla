--------------------------- MODULE MCVMOwnership ---------------------------
EXTENDS VMOwnership

CONSTANTS idler, worker

MCProcesses == {idler, worker}
MCPriority  == [r \in MCProcesses |-> IF r = idler THEN 1 ELSE 2]

\* With two processes the VM is handed over to an affined process only if the
\* idle process can relinquish while the other waits in a callback.
MCBothHabits == {{"relinquishes", "calls back"}}

\* All the other images do at most what one of these does.
MCFewerHabits == {{"relinquishes", "keeps"}, {"calls back", "keeps"}}
=============================================================================
