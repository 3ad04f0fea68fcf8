--------------------------- MODULE MCProcessLinks ---------------------------
EXTENDS ProcessLinks, TLC

CONSTANTS p1, p2, p3, p4, l1, l2

MCProcesses == {p1, p2, p3, p4}
MCLists     == {l1, l2}
MCSymmetry  == Permutations(MCProcesses) \cup Permutations(MCLists)
=============================================================================
