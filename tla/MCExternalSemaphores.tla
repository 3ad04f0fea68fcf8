------------------------ MODULE MCExternalSemaphores ------------------------
EXTENDS ExternalSemaphores

CONSTANTS r1, r2

MCRequestors == {r1, r2}
=============================================================================
