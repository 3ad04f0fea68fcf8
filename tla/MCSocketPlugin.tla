--------------------------- MODULE MCSocketPlugin ---------------------------
EXTENDS SocketPlugin

CONSTANTS s1, s2

MCSockets == {s1, s2}
=============================================================================
