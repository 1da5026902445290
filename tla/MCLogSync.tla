----------------------------- MODULE MCLogSync -----------------------------
\* Small instances of LogSync for TLC.
EXTENDS LogSync

CONSTANTS c1, c2
=============================================================================
