------------------------------ MODULE MCDaemon ------------------------------
\* A small instance of Daemon for TLC: the controller and another node, which
\* has a value.
EXTENDS Daemon

CONSTANTS n1, n2, v1

MCOwner == [v \in Values |-> n2]

=============================================================================
