---------------------------- MODULE MCOZWManager ----------------------------
\* Small instances of OZWManager for TLC.
EXTENDS NetworkCopy, TLC

CONSTANTS n1, n2, v1, v2

\* One value on each node.
OneEach == v1 :> n1 @@ v2 :> n2

\* The single value of a small network.
Single == v1 :> n1
=============================================================================
