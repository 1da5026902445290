--------------------------- MODULE MCMqttPublisher ---------------------------
\* A node with two values, one of them a BitSet, of two classes of one instance.
EXTENDS MqttPublisher, TLC

CONSTANTS n1, v1, b1, on, off

NodeOfAll == [v \in {v1, b1} |-> n1]
OneInstance == [v \in {v1, b1} |-> 1]
TwoClasses == [v \in {v1, b1} |-> IF v = b1 THEN 2 ELSE 1]
DataSymmetry == Permutations({on, off})
=============================================================================
