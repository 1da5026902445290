---------------------------- MODULE MCMqttCommands ----------------------------
\* One node with one value of any type; 257 is 1 in 8 bits, 0 is no node, and
\* -1 is a number that is not a Uint.
EXTENDS MqttCommands, Integers, TLC

CONSTANTS n1, v1

OneOwner == v1 :> n1
SomeNumbers == {-1, 0, 1, 257}
SomeKinds == [type : {"Byte"}, readOnly : BOOLEAN] \cup [type : {"BitSet", "Schedule"}, readOnly : {FALSE}]
Negatives == {-1}
In8Bits == [x \in SomeNumbers |-> IF x \in {1, 257} THEN n1 ELSE None]
================================================================================
