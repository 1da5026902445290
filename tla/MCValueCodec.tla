----------------------------- MODULE MCValueCodec -----------------------------
\* A small instance of ValueCodec for TLC: numbers of two and three bits, a List
\* whose values are not its positions, Decimals that are narrowed, BitSets with and without bit 0.
EXTENDS ValueCodec

MCSizes == [Byte |-> 2 ^ 2, Short |-> 2 ^ 2, Int |-> 2 ^ 3]

MCItems == <<[label |-> "off", value |-> 2], [label |-> "on", value |-> 0], [label |-> "auto", value |-> 5]>>

\* Of four doubles two are floats.
MCFloat == [d \in 0..3 |-> 2 * (d \div 2)]

MCMasks == {{0, 1}, {1, 2}}

=============================================================================
