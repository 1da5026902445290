--------------------------- MODULE MCAssociations ---------------------------
\* Small instances of Associations for TLC.
EXTENDS Associations

CONSTANTS n1, n2, g1, g2, t1, t2

\* The first group takes instances.
FirstGroup == {<<n1, g1>>}
=============================================================================
