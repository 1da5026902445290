----------------------------- MODULE NetworkCopy -----------------------------
(***************************************************************************)
(* OZWManager implements LaggingCopy: m_validNodes is a lagging copy of    *)
(* the library's nodes.  What it lags behind by is in the queue: each      *)
(* event there makes m_validNodes the next of the sets it has still to be. *)
(***************************************************************************)
EXTENDS OZWManager

\* The library's nodes.
Network == {n \in Nodes : ozwNodes[n] # None}

\* n is valid after the first i waiting events: it was, or one of them adds it,
\* and no later one removes it.
ValidAfter(n, i) ==
    \E j \in 0..i :
        /\ IF j = 0 THEN n \in validNodes ELSE Adds(queue[j], n)
        /\ \A k \in (j + 1)..i : ~Removes(queue[k], n)

\* The sets that the waiting events will make of m_validNodes.
Pending == [i \in 1..Len(queue) |-> {n \in Nodes : ValidAfter(n, i)}]

Copy == INSTANCE LaggingCopy
          WITH Elements <- Nodes, source <- Network, lag <- Pending, copy <- validNodes

\* CopySpec: the mirror replays the history of the network.  Whatever the
\* slots read from a library that is ahead of them, m_validNodes becomes each
\* set of nodes the library had, in order, skips none and invents none;
\* events that are about no node tell the copy the same set again.
CopySpec == Copy!Spec
=============================================================================
