---------------------------- MODULE Associations ----------------------------
(***************************************************************************)
(* The association groups of the nodes: QTOZW_Associations_internal, the   *)
(* table of groups that pvt_nodeGroupChanged refreshes from the library,   *)
(* and AddAssociation and RemoveAssociation, which consult that table.     *)
(*                                                                         *)
(* The table is a QMap from row numbers to rows.  A new row takes the row  *)
(* count as its number; deleting a node's rows leaves the numbers of the   *)
(* others alone.  As in OZWManager, the library changes on its own thread  *)
(* and its reports wait in the main thread's queue.                        *)
(***************************************************************************)
EXTENDS Naturals, Sequences, FiniteSets, SequencesExt

CONSTANTS
    Nodes,         \* Z-Wave node ids
    Groups,        \* association group numbers
    TargetNodes,   \* nodes that can be made members
    Instances,     \* instances of a target; 0 is the root device
    MultiInstance, \* the <<node, group>> pairs that support instances
    QueueBound     \* bound: events waiting in the main thread's queue

ASSUME AssociationsAssumption ==
    /\ MultiInstance \subseteq Nodes \X Groups
    /\ 0 \in Instances
    /\ QueueBound \in Nat \ {0}

Targets == TargetNodes \X Instances
Pairs == Nodes \X Groups

VARIABLES
    ozwNodes,   \* nodes of the library
    device,     \* members stored in the device of a group
    ozwGroups,  \* members the library last read from the device
    queue,      \* events waiting for the main thread
    validNodes, \* m_validNodes
    rows,       \* m_associationData: row number |-> row
    listed      \* ghost: members the library ever listed for a group of a node

vars == <<ozwNodes, device, ozwGroups, queue, validNodes, rows, listed>>

Row == [pair : Pairs, members : Seq(Targets)]
Message == [type : {"nodeGroupChanged"}, pair : Pairs]
             \cup [type : {"nodeAdded", "nodeRemoved"}, node : Nodes]
             \cup [type : {"driverReset"}]

Init ==
    /\ ozwNodes = {}
    /\ device = [p \in Pairs |-> {}]
    /\ ozwGroups = [p \in Pairs |-> {}]
    /\ queue = <<>>
    /\ validNodes = {}
    /\ rows = <<>>
    /\ listed = [p \in Pairs |-> {}]

-----------------------------------------------------------------------------
(* The library.                                                            *)

Post(m) == Len(queue) < QueueBound /\ queue' = Append(queue, m)

\* The device may have members from an earlier life.
OzwNodeAdded(n) ==
    /\ n \notin ozwNodes
    /\ ozwNodes' = ozwNodes \cup {n}
    /\ Post([type |-> "nodeAdded", node |-> n])
    /\ listed' = [p \in Pairs |-> IF p[1] = n THEN {} ELSE listed[p]]
    /\ ozwGroups' = [p \in Pairs |-> IF p[1] = n THEN {} ELSE ozwGroups[p]]
    /\ UNCHANGED <<device, validNodes, rows>>

OzwNodeRemoved(n) ==
    /\ n \in ozwNodes
    /\ ozwNodes' = ozwNodes \ {n}
    /\ Post([type |-> "nodeRemoved", node |-> n])
    /\ UNCHANGED <<device, ozwGroups, validNodes, rows, listed>>

\* The driver is reset, failed or removed: every node goes with one report.
OzwDriverReset ==
    /\ ozwNodes # {}
    /\ ozwNodes' = {}
    /\ Post([type |-> "driverReset"])
    /\ UNCHANGED <<device, ozwGroups, validNodes, rows, listed>>

\* The device reports a group: the library takes its members over.
OzwGroup(p) ==
    /\ p[1] \in ozwNodes
    /\ ozwGroups' = [ozwGroups EXCEPT ![p] = device[p]]
    /\ listed' = [listed EXCEPT ![p] = @ \cup device[p]]
    /\ Post([type |-> "nodeGroupChanged", pair |-> p])
    /\ UNCHANGED <<ozwNodes, device, validNodes, rows>>

Ozw ==
    \/ OzwDriverReset
    \/ \E n \in Nodes : OzwNodeAdded(n) \/ OzwNodeRemoved(n)
    \/ \E p \in Pairs : OzwGroup(p)

-----------------------------------------------------------------------------
(* The table.                                                              *)

\* getassocationRow: the rows of a group; the first one is used.
RowsOf(r, p) == {k \in DOMAIN r : r[k].pair = p}
HasRow(r, p) == RowsOf(r, p) # {}
RowNumber(r, p) == CHOOSE k \in RowsOf(r, p) : \A j \in RowsOf(r, p) : k <= j
Members(r, p) == IF HasRow(r, p) THEN ToSet(r[RowNumber(r, p)].members) ELSE {}

\* addGroup: the new row takes the number of rows as its number, whatever row
\* has that number.
addGroup(r, p) ==
    IF HasRow(r, p) THEN r
    ELSE LET rowCount == Cardinality(DOMAIN r) IN
         [k \in DOMAIN r \cup {rowCount} |->
            IF k = rowCount THEN [pair |-> p, members |-> <<>>] ELSE r[k]]

\* Fault: the rows of a node stay when it goes.
delNodeNothing(r, n) == r

\* delNode: the rows that are left keep their numbers.
delNode(r, n) == [k \in {j \in DOMAIN r : r[j].pair[1] # n} |-> r[k]]

\* The entries of a sequence that are in a set, up to each place and in all.
KeptUpTo(s, S) ==
    LET kept[i \in 0..Len(s)] ==
          IF i = 0 THEN <<>>
          ELSE IF s[i] \in S THEN Append(kept[i - 1], s[i]) ELSE kept[i - 1]
    IN  kept
Keep(s, S) == KeptUpTo(s, S)[Len(s)]

\* Fault: findAssociation is not asked.
WithAll(members, ia) == members \o ia

\* addAssociation for each association of the library's listing that
\* findAssociation does not find.
WithNew(members, ia) == members \o Keep(ia, ToSet(ia) \ ToSet(members))

\* Which members are found again.  The loop over the listing compares entry i
\* of it, i being the member's own place: behind the end of the listing that
\* reads whatever the memory holds.
Found(members, ia) ==
    {f \in [1..Len(members) -> BOOLEAN] :
       \A i \in 1..Len(members) :
          \/ Len(ia) = 0 /\ ~f[i]
          \/ 0 < Len(ia) /\ Len(ia) < i
          \/ i <= Len(ia) /\ (f[i] <=> members[i] = ia[i])}

\* What pvt_nodeGroupChanged makes of the table.  The members that are not
\* found are deleted by name.  The library lists a set of associations always
\* in the same order.
Refresh(r, p) ==
    LET a == addGroup(r, p)
        k == RowNumber(a, p)
        ia == SetToSeq(IF p[1] \in ozwNodes THEN ozwGroups[p] ELSE {})
        m == WithNew(a[k].members, ia)
    IN  {[a EXCEPT ![k].members = Keep(m, {m[i] : i \in {j \in 1..Len(m) : f[j]}})]
           : f \in Found(m, ia)}

findAssociation(p, t) == t \in Members(rows, p)
-----------------------------------------------------------------------------
(* The slots, on the main thread.                                          *)

Deliver(t) == queue # <<>> /\ Head(queue).type = t /\ queue' = Tail(queue)

pvt_nodeAdded ==
    /\ Deliver("nodeAdded")
    /\ validNodes' = validNodes \cup {Head(queue).node}
    /\ UNCHANGED <<ozwNodes, device, ozwGroups, rows, listed>>

pvt_nodeRemoved ==
    /\ Deliver("nodeRemoved")
    /\ validNodes' = validNodes \ {Head(queue).node}
    /\ rows' = delNode(rows, Head(queue).node)
    /\ UNCHANGED <<ozwNodes, device, ozwGroups, listed>>

\* pvt_driverReset, Failed and Removed, as far as groups are concerned.
pvt_driverReset ==
    /\ Deliver("driverReset")
    /\ validNodes' = {}
    /\ rows' = <<>>
    /\ UNCHANGED <<ozwNodes, device, ozwGroups, listed>>

\* It does not ask whether the node is valid.  When the driver is gone the
\* library may throw after the group was added.
pvt_nodeGroupChanged ==
    /\ Deliver("nodeGroupChanged")
    /\ \/ rows' \in Refresh(rows, Head(queue).pair)
       \/ ozwNodes = {} /\ rows' = addGroup(rows, Head(queue).pair)
    /\ UNCHANGED <<ozwNodes, device, ozwGroups, validNodes, listed>>

Slot == pvt_nodeAdded \/ pvt_nodeRemoved \/ pvt_driverReset \/ pvt_nodeGroupChanged

-----------------------------------------------------------------------------
(* Calls of the application.                                               *)

\* Fault: node and instance are read from each other's place.
EffectiveSwapped(p, t) == <<t[2], t[1]>>

\* A target instance is dropped when the group does not support instances.
Effective(p, t) == IF p \in MultiInstance THEN t ELSE <<t[1], 0>>

\* The library sends the change to the device, which may not get it, and asks
\* for a report.
AddAssociation(p, t) ==
    /\ p[1] \in validNodes
    /\ ~findAssociation(p, Effective(p, t))
    /\ p[1] \in ozwNodes
    /\ device' = [device EXCEPT ![p] = @ \cup {Effective(p, t)}]
    /\ UNCHANGED <<ozwNodes, ozwGroups, queue, validNodes, rows, listed>>

RemoveAssociation(p, t) ==
    /\ p[1] \in validNodes
    /\ findAssociation(p, Effective(p, t))
    /\ p[1] \in ozwNodes
    /\ device' = [device EXCEPT ![p] = @ \ {Effective(p, t)}]
    /\ UNCHANGED <<ozwNodes, ozwGroups, queue, validNodes, rows, listed>>

Client == \E p \in Pairs, t \in Targets : AddAssociation(p, t) \/ RemoveAssociation(p, t)

Next == Ozw \/ Slot \/ Client

Spec == Init /\ [][Next]_vars

-----------------------------------------------------------------------------
(* Properties.                                                             *)

\* Type invariant.
TypeOK ==
    /\ ozwNodes \subseteq Nodes /\ validNodes \subseteq Nodes
    /\ device \in [Pairs -> SUBSET Targets]
    /\ ozwGroups \in [Pairs -> SUBSET Targets]
    /\ listed \in [Pairs -> SUBSET Targets]
    /\ \A i \in 1..Len(queue) : queue[i] \in Message
    /\ DOMAIN rows \subseteq Nat
    /\ \A k \in DOMAIN rows :
         /\ rows[k].pair \in Pairs
         /\ \A i \in 1..Len(rows[k].members) : rows[k].members[i] \in Targets

\* Although pvt_nodeGroupChanged does not check the node, no group of a node
\* that has left stays behind once its events are handled, and no group ever
\* has two rows.
GroupsOfValidNodes ==
    /\ queue = <<>> => \A k \in DOMAIN rows : rows[k].pair[1] \in ozwNodes
    /\ \A k, j \in DOMAIN rows : rows[k].pair = rows[j].pair => k = j

\* Rows are found by number after numbers were reused, deleted by node and
\* refreshed out of step with the library: still no group shows a member that
\* the library did not list for this group since the node was added, and none
\* twice.
MembersWereListed ==
    \A k \in DOMAIN rows :
      LET m == rows[k].members IN
      /\ \A i, j \in 1..Len(m) : m[i] = m[j] => i = j
      /\ queue = <<>> => ToSet(m) \subseteq listed[rows[k].pair]

\* "Indicates the Memberships was successfully refreshed from the device": with
\* no event waiting, a group shows the members the library last read.
MembersRefreshed ==
    queue = <<>> => \A p \in Pairs :
      HasRow(rows, p) /\ p[1] \in ozwNodes => Members(rows, p) = ozwGroups[p]

=============================================================================
