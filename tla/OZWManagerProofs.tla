-------------------------- MODULE OZWManagerProofs --------------------------
(***************************************************************************)
(* Proofs about OZWManager, for any set of nodes and values and any bound  *)
(* on the queue.  IInv, about nodes and keys, is inductive; so is          *)
(* MirrorInv, which adds homeId(), the value rows and the nodes the queue  *)
(* leads to.  The safety properties, and that m_validNodes is a            *)
(* LaggingCopy of the library's nodes, follow from them.                   *)
(***************************************************************************)
EXTENDS NetworkCopy, SequenceTheorems, TLAPS

-----------------------------------------------------------------------------
(* The queue.                                                              *)

\* What processNotification posts goes to the end of the queue, once.
LEMMA NotifyAppends ==
    ASSUME queue \in Seq(Message), slots = 1,
           NEW t, NEW x, [type |-> t, id |-> x] \in Message, Notify(t, x)
    PROVE  /\ queue' \in Seq(Message)
           /\ Len(queue') = Len(queue) + 1
           /\ \A i \in 1..Len(queue) : queue'[i] = queue[i]
           /\ queue'[Len(queue) + 1] = [type |-> t, id |-> x]
<1> DEFINE m == [type |-> t, id |-> x]
           s == [i \in 1..1 |-> m]
<1>1. queue' = queue \o s
  BY DEF Notify
<1>2. s \in Seq(Message) /\ Len(s) = 1 /\ s[1] = m
  OBVIOUS
<1> HIDE DEF s, m
<1>3. /\ queue \o s \in Seq(Message) /\ Len(queue \o s) = Len(queue) + Len(s)
      /\ \A i \in 1..(Len(queue) + Len(s)) :
           (queue \o s)[i] = IF i <= Len(queue) THEN queue[i] ELSE s[i - Len(queue)]
  BY <1>2, ConcatProperties
<1>4. PICK L \in Nat : L = Len(queue)
  OBVIOUS
<1>5. \A i \in 1..L : i \in 1..(L + 1) /\ i <= L
  OBVIOUS
<1>6. L + 1 \in 1..(L + 1) /\ ~(L + 1 <= L) /\ L + 1 - L = 1
  OBVIOUS
<1>7. QED
  BY <1>1, <1>2, <1>3, <1>4, <1>5, <1>6 DEF m

\* Delivering an event shifts the others one place to the front.
LEMMA DeliverShifts ==
    ASSUME queue \in Seq(Message), NEW t, Deliver(t)
    PROVE  /\ queue' \in Seq(Message)
           /\ Len(queue) \in Nat \ {0}
           /\ Len(queue') = Len(queue) - 1
           /\ \A i \in 1..Len(queue') : queue'[i] = queue[i + 1]
           /\ queue[1] \in Message /\ queue[1] = Head(queue) /\ queue[1].type = t
BY DEF Deliver

\* Only a value event carries a value, only a node event a node.
LEMMA MessageIds ==
    ASSUME NEW m \in Message
    PROVE  /\ m.type \in NodeTypes => m.id \in Nodes
           /\ m.type \in ValueTypes => m.id \in Values
BY DEF Message, NodeTypes, ValueTypes, DownTypes

-----------------------------------------------------------------------------
(* Types and the state of the link to the library.                         *)

\* The library has nodes and values only while its driver is ready, and the
\* slots are connected whenever it has a driver.
LEMMA OzwOnlyWhenReady ==
    ASSUME TypeOK, LinkInv
    PROVE  /\ driver = "init" => slots = 1
           /\ \A n \in Nodes : ozwNodes[n] # None => driver = "ready" /\ slots = 1
           /\ \A v \in Values : ozwValues[v] # None =>
                /\ Owner[v] \in Nodes /\ ozwNodes[Owner[v]] # None
                /\ driver = "ready" /\ slots = 1
BY ConstantsAssumption DEF TypeOK, LinkInv

LEMMA TypeInit == Init => TypeOK /\ LinkInv
<1> SUFFICES ASSUME Init PROVE TypeOK /\ LinkInv
  OBVIOUS
<1>1. TypeOK
  <2>1. queue \in Seq(Message)
    BY DEF Init
  <2>2. serialPort \in BOOLEAN /\ closing \in BOOLEAN /\ homeId \in BOOLEAN /\ running \in BOOLEAN
    BY Zenon DEF Init
  <2>3. QED
    BY <2>1, <2>2 DEF Init, TypeOK
<1>2. LinkInv
  BY ConstantsAssumption DEF Init, LinkInv
<1>3. QED
  BY <1>1, <1>2

LEMMA TypeOzw ==
    ASSUME TypeOK, LinkInv, Ozw
    PROVE  TypeOK' /\ LinkInv'
<1> USE ConstantsAssumption DEF TypeOK, LinkInv, linkVars, nodeVars, valueVars, Stages
<1>0. queue \in Seq(Message)
  OBVIOUS
<1>1. CASE OzwDriverReady
  <2>1. queue' \in Seq(Message)
    BY <1>1, NotifyAppends DEF OzwDriverReady, Message
  <2>2. QED
    BY <1>1, <2>1 DEF OzwDriverReady
<1>2. CASE OzwDriverFailed
  <2>1. queue' \in Seq(Message)
    BY <1>2, NotifyAppends DEF OzwDriverFailed, Message, DownTypes
  <2>2. QED
    BY <1>2, <2>1 DEF OzwDriverFailed
<1>3. CASE OzwDriverReset
  <2>1. queue' \in Seq(Message)
    BY <1>3, NotifyAppends DEF OzwDriverReset, Message, DownTypes
  <2>2. QED
    BY <1>3, <2>1 DEF OzwDriverReset
<1>4. ASSUME NEW n \in Nodes, OzwNodeAdded(n)
      PROVE  TypeOK' /\ LinkInv'
  <2>1. queue' \in Seq(Message)
    BY <1>4, NotifyAppends DEF OzwNodeAdded, Message, NodeTypes
  <2>2. QED
    BY <1>4, <2>1 DEF OzwNodeAdded
<1>5. ASSUME NEW n \in Nodes, OzwNodeQueriesComplete(n)
      PROVE  TypeOK' /\ LinkInv'
  <2>1. queue' \in Seq(Message)
    BY <1>5, NotifyAppends, OzwOnlyWhenReady DEF OzwNodeQueriesComplete, Message, NodeTypes
  <2>2. QED
    BY <1>5, <2>1 DEF OzwNodeQueriesComplete
<1>6. ASSUME NEW n \in Nodes, OzwNodeRemoved(n)
      PROVE  TypeOK' /\ LinkInv'
  <2>1. queue' \in Seq(Message)
    BY <1>6, NotifyAppends, OzwOnlyWhenReady DEF OzwNodeRemoved, Message, NodeTypes
  <2>2. QED
    BY <1>6, <2>1 DEF OzwNodeRemoved
<1>7. ASSUME NEW v \in Values, NEW d \in Data, OzwValueAdded(v, d)
      PROVE  TypeOK' /\ LinkInv'
  <2>1. queue' \in Seq(Message)
    BY <1>7, NotifyAppends, OzwOnlyWhenReady DEF OzwValueAdded, Message, ValueTypes
  <2>2. QED
    BY <1>7, <2>1 DEF OzwValueAdded
<1>8. ASSUME NEW v \in Values, NEW d \in Data, OzwValueChanged(v, d)
      PROVE  TypeOK' /\ LinkInv'
  <2>1. queue' \in Seq(Message)
    BY <1>8, NotifyAppends, OzwOnlyWhenReady DEF OzwValueChanged, Message, ValueTypes
  <2>2. QED
    BY <1>8, <2>1 DEF OzwValueChanged
<1>9. ASSUME NEW v \in Values, OzwValueRemoved(v)
      PROVE  TypeOK' /\ LinkInv'
  <2>1. queue' \in Seq(Message)
    BY <1>9, NotifyAppends, OzwOnlyWhenReady DEF OzwValueRemoved, Message, ValueTypes
  <2>2. QED
    BY <1>9, <2>1 DEF OzwValueRemoved
<1>10. QED
  BY <1>1, <1>2, <1>3, <1>4, <1>5, <1>6, <1>7, <1>8, <1>9 DEF Ozw

LEMMA TypeSlot ==
    ASSUME TypeOK, LinkInv, Slot
    PROVE  TypeOK' /\ LinkInv'
<1>0. queue \in Seq(Message)
  BY DEF TypeOK
<1>1. ozwVars' = ozwVars /\ linkVars' = linkVars
  BY DEF Slot, pvt_driverReady, pvt_driverDown, pvt_nodeAdded, pvt_nodeInfo, pvt_nodeRemoved,
         pvt_valueAdded, pvt_valueAddedFill, pvt_valueChanged, pvt_valueRemoved
<1>2. LinkInv'
  BY <1>1 DEF LinkInv, ozwVars, linkVars
<1> USE ConstantsAssumption DEF TypeOK, ozwVars, linkVars, nodeVars, valueVars, Stages
<1>3. CASE pvt_driverReady
  BY <1>0, <1>2, <1>3, DeliverShifts DEF pvt_driverReady
<1>4. CASE pvt_driverDown
  BY <1>0, <1>2, <1>4, DeliverShifts DEF pvt_driverDown
<1>5. CASE pvt_nodeAdded
  BY <1>0, <1>2, <1>5, DeliverShifts, MessageIds DEF pvt_nodeAdded, StageReads, NodeTypes
<1>6. CASE pvt_nodeInfo
  BY <1>0, <1>2, <1>6, DeliverShifts, MessageIds DEF pvt_nodeInfo, StageReads, NodeTypes
<1>7. ASSUME NEW vs, DropValues(vs)
      PROVE  /\ validValues' \in SUBSET Values /\ written' \in SUBSET Values
             /\ rowNode' \in [Values -> Nodes \cup {"unset", None}]
             /\ rowData' \in [Values -> Data \cup {None}]
  BY <1>7 DEF DropValues
<1>8. CASE pvt_nodeRemoved
  <2>1. queue' \in Seq(Message) /\ validNodes' \in SUBSET Nodes
        /\ nodeRows' \in [Nodes -> Stages \cup {"unset", None}]
    BY <1>0, <1>8, DeliverShifts DEF pvt_nodeRemoved
  <2>2. QED
    BY <1>2, <1>7, <1>8, <2>1 DEF pvt_nodeRemoved
<1>9. CASE pvt_valueAdded
  <2>1. queue' \in Seq(Message) /\ Head(queue).id \in Values
    BY <1>0, <1>9, DeliverShifts, MessageIds DEF pvt_valueAdded, ValueTypes
  <2>2. rowNode' \in [Values -> Nodes \cup {"unset", None}]
        /\ validValues' \in SUBSET Values /\ filling' \in Values \cup {None}
    BY <1>9, <2>1 DEF pvt_valueAdded
  <2>3. QED
    BY <1>2, <1>9, <2>1, <2>2 DEF pvt_valueAdded
<1>10. CASE pvt_valueAddedFill
  BY <1>2, <1>10 DEF pvt_valueAddedFill
<1>11. CASE pvt_valueChanged
  <2>1. queue' \in Seq(Message) /\ Head(queue).id \in Values
    BY <1>0, <1>11, DeliverShifts, MessageIds DEF pvt_valueChanged, ValueTypes
  <2>2. rowData' \in [Values -> Data \cup {None}] /\ written' \in SUBSET Values
    BY <1>11, <2>1 DEF pvt_valueChanged, Converts
  <2>3. QED
    BY <1>2, <1>11, <2>1, <2>2 DEF pvt_valueChanged
<1>12. CASE pvt_valueRemoved
  <2>1. queue' \in Seq(Message)
    BY <1>0, <1>12, DeliverShifts DEF pvt_valueRemoved
  <2>2. QED
    BY <1>2, <1>7, <1>12, <2>1 DEF pvt_valueRemoved
<1>13. QED
  BY <1>3, <1>4, <1>5, <1>6, <1>8, <1>9, <1>10, <1>11, <1>12 DEF Slot

LEMMA TypeClient ==
    ASSUME TypeOK, LinkInv, Client
    PROVE  TypeOK' /\ LinkInv'
<1> USE ConstantsAssumption DEF TypeOK, LinkInv, ozwVars, linkVars, nodeVars, valueVars, Stages
<1>0. queue \in Seq(Message)
  OBVIOUS
<1>1. ASSUME NEW ok \in BOOLEAN, open(ok)
      PROVE  TypeOK' /\ LinkInv'
  <2>1. CASE slots > 0
    BY <1>1, <2>1 DEF open
  <2>2. CASE slots = 0 /\ ok
    BY <1>1, <2>2 DEF open
  <2>3. CASE slots = 0 /\ ~ok
    BY <1>1, <2>3 DEF open
  <2>4. QED
    BY <2>1, <2>2, <2>3
<1>2. CASE close
  <2>1. queue' \in Seq(Message)
    BY <1>2, NotifyAppends DEF close, Message, DownTypes
  <2>2. QED
    BY <1>2, <2>1 DEF close
<1>3. CASE closeFinish
  BY <1>3 DEF closeFinish
<1>4. ASSUME NEW v \in Values, NEW d \in Data, setData(v, d)
      PROVE  TypeOK' /\ LinkInv'
  BY <1>4 DEF setData
<1>5. QED
  BY <1>1, <1>2, <1>3, <1>4 DEF Client

LEMMA TypeStep == TypeOK /\ LinkInv /\ [Next]_vars => TypeOK' /\ LinkInv'
<1>1. ASSUME TypeOK, LinkInv, UNCHANGED vars
      PROVE  TypeOK' /\ LinkInv'
  BY <1>1 DEF TypeOK, LinkInv, vars, ozwVars, linkVars, nodeVars, valueVars
<1>2. QED
  BY <1>1, TypeOzw, TypeSlot, TypeClient DEF Next

-----------------------------------------------------------------------------
(* What the waiting events will make of a node.                            *)

\* An event at the end of the queue changes nothing for the events before it,
\* and decides about the nodes it touches.
LEMMA AppendDecides ==
    ASSUME NEW L \in Nat, L = Len(queue), Len(queue') = L + 1,
           \A i \in 1..L : queue'[i] = queue[i],
           validNodes' = validNodes, NEW n \in Nodes
    PROVE  /\ \A i \in 1..(L + 1) : /\ ValidAt(n, i) => ValidAt(n, i)'
                                    /\ GoneAt(n, i) => GoneAt(n, i)'
           /\ Adds(queue'[L + 1], n) => ValidAt(n, L + 2)'
           /\ Removes(queue'[L + 1], n) => GoneAt(n, L + 2)'
           /\ ~Touches(queue'[L + 1], n) =>
                /\ ValidAt(n, L + 1) => ValidAt(n, L + 2)'
                /\ GoneAt(n, L + 1) => GoneAt(n, L + 2)'
<1>1. \A i \in 1..(L + 1) : /\ ValidAt(n, i) => ValidAt(n, i)'
                            /\ GoneAt(n, i) => GoneAt(n, i)'
  <2> SUFFICES ASSUME NEW i \in 1..(L + 1)
               PROVE  /\ ValidAt(n, i) => ValidAt(n, i)'
                      /\ GoneAt(n, i) => GoneAt(n, i)'
    OBVIOUS
  <2>1. \A k \in 1..(i - 1) : queue'[k] = queue[k]
    OBVIOUS
  <2>2. Untouched(n, i)' <=> Untouched(n, i)
    BY <2>1 DEF Untouched, Touches, Adds, Removes
  <2>3. \A j \in 1..(i - 1) : LastTouch(n, j, i)' <=> LastTouch(n, j, i)
    BY <2>1 DEF LastTouch, Touches, Adds, Removes
  <2>4. QED
    BY <2>1, <2>2, <2>3 DEF ValidAt, GoneAt, Adds, Removes
<1>2. ASSUME Touches(queue'[L + 1], n)
      PROVE  /\ ~Untouched(n, L + 2)'
             /\ \A j \in 1..(L + 1) : LastTouch(n, j, L + 2)' => j = L + 1
  BY <1>2 DEF Untouched, LastTouch, Touches, Adds, Removes
<1>3. ASSUME ~Touches(queue'[L + 1], n)
      PROVE  /\ ValidAt(n, L + 1) => ValidAt(n, L + 2)'
             /\ GoneAt(n, L + 1) => GoneAt(n, L + 2)'
  <2>1. Untouched(n, L + 2)' => Untouched(n, L + 1)
    BY DEF Untouched, Touches, Adds, Removes
  <2>2. ASSUME NEW j \in 1..(L + 1), LastTouch(n, j, L + 2)'
        PROVE  j \in 1..L /\ LastTouch(n, j, L + 1)
    <3>1. j # L + 1
      BY <1>3, <2>2 DEF LastTouch, Touches, Adds, Removes
    <3>2. j \in 1..L /\ queue'[j] = queue[j]
      BY <3>1
    <3>3. \A k \in (j + 1)..L : queue'[k] = queue[k] /\ k \in (j + 1)..(L + 1)
      BY <3>2
    <3>4. Touches(queue[j], n)
      BY <2>2, <3>2 DEF LastTouch, Touches, Adds, Removes
    <3>5. ASSUME NEW k \in (j + 1)..L PROVE ~Touches(queue[k], n)
      <4>1. L + 2 - 1 = L + 1 /\ queue'[k] = queue[k] /\ k \in (j + 1)..(L + 1)
        BY <3>3
      <4>2. QED
        BY <2>2, <4>1 DEF LastTouch, Touches, Adds, Removes
    <3>6. L + 1 - 1 = L
      OBVIOUS
    <3>7. QED
      BY <3>2, <3>4, <3>5, <3>6 DEF LastTouch
  <2>3. \A j \in 1..L : queue'[j] = queue[j]
    OBVIOUS
  <2>4. L + 1 - 1 = L /\ L + 2 - 1 = L + 1
    OBVIOUS
  <2>5. ValidAt(n, L + 1) => ValidAt(n, L + 2)'
    BY <2>1, <2>2, <2>3, <2>4 DEF ValidAt, Adds
  <2>6. GoneAt(n, L + 1) => GoneAt(n, L + 2)'
    BY <2>1, <2>2, <2>3, <2>4 DEF GoneAt, Removes
  <2>7. QED
    BY <2>5, <2>6
<1>4. L + 2 - 1 = L + 1
  OBVIOUS
<1>5. QED
  BY <1>1, <1>2, <1>3, <1>4 DEF ValidAt, GoneAt, Touches, Adds, Removes

\* A slot that does to a node what its event says leaves the rest of the queue
\* with the same outcome.
LEMMA DeliverDecides ==
    ASSUME NEW n \in Nodes, Len(queue) \in Nat \ {0},
           \A i \in 1..(Len(queue) - 1) : queue'[i] = queue[i + 1],
           n \in validNodes' <=>
             Adds(queue[1], n) \/ (~Removes(queue[1], n) /\ n \in validNodes)
    PROVE  \A i \in 1..Len(queue) : /\ ValidAt(n, i + 1) => ValidAt(n, i)'
                                    /\ GoneAt(n, i + 1) => GoneAt(n, i)'
<1> SUFFICES ASSUME NEW i \in 1..Len(queue)
             PROVE  /\ ValidAt(n, i + 1) => ValidAt(n, i)'
                    /\ GoneAt(n, i + 1) => GoneAt(n, i)'
  OBVIOUS
<1>0. ~(Adds(queue[1], n) /\ Removes(queue[1], n))
  BY DEF Adds, Removes, DownTypes
<1>1. \A k \in 1..(i - 1) : queue'[k] = queue[k + 1]
  OBVIOUS
<1>2. ASSUME Untouched(n, i)'
      PROVE  IF Touches(queue[1], n) THEN LastTouch(n, 1, i + 1) ELSE Untouched(n, i + 1)
  <2>1. ASSUME NEW k \in 2..i PROVE ~Touches(queue[k], n)
    <3>1. k - 1 \in 1..(i - 1) /\ (k - 1) + 1 = k
      OBVIOUS
    <3>2. QED
      BY <1>1, <1>2, <3>1 DEF Untouched, Touches, Adds, Removes
  <2>2. i + 1 - 1 = i /\ 1 + 1 = 2
    OBVIOUS
  <2>3. QED
    BY <2>1, <2>2 DEF Untouched, LastTouch
<1>3. ASSUME NEW j \in 1..(i - 1), LastTouch(n, j, i)'
      PROVE  LastTouch(n, j + 1, i + 1)
  <2>1. ASSUME NEW k \in (j + 2)..i PROVE ~Touches(queue[k], n)
    <3>1. k - 1 \in (j + 1)..(i - 1) /\ k - 1 \in 1..(i - 1) /\ (k - 1) + 1 = k
      OBVIOUS
    <3>2. QED
      BY <1>1, <1>3, <3>1 DEF LastTouch, Touches, Adds, Removes
  <2>2. Touches(queue[j + 1], n)
    BY <1>1, <1>3 DEF LastTouch, Touches, Adds, Removes
  <2>3. i + 1 - 1 = i /\ (j + 1) + 1 = j + 2
    OBVIOUS
  <2>4. QED
    BY <2>1, <2>2, <2>3 DEF LastTouch
<1>4. /\ i + 1 - 1 = i /\ 1 \in 1..i
      /\ \A j \in 1..(i - 1) : j + 1 \in 1..i
  OBVIOUS
<1>5. ValidAt(n, i + 1) => ValidAt(n, i)'
  <2>1. ASSUME ValidAt(n, i + 1), Untouched(n, i)' PROVE n \in validNodes'
    BY <1>0, <1>2, <1>4, <2>1 DEF ValidAt, Touches
  <2>2. ASSUME ValidAt(n, i + 1), NEW j \in 1..(i - 1), LastTouch(n, j, i)'
        PROVE  Adds(queue'[j], n)
    BY <1>1, <1>3, <1>4, <2>2 DEF ValidAt
  <2>3. QED
    BY <2>1, <2>2 DEF ValidAt, Adds
<1>6. GoneAt(n, i + 1) => GoneAt(n, i)'
  <2>1. ASSUME GoneAt(n, i + 1), Untouched(n, i)' PROVE n \notin validNodes'
    BY <1>0, <1>2, <1>4, <2>1 DEF GoneAt, Touches
  <2>2. ASSUME GoneAt(n, i + 1), NEW j \in 1..(i - 1), LastTouch(n, j, i)'
        PROVE  Removes(queue'[j], n)
    BY <1>1, <1>3, <1>4, <2>2 DEF GoneAt
  <2>3. QED
    BY <2>1, <2>2 DEF GoneAt, Removes
<1>7. QED
  BY <1>5, <1>6

\* The outcome at the end of the next queue, whose length is known.
LEMMA EndOfNextQueue ==
    ASSUME NEW n, NEW i \in Nat, Len(queue') \in Nat, i = Len(queue') + 1
    PROVE  /\ ValidAt(n, i)' => ValidAt(n, Len(queue) + 1)'
           /\ GoneAt(n, i)' => GoneAt(n, Len(queue) + 1)'
<1>1. (Len(queue) + 1)' = i
  OBVIOUS
<1>2. ValidAt(n, i)' => ValidAt(n, Len(queue) + 1)'
  BY <1>1 DEF ValidAt, Untouched, LastTouch
<1>3. GoneAt(n, i)' => GoneAt(n, Len(queue) + 1)'
  BY <1>1 DEF GoneAt, Untouched, LastTouch
<1>4. QED
  BY <1>2, <1>3

\* A report posted together with the change it is about keeps the promise that
\* the waiting events lead to the library's nodes, values within their node.
LEMMA AppendKeeps ==
    ASSUME TypeOK, PresenceInv, OrderInv, NEW m \in Message,
           Len(queue') = Len(queue) + 1, queue'[Len(queue) + 1] = m,
           \A i \in 1..Len(queue) : queue'[i] = queue[i],
           validNodes' = validNodes,
           \A n \in Nodes : ozwNodes'[n] # None <=>
               Adds(m, n) \/ (~Removes(m, n) /\ ozwNodes[n] # None),
           m.type = "valueAdded" => ozwNodes[Owner[m.id]] # None
    PROVE  PresenceInv' /\ OrderInv'
<1>0. PICK L \in Nat : L = Len(queue)
  BY DEF TypeOK
<1>1. Len(queue') = L + 1 /\ \A i \in 1..L : queue'[i] = queue[i]
  BY <1>0
<1>2. ASSUME NEW n \in Nodes
      PROVE  IF ozwNodes[n] # None THEN ValidAt(n, L + 1) ELSE GoneAt(n, L + 1)
  BY <1>0 DEF PresenceInv
<1>3. ASSUME NEW n \in Nodes
      PROVE  IF ozwNodes'[n] # None THEN ValidAt(n, L + 2)' ELSE GoneAt(n, L + 2)'
  BY <1>0, <1>1, <1>2, AppendDecides DEF Touches
<1>4. PresenceInv'
  <2>1. L + 2 = Len(queue') + 1 /\ L + 2 \in Nat /\ Len(queue') \in Nat
    BY <1>1
  <2>2. QED
    BY <1>3, <2>1, EndOfNextQueue DEF PresenceInv
<1>5. ASSUME NEW i \in 1..(L + 1), queue'[i].type = "valueAdded"
      PROVE  ValidAt(Owner[queue[i].id], i)'
  <2>0. queue'[i] \in Message
    BY <1>0, <1>1 DEF TypeOK
  <2>1. PICK o \in Nodes : o = Owner[queue'[i].id]
    BY <1>5, <2>0, MessageIds, ConstantsAssumption DEF ValueTypes
  <2>2. ValidAt(o, i)
    BY <1>0, <1>1, <1>2, <1>5, <2>1 DEF OrderInv
  <2>3. ValidAt(o, i)'
    BY <1>0, <1>1, <2>2, AppendDecides
  <2>4. QED
    BY <2>1, <2>3 DEF ValidAt, Untouched, LastTouch
<1>6. OrderInv'
  BY <1>1, <1>5 DEF OrderInv
<1>7. QED
  BY <1>4, <1>6

\* A slot that does to every node what its event says keeps that promise too.
LEMMA DeliverKeeps ==
    ASSUME TypeOK, PresenceInv, OrderInv, NEW t, Deliver(t), ozwNodes' = ozwNodes,
           \A n \in Nodes : n \in validNodes' <=>
               Adds(queue[1], n) \/ (~Removes(queue[1], n) /\ n \in validNodes)
    PROVE  PresenceInv' /\ OrderInv'
<1>0. PICK L \in Nat \ {0} : L = Len(queue)
  BY DeliverShifts DEF TypeOK
<1>1. Len(queue') = L - 1 /\ \A i \in 1..(L - 1) : queue'[i] = queue[i + 1]
  BY <1>0, DeliverShifts DEF TypeOK
<1>2. ASSUME NEW n \in Nodes, NEW i \in 1..L
      PROVE  /\ ValidAt(n, i + 1) => ValidAt(n, i)'
             /\ GoneAt(n, i + 1) => GoneAt(n, i)'
  BY <1>0, <1>1, DeliverDecides
<1>3. ASSUME NEW n \in Nodes
      PROVE  IF ozwNodes'[n] # None THEN ValidAt(n, L)' ELSE GoneAt(n, L)'
  BY <1>0, <1>2 DEF PresenceInv
<1>4. PresenceInv'
  <2>1. L = Len(queue') + 1 /\ Len(queue') \in Nat
    BY <1>1
  <2>2. QED
    BY <1>3, <2>1, EndOfNextQueue DEF PresenceInv
<1>5. ASSUME NEW i \in 1..(L - 1), queue'[i].type = "valueAdded"
      PROVE  ValidAt(Owner[queue[i].id], i)'
  <2>0. queue[i + 1] \in Message /\ i + 1 \in 1..L
    BY <1>0 DEF TypeOK
  <2>1. PICK o \in Nodes : o = Owner[queue'[i].id]
    BY <1>1, <1>5, <2>0, MessageIds, ConstantsAssumption DEF ValueTypes
  <2>2. ValidAt(o, i + 1)
    BY <1>0, <1>1, <1>5, <2>0, <2>1 DEF OrderInv
  <2>3. ValidAt(o, i)'
    BY <1>2, <2>2
  <2>4. QED
    BY <2>1, <2>3 DEF ValidAt, Untouched, LastTouch
<1>6. OrderInv'
  BY <1>1, <1>5 DEF OrderInv
<1>7. QED
  BY <1>4, <1>6

\* A change of a node's stage is posted with the change.
LEMMA AppendStage ==
    ASSUME TypeOK, StageInv, NEW m,
           Len(queue') = Len(queue) + 1, queue'[Len(queue) + 1] = m,
           \A i \in 1..Len(queue) : queue'[i] = queue[i],
           validNodes' = validNodes, nodeRows' = nodeRows,
           \A n \in Nodes : \/ ozwNodes'[n] \in {ozwNodes[n], None}
                            \/ Touches(m, n)
                            \/ m = [type |-> "nodeInfo", id |-> n]
    PROVE  StageInv'
<1>1. Len(queue) \in Nat
  BY DEF TypeOK
<1>2. SUFFICES ASSUME NEW n \in Nodes, ozwNodes'[n] # None,
                      \A i \in 1..Len(queue') : /\ ~Touches(queue'[i], n)
                                                /\ queue'[i] # [type |-> "nodeInfo", id |-> n]
               PROVE  nodeRows[n] = ozwNodes'[n]
  BY DEF StageInv, Touches, Adds, Removes
<1>3. ~Touches(m, n) /\ m # [type |-> "nodeInfo", id |-> n]
  BY <1>1, <1>2
<1>4. \A i \in 1..Len(queue) : /\ ~Touches(queue[i], n)
                               /\ queue[i] # [type |-> "nodeInfo", id |-> n]
  BY <1>1, <1>2
<1>5. QED
  BY <1>2, <1>3, <1>4 DEF StageInv

\* A slot refreshes the rows its event is about.
LEMMA DeliverStage ==
    ASSUME TypeOK, PresenceInv', StageInv, NEW t, Deliver(t), ozwNodes' = ozwNodes,
           \A n \in Nodes : nodeRows'[n] = None <=> n \notin validNodes',
           \A n \in Nodes :
             IF Touches(queue[1], n) \/ queue[1] = [type |-> "nodeInfo", id |-> n]
             THEN ozwNodes[n] # None /\ n \in validNodes' => nodeRows'[n] = ozwNodes[n]
             ELSE nodeRows'[n] = nodeRows[n]
    PROVE  StageInv'
<1>0. PICK L \in Nat \ {0} : L = Len(queue)
  BY DeliverShifts DEF TypeOK
<1>1. Len(queue') = L - 1 /\ \A i \in 1..(L - 1) : queue'[i] = queue[i + 1]
  BY <1>0, DeliverShifts DEF TypeOK
<1>2. SUFFICES ASSUME NEW n \in Nodes, ozwNodes[n] # None,
                      \A i \in 1..(L - 1) : /\ ~Touches(queue'[i], n)
                                            /\ queue'[i] # [type |-> "nodeInfo", id |-> n]
               PROVE  nodeRows'[n] = ozwNodes[n]
  BY <1>1 DEF StageInv, Touches, Adds, Removes
<1>3. n \in validNodes'
  <2>1. ValidAt(n, Len(queue) + 1)'
    BY <1>2 DEF PresenceInv
  <2>2. Untouched(n, Len(queue) + 1)' => n \in validNodes'
    BY <2>1 DEF ValidAt
  <2>3. QED
    BY <1>1, <1>2, <2>2 DEF Untouched, Touches, Adds, Removes
<1>4. CASE Touches(queue[1], n) \/ queue[1] = [type |-> "nodeInfo", id |-> n]
  BY <1>2, <1>3, <1>4
<1>5. CASE ~(Touches(queue[1], n) \/ queue[1] = [type |-> "nodeInfo", id |-> n])
  <2>1. ASSUME NEW i \in 1..L
        PROVE  ~Touches(queue[i], n) /\ queue[i] # [type |-> "nodeInfo", id |-> n]
    <3>1. CASE i = 1
      BY <1>5, <3>1
    <3>2. CASE i # 1
      <4>1. i - 1 \in 1..(L - 1) /\ (i - 1) + 1 = i
        BY <3>2
      <4>2. queue'[i - 1] = queue[i]
        BY <1>1, <4>1
      <4>3. QED
        BY <1>2, <4>1, <4>2
    <3>3. QED
      BY <3>1, <3>2
  <2>2. nodeRows[n] = ozwNodes[n]
    BY <1>0, <1>2, <2>1 DEF StageInv
  <2>3. QED
    BY <1>5, <2>2
<1>6. QED
  BY <1>4, <1>5

-----------------------------------------------------------------------------
(* IInv is inductive.                                                      *)

\* What the invariant says of the value rows, for steps that leave them alone.
LEMMA RowsKept ==
    ASSUME FillInv, RowsHaveKeys, RowsNameValidNodes,
           UNCHANGED <<validNodes, validValues, rowNode, filling>>
    PROVE  FillInv' /\ RowsHaveKeys' /\ RowsNameValidNodes'
BY DEF FillInv, RowsHaveKeys, RowsNameValidNodes

\* A step of the library is a change of its state and one report of it.
LEMMA ReportKeeps ==
    ASSUME IInv, slots = 1, NEW t, NEW x, [type |-> t, id |-> x] \in Message,
           Notify(t, x), UNCHANGED <<nodeVars, valueVars, filling>>,
           \A n \in Nodes : ozwNodes'[n] # None <=>
               \/ Adds([type |-> t, id |-> x], n)
               \/ ~Removes([type |-> t, id |-> x], n) /\ ozwNodes[n] # None,
           \A n \in Nodes : \/ ozwNodes'[n] \in {ozwNodes[n], None}
                            \/ Touches([type |-> t, id |-> x], n)
                            \/ t = "nodeInfo" /\ x = n,
           t = "valueAdded" => ozwNodes[Owner[x]] # None
    PROVE  /\ PresenceInv' /\ OrderInv' /\ StageInv'
           /\ FillInv' /\ RowsHaveKeys' /\ RowsNameValidNodes'
<1> DEFINE m == [type |-> t, id |-> x]
<1>1. /\ Len(queue') = Len(queue) + 1
      /\ \A i \in 1..Len(queue) : queue'[i] = queue[i]
      /\ queue'[Len(queue) + 1] = m
  BY NotifyAppends DEF IInv, TypeOK
<1>2. validNodes' = validNodes /\ nodeRows' = nodeRows
  BY DEF nodeVars
<1>3. m.type = t /\ m.id = x
  OBVIOUS
<1>4. \A n \in Nodes : \/ ozwNodes'[n] \in {ozwNodes[n], None}
                       \/ Touches(m, n)
                       \/ m = [type |-> "nodeInfo", id |-> n]
  OBVIOUS
<1> HIDE DEF m
<1>5. PresenceInv' /\ OrderInv'
  BY <1>1, <1>2, <1>3, AppendKeeps DEF IInv, m
<1>6. StageInv'
  BY <1>1, <1>2, <1>4, AppendStage DEF IInv
<1>7. FillInv' /\ RowsHaveKeys' /\ RowsNameValidNodes'
  BY RowsKept DEF IInv, nodeVars, valueVars
<1>8. QED
  BY <1>5, <1>6, <1>7

\* A slot that drops no row and no key, and leaves the nodes alone.
LEMMA NodesKept ==
    ASSUME IInv, NEW t, Deliver(t), t \notin NodeTypes \cup DownTypes,
           UNCHANGED <<ozwVars, nodeVars>>
    PROVE  PresenceInv' /\ OrderInv' /\ StageInv'
<1>1. queue[1].type = t /\ \A n : ~Touches(queue[1], n)
  BY DeliverShifts DEF IInv, TypeOK, Touches, Adds, Removes, NodeTypes
<1>2. ozwNodes' = ozwNodes /\ validNodes' = validNodes /\ nodeRows' = nodeRows
  BY DEF ozwVars, nodeVars
<1>3. PresenceInv' /\ OrderInv'
  BY <1>1, <1>2, DeliverKeeps DEF IInv, Touches
<1>4. \A n \in Nodes : queue[1] # [type |-> "nodeInfo", id |-> n]
  BY <1>1 DEF NodeTypes
<1>5. StageInv'
  <2>1. \A n \in Nodes : nodeRows'[n] = None <=> n \notin validNodes'
    BY <1>2 DEF IInv, StageInv
  <2>2. QED
    BY <1>1, <1>2, <1>3, <1>4, <2>1, DeliverStage DEF IInv
<1>6. QED
  BY <1>3, <1>5

LEMMA InvOzw ==
    ASSUME IInv, Ozw
    PROVE  /\ PresenceInv' /\ OrderInv' /\ StageInv'
           /\ FillInv' /\ RowsHaveKeys' /\ RowsNameValidNodes'
<1> USE DEF Message, NodeTypes, ValueTypes, DownTypes
<1>0. TypeOK /\ LinkInv
  BY DEF IInv
<1>1. CASE OzwDriverReady
  <2>1. slots = 1 /\ Notify("driverReady", None)
    BY <1>0, <1>1, OzwOnlyWhenReady DEF OzwDriverReady
  <2>2. QED
    BY <1>1, <2>1, ReportKeeps DEF OzwDriverReady, Adds, Removes
<1>2. CASE OzwDriverFailed
  <2>1. slots = 1 /\ \A n \in Nodes : ozwNodes[n] = None
    BY <1>0, <1>2, OzwOnlyWhenReady DEF OzwDriverFailed
  <2>2. QED
    BY <1>2, <2>1, ReportKeeps DEF OzwDriverFailed, Adds, Removes
<1>3. CASE OzwDriverReset
  <2>1. slots = 1
    BY <1>0, <1>3 DEF OzwDriverReset, LinkInv
  <2>2. QED
    BY <1>3, <2>1, ReportKeeps DEF OzwDriverReset, Adds, Removes
<1>4. ASSUME NEW n \in Nodes, OzwNodeAdded(n)
      PROVE  /\ PresenceInv' /\ OrderInv' /\ StageInv'
             /\ FillInv' /\ RowsHaveKeys' /\ RowsNameValidNodes'
  <2>1. slots = 1
    BY <1>0, <1>4 DEF OzwNodeAdded, LinkInv
  <2>2. \A k \in Nodes : ozwNodes'[k] = IF k = n THEN "added" ELSE ozwNodes[k]
    BY <1>0, <1>4 DEF OzwNodeAdded, TypeOK
  <2>3. QED
    BY <1>4, <2>1, <2>2, ConstantsAssumption, ReportKeeps DEF OzwNodeAdded, Adds, Removes, Touches
<1>5. ASSUME NEW n \in Nodes, OzwNodeQueriesComplete(n)
      PROVE  /\ PresenceInv' /\ OrderInv' /\ StageInv'
             /\ FillInv' /\ RowsHaveKeys' /\ RowsNameValidNodes'
  <2>1. slots = 1
    BY <1>0, <1>5, ConstantsAssumption, OzwOnlyWhenReady DEF OzwNodeQueriesComplete
  <2>2. \A k \in Nodes : ozwNodes'[k] = IF k = n THEN "complete" ELSE ozwNodes[k]
    BY <1>0, <1>5 DEF OzwNodeQueriesComplete, TypeOK
  <2>3. ozwNodes[n] # None
    BY <1>5, ConstantsAssumption DEF OzwNodeQueriesComplete
  <2>4. \A k \in Nodes : /\ ~Adds([type |-> "nodeInfo", id |-> n], k)
                         /\ ~Removes([type |-> "nodeInfo", id |-> n], k)
    BY DEF Adds, Removes
  <2>5. \A k \in Nodes : /\ ozwNodes'[k] # None <=> ozwNodes[k] # None
                         /\ ozwNodes'[k] = ozwNodes[k] \/ n = k
    BY <2>2, <2>3, ConstantsAssumption
  <2>6. [type |-> "nodeInfo", id |-> n] \in Message
    OBVIOUS
  <2>7. Notify("nodeInfo", n) /\ UNCHANGED <<nodeVars, valueVars, filling>>
    BY <1>5 DEF OzwNodeQueriesComplete
  <2>8. QED
    BY <2>1, <2>4, <2>5, <2>6, <2>7, ReportKeeps
<1>6. ASSUME NEW n \in Nodes, OzwNodeRemoved(n)
      PROVE  /\ PresenceInv' /\ OrderInv' /\ StageInv'
             /\ FillInv' /\ RowsHaveKeys' /\ RowsNameValidNodes'
  <2>1. slots = 1
    BY <1>0, <1>6, OzwOnlyWhenReady DEF OzwNodeRemoved
  <2>2. \A k \in Nodes : ozwNodes'[k] = IF k = n THEN None ELSE ozwNodes[k]
    BY <1>0, <1>6 DEF OzwNodeRemoved, TypeOK
  <2>3. QED
    BY <1>6, <2>1, <2>2, ReportKeeps DEF OzwNodeRemoved, Adds, Removes
<1>7. ASSUME NEW v \in Values, NEW d \in Data, OzwValueAdded(v, d)
      PROVE  /\ PresenceInv' /\ OrderInv' /\ StageInv'
             /\ FillInv' /\ RowsHaveKeys' /\ RowsNameValidNodes'
  <2>1. slots = 1
    BY <1>0, <1>7, ConstantsAssumption, OzwOnlyWhenReady DEF OzwValueAdded
  <2>2. QED
    BY <1>7, <2>1, ReportKeeps DEF OzwValueAdded, Adds, Removes
<1>8. ASSUME NEW v \in Values, NEW d \in Data, OzwValueChanged(v, d)
      PROVE  /\ PresenceInv' /\ OrderInv' /\ StageInv'
             /\ FillInv' /\ RowsHaveKeys' /\ RowsNameValidNodes'
  <2>1. slots = 1
    BY <1>0, <1>8, OzwOnlyWhenReady DEF OzwValueChanged
  <2>2. QED
    BY <1>8, <2>1, ReportKeeps DEF OzwValueChanged, Adds, Removes
<1>9. ASSUME NEW v \in Values, OzwValueRemoved(v)
      PROVE  /\ PresenceInv' /\ OrderInv' /\ StageInv'
             /\ FillInv' /\ RowsHaveKeys' /\ RowsNameValidNodes'
  <2>1. slots = 1
    BY <1>0, <1>9, OzwOnlyWhenReady DEF OzwValueRemoved
  <2>2. QED
    BY <1>9, <2>1, ReportKeeps DEF OzwValueRemoved, Adds, Removes
<1>10. QED
  BY <1>1, <1>2, <1>3, <1>4, <1>5, <1>6, <1>7, <1>8, <1>9 DEF Ozw

\* A step that neither posts nor delivers, and leaves the nodes alone.
LEMMA QueueKept ==
    ASSUME PresenceInv, OrderInv, StageInv, UNCHANGED <<queue, ozwNodes, validNodes, nodeRows>>
    PROVE  PresenceInv' /\ OrderInv' /\ StageInv'
BY DEF PresenceInv, OrderInv, StageInv, ValidAt, GoneAt, Untouched, LastTouch,
       Touches, Adds, Removes

LEMMA InvSlot ==
    ASSUME IInv, Slot
    PROVE  /\ PresenceInv' /\ OrderInv' /\ StageInv'
           /\ FillInv' /\ RowsHaveKeys' /\ RowsNameValidNodes'
<1> USE ConstantsAssumption
<1>0. TypeOK /\ PresenceInv /\ OrderInv /\ StageInv /\ FillInv
        /\ RowsHaveKeys /\ RowsNameValidNodes
  BY DEF IInv
<1>1. CASE pvt_driverReady
  <2>1. Deliver("driverReady")
        /\ UNCHANGED <<ozwVars, validNodes, nodeRows, validValues, rowNode, filling>>
    BY <1>1 DEF pvt_driverReady, nodeVars, valueVars
  <2>2. QED
    BY <1>0, <2>1, NodesKept, RowsKept DEF NodeTypes, DownTypes, nodeVars
<1>2. CASE pvt_driverDown
  <2>1. PICK t \in DownTypes : Deliver(t)
    BY <1>2 DEF pvt_driverDown
  <2>2. queue[1].type = t
    BY <1>0, <2>1, DeliverShifts DEF TypeOK
  <2>3. /\ ozwNodes' = ozwNodes /\ validNodes' = {} /\ nodeRows' = [n \in Nodes |-> None]
        /\ rowNode' = [v \in Values |-> None] /\ filling' = None
    BY <1>2 DEF pvt_driverDown, ozwVars, Deliver
  <2>4. \A n \in Nodes : Removes(queue[1], n) /\ ~Adds(queue[1], n)
    BY <2>2 DEF Removes, Adds, DownTypes
  <2>5. PresenceInv' /\ OrderInv'
    BY <1>0, <2>1, <2>3, <2>4, DeliverKeeps
  <2>6. StageInv'
    BY <1>0, <2>1, <2>3, <2>4, <2>5, DeliverStage DEF Touches
  <2>7. QED
    BY <2>3, <2>5, <2>6 DEF FillInv, RowsHaveKeys, RowsNameValidNodes
<1>3. CASE pvt_nodeAdded
  <2>1. PICK n \in Nodes : n = queue[1].id /\ n = Head(queue).id
    BY <1>0, <1>3, DeliverShifts, MessageIds DEF pvt_nodeAdded, TypeOK, NodeTypes
  <2>2. Deliver("nodeAdded") /\ queue[1].type = "nodeAdded" /\ ozwNodes' = ozwNodes
    BY <1>0, <1>3, DeliverShifts DEF pvt_nodeAdded, TypeOK, ozwVars
  <2>3. validNodes' = validNodes \cup {n}
    BY <1>3, <2>1 DEF pvt_nodeAdded
  <2>4. \A k \in Nodes :
          IF k # n THEN nodeRows'[k] = nodeRows[k]
          ELSE nodeRows'[n] \in
                 StageReads(n, IF nodeRows[n] = None THEN "unset" ELSE nodeRows[n])
    BY <1>0, <1>3, <2>1 DEF pvt_nodeAdded, TypeOK
  <2>5. \A k \in Nodes : ~Removes(queue[1], k) /\ (Adds(queue[1], k) <=> k = n)
    BY <2>1, <2>2 DEF Removes, Adds, DownTypes
  <2>6. PresenceInv' /\ OrderInv'
    BY <1>0, <2>2, <2>3, <2>5, DeliverKeeps
  <2>7. \A k \in Nodes : nodeRows'[k] = None <=> k \notin validNodes'
    BY <1>0, <2>3, <2>4 DEF StageReads, StageInv
  <2>8. \A k \in Nodes : queue[1] # [type |-> "nodeInfo", id |-> k]
    BY <2>2
  <2>9. ozwNodes[n] # None => nodeRows'[n] = ozwNodes[n]
    BY <2>4 DEF StageReads
  <2>10. StageInv'
    <3>1. \A k \in Nodes : Touches(queue[1], k) <=> k = n
      BY <2>5 DEF Touches
    <3>2. \A k \in Nodes : k # n => nodeRows'[k] = nodeRows[k]
      BY <2>4
    <3>3. QED
      BY <1>0, <2>2, <2>6, <2>7, <2>8, <2>9, <3>1, <3>2, DeliverStage
  <2>11. FillInv' /\ RowsHaveKeys' /\ RowsNameValidNodes'
    BY <1>0, <1>3, <2>3 DEF pvt_nodeAdded, valueVars, FillInv, RowsHaveKeys, RowsNameValidNodes
  <2>12. QED
    BY <2>6, <2>10, <2>11
<1>4. CASE pvt_nodeInfo
  <2>1. PICK n \in Nodes : n = queue[1].id /\ n = Head(queue).id
    BY <1>0, <1>4, DeliverShifts, MessageIds DEF pvt_nodeInfo, TypeOK, NodeTypes
  <2>2. /\ Deliver("nodeInfo") /\ queue[1].type = "nodeInfo"
        /\ ozwNodes' = ozwNodes /\ validNodes' = validNodes
    BY <1>0, <1>4, DeliverShifts DEF pvt_nodeInfo, TypeOK, ozwVars
  <2>3. \A k \in Nodes :
          IF k # n \/ nodeRows[n] = None THEN nodeRows'[k] = nodeRows[k]
          ELSE nodeRows'[n] \in StageReads(n, nodeRows[n])
    BY <1>0, <1>4, <2>1 DEF pvt_nodeInfo, TypeOK
  <2>4. \A k \in Nodes : ~Removes(queue[1], k) /\ ~Adds(queue[1], k)
    BY <2>2 DEF Removes, Adds, DownTypes
  <2>5. PresenceInv' /\ OrderInv'
    BY <1>0, <2>2, <2>4, DeliverKeeps
  <2>6. \A k \in Nodes : nodeRows'[k] = None <=> k \notin validNodes'
    BY <1>0, <2>2, <2>3 DEF StageReads, StageInv
  <2>7. \A k \in Nodes : ~Touches(queue[1], k)
    BY <2>4 DEF Touches
  <2>8. n \in validNodes /\ ozwNodes[n] # None => nodeRows'[n] = ozwNodes[n]
    BY <1>0, <2>3 DEF StageReads, StageInv
  <2>9. \A k \in Nodes : queue[1] = [type |-> "nodeInfo", id |-> k] => k = n
    BY <2>1
  <2>10. queue[1] = [type |-> "nodeInfo", id |-> n]
    BY <1>0, <2>1, <2>2, DeliverShifts DEF TypeOK, Message, NodeTypes, ValueTypes, DownTypes
  <2>11. \A k \in Nodes : k # n => nodeRows'[k] = nodeRows[k]
    BY <2>3
  <2>12. StageInv'
    BY <1>0, <2>2, <2>5, <2>6, <2>7, <2>8, <2>9, <2>10, <2>11, DeliverStage
  <2>13. FillInv' /\ RowsHaveKeys' /\ RowsNameValidNodes'
    BY <1>0, <1>4, RowsKept DEF pvt_nodeInfo, valueVars
  <2>14. QED
    BY <2>5, <2>12, <2>13
<1>5. CASE pvt_nodeRemoved
  <2>1. PICK n \in Nodes : n = queue[1].id /\ n = Head(queue).id
    BY <1>0, <1>5, DeliverShifts, MessageIds DEF pvt_nodeRemoved, TypeOK, NodeTypes
  <2>2. Deliver("nodeRemoved") /\ queue[1].type = "nodeRemoved" /\ ozwNodes' = ozwNodes
    BY <1>0, <1>5, DeliverShifts DEF pvt_nodeRemoved, TypeOK, ozwVars
  <2>3. validNodes' = validNodes \ {n}
    BY <1>5, <2>1 DEF pvt_nodeRemoved
  <2>4. \A k \in Nodes : nodeRows'[k] = IF k = n THEN None ELSE nodeRows[k]
    BY <1>0, <1>5, <2>1 DEF pvt_nodeRemoved, TypeOK
  <2>5. \A k \in Nodes : ~Adds(queue[1], k) /\ (Removes(queue[1], k) <=> k = n)
    BY <2>1, <2>2 DEF Removes, Adds, DownTypes
  <2>6. PresenceInv' /\ OrderInv'
    BY <1>0, <2>2, <2>3, <2>5, DeliverKeeps
  <2>7. \A k \in Nodes : nodeRows'[k] = None <=> k \notin validNodes'
    BY <1>0, <2>3, <2>4 DEF StageInv
  <2>8. \A k \in Nodes : queue[1] # [type |-> "nodeInfo", id |-> k]
    BY <2>2
  <2>9. StageInv'
    BY <1>0, <2>2, <2>3, <2>4, <2>5, <2>6, <2>7, <2>8, DeliverStage DEF Touches
  <2>10. /\ \A v \in Values : rowNode'[v] = IF rowNode[v] = n THEN None ELSE rowNode[v]
         /\ validValues' = validValues \ {v \in Values : rowNode[v] = n}
         /\ filling' = None
    BY <1>5, <2>1 DEF pvt_nodeRemoved, DropValues, Deliver
  <2>11. FillInv' /\ RowsHaveKeys' /\ RowsNameValidNodes'
    BY <1>0, <2>3, <2>10 DEF FillInv, RowsHaveKeys, RowsNameValidNodes
  <2>12. QED
    BY <2>6, <2>9, <2>11
<1>6. CASE pvt_valueAdded
  <2>1. PICK v \in Values : v = queue[1].id /\ v = Head(queue).id
    BY <1>0, <1>6, DeliverShifts, MessageIds DEF pvt_valueAdded, TypeOK, ValueTypes
  <2>2. Deliver("valueAdded") /\ queue[1].type = "valueAdded" /\ Len(queue) \in Nat \ {0}
    BY <1>0, <1>6, DeliverShifts DEF pvt_valueAdded, TypeOK
  <2>3. PresenceInv' /\ OrderInv' /\ StageInv'
    BY <1>6, <2>2, NodesKept DEF pvt_valueAdded, NodeTypes, DownTypes
  <2>4. Owner[v] \in validNodes
    BY <1>0, <2>1, <2>2 DEF OrderInv, ValidAt, Untouched
  <2>5. UNCHANGED validNodes
    BY <1>6 DEF pvt_valueAdded, nodeVars
  <2>6. CASE MayAdd(v)
    <3>1. /\ validValues' = validValues \cup {v} /\ filling' = v
          /\ \A w \in Values : rowNode'[w] =
                IF w = v /\ rowNode[v] = None THEN "unset" ELSE rowNode[w]
      BY <1>0, <1>6, <2>1, <2>6 DEF pvt_valueAdded, TypeOK
    <3>2. FillInv'
      BY <2>4, <2>5, <3>1 DEF FillInv
    <3>3. RowsHaveKeys'
      BY <1>0, <3>1 DEF RowsHaveKeys
    <3>4. RowsNameValidNodes'
      <4>1. SUFFICES ASSUME NEW w \in Values, rowNode'[w] \in Nodes
                     PROVE  rowNode'[w] \in validNodes
        BY <2>5 DEF RowsNameValidNodes
      <4>2. CASE w = v /\ rowNode[v] = None
        BY <3>1, <4>1, <4>2
      <4>3. CASE ~(w = v /\ rowNode[v] = None)
        BY <1>0, <3>1, <4>1, <4>3 DEF RowsNameValidNodes
      <4>4. QED
        BY <4>2, <4>3
    <3>5. QED
      BY <2>3, <3>2, <3>3, <3>4
  <2>7. CASE ~MayAdd(v)
    BY <1>0, <1>6, <2>1, <2>3, <2>5, <2>7, RowsKept DEF pvt_valueAdded
  <2>8. QED
    BY <2>6, <2>7
<1>7. CASE pvt_valueAddedFill
  <2>1. PresenceInv' /\ OrderInv' /\ StageInv'
    BY <1>0, <1>7, QueueKept DEF pvt_valueAddedFill, ozwVars, nodeVars
  <2>2. /\ filling \in Values /\ filling' = None
        /\ UNCHANGED <<validNodes, validValues>>
        /\ \A w \in Values : \/ rowNode'[w] = rowNode[w]
                             \/ w = filling /\ rowNode'[w] = Owner[w]
    BY <1>0, <1>7 DEF pvt_valueAddedFill, TypeOK, nodeVars
  <2>3. FillInv' /\ RowsHaveKeys' /\ RowsNameValidNodes'
    BY <1>0, <2>2 DEF FillInv, RowsHaveKeys, RowsNameValidNodes
  <2>4. QED
    BY <2>1, <2>3
<1>8. CASE pvt_valueChanged
  <2>1. Deliver("valueChanged")
        /\ UNCHANGED <<ozwVars, validNodes, nodeRows, validValues, rowNode, filling>>
    BY <1>8 DEF pvt_valueChanged, nodeVars
  <2>2. QED
    BY <1>0, <2>1, NodesKept, RowsKept DEF NodeTypes, DownTypes, nodeVars
<1>9. CASE pvt_valueRemoved
  <2>1. Deliver("valueRemoved") /\ UNCHANGED <<ozwVars, nodeVars>> /\ filling' = None
    BY <1>9 DEF pvt_valueRemoved, Deliver
  <2>2. PresenceInv' /\ OrderInv' /\ StageInv'
    BY <2>1, NodesKept DEF NodeTypes, DownTypes
  <2>3. PICK v \in Values : v = Head(queue).id
    BY <1>0, <2>1, DeliverShifts, MessageIds DEF TypeOK, ValueTypes
  <2>4. /\ validValues' = validValues \ {v}
        /\ \A w \in Values : rowNode'[w] = IF w = v THEN None ELSE rowNode[w]
    BY <1>9, <2>3 DEF pvt_valueRemoved, DropValues
  <2>5. FillInv' /\ RowsHaveKeys' /\ RowsNameValidNodes'
    BY <1>0, <2>1, <2>4 DEF FillInv, RowsHaveKeys, RowsNameValidNodes, nodeVars
  <2>6. QED
    BY <2>2, <2>5
<1>10. QED
  BY <1>1, <1>2, <1>3, <1>4, <1>5, <1>6, <1>7, <1>8, <1>9 DEF Slot

LEMMA InvClient ==
    ASSUME IInv, Client
    PROVE  /\ PresenceInv' /\ OrderInv' /\ StageInv'
           /\ FillInv' /\ RowsHaveKeys' /\ RowsNameValidNodes'
<1>0. TypeOK /\ LinkInv /\ PresenceInv /\ OrderInv /\ StageInv /\ FillInv
        /\ RowsHaveKeys /\ RowsNameValidNodes
  BY DEF IInv
<1>1. ASSUME NEW ok \in BOOLEAN, open(ok)
      PROVE  UNCHANGED <<queue, ozwNodes, validNodes, nodeRows, validValues, rowNode, filling>>
  BY <1>1 DEF open, nodeVars, valueVars
<1>2. CASE close
  <2>1. CASE serialPort /\ driver # "none"
    <3>1. /\ slots = 1 /\ Notify("driverRemoved", None)
          /\ \A n \in Nodes : ozwNodes'[n] = None
          /\ UNCHANGED <<nodeVars, valueVars, filling>>
      BY <1>0, <1>2, <2>1 DEF close, LinkInv
    <3>2. [type |-> "driverRemoved", id |-> None] \in Message
      BY DEF Message, DownTypes
    <3>3. QED
      BY <3>1, <3>2, ReportKeeps DEF Adds, Removes, DownTypes
  <2>2. CASE ~(serialPort /\ driver # "none")
    <3>1. UNCHANGED <<queue, ozwNodes, validNodes, nodeRows, validValues, rowNode, filling>>
      BY <1>2, <2>2 DEF close, ozwVars, nodeVars, valueVars
    <3>2. QED
      BY <1>0, <3>1, QueueKept, RowsKept
  <2>3. QED
    BY <2>1, <2>2
<1>3. CASE closeFinish
  <2>1. UNCHANGED <<queue, ozwNodes, validNodes, nodeRows, validValues, rowNode, filling>>
    BY <1>3 DEF closeFinish, ozwVars, nodeVars, valueVars
  <2>2. QED
    BY <1>0, <2>1, QueueKept, RowsKept
<1>4. ASSUME NEW v \in Values, NEW d \in Data, setData(v, d)
      PROVE  UNCHANGED <<queue, ozwNodes, validNodes, nodeRows, validValues, rowNode, filling>>
  BY <1>4 DEF setData, ozwVars, nodeVars
<1>5. QED
  BY <1>0, <1>1, <1>2, <1>3, <1>4, QueueKept, RowsKept DEF Client

LEMMA InvInit == Init => IInv
<1> SUFFICES ASSUME Init PROVE IInv
  OBVIOUS
<1>1. TypeOK /\ LinkInv
  BY TypeInit
<1>2. Len(queue) = 0
  BY DEF Init
<1>3. PresenceInv
  BY <1>2 DEF Init, PresenceInv, GoneAt, Untouched
<1>4. StageInv /\ OrderInv /\ FillInv
  BY <1>2 DEF Init, StageInv, OrderInv, FillInv
<1>5. RowsHaveKeys /\ RowsNameValidNodes
  BY ConstantsAssumption DEF Init, RowsHaveKeys, RowsNameValidNodes
<1>6. QED
  BY <1>1, <1>3, <1>4, <1>5 DEF IInv

LEMMA InvStep == IInv /\ [Next]_vars => IInv'
<1> SUFFICES ASSUME IInv, [Next]_vars PROVE IInv'
  OBVIOUS
<1>0. TypeOK' /\ LinkInv'
  BY TypeStep DEF IInv
<1>1. CASE Next
  BY <1>0, <1>1, InvOzw, InvSlot, InvClient DEF Next, IInv
<1>2. CASE UNCHANGED vars
  <2>1. UNCHANGED <<queue, ozwNodes, validNodes, nodeRows, validValues, rowNode, filling>>
    BY <1>2 DEF vars, ozwVars, nodeVars, valueVars
  <2>2. QED
    BY <1>0, <2>1, QueueKept, RowsKept DEF IInv
<1>3. QED
  BY <1>1, <1>2

-----------------------------------------------------------------------------
(* Theorems.                                                               *)

\* The strengthened invariant holds in every reachable state: what the waiting
\* events will do to the mirror always leads to the library's nodes.
THEOREM Inductive == Spec => []IInv
BY InvInit, InvStep, PTL DEF Spec

\* Every variable keeps its type, and no event of an unknown kind is posted.
THEOREM TypeCorrect == Spec => []TypeOK
<1>1. IInv => TypeOK
  BY DEF IInv
<1>2. QED
  BY <1>1, Inductive, PTL

\* Without a waiting event PresenceInv and StageInv are about library and mirror.
LEMMA NodesAgree == IInv => NodesConverge
<1> SUFFICES ASSUME IInv, Quiet PROVE NodesConverge
  BY DEF NodesConverge
<1>1. /\ TypeOK /\ PresenceInv /\ StageInv /\ Len(queue) = 0
  BY DEF IInv, Quiet
<1>2. \A n \in Nodes : n \in validNodes <=> ozwNodes[n] # None
  BY <1>1 DEF PresenceInv, ValidAt, GoneAt, Untouched
<1>3. \A n \in Nodes : nodeRows[n] = ozwNodes[n]
  BY <1>1, <1>2 DEF StageInv
<1>4. validNodes = {n \in Nodes : ozwNodes[n] # None} /\ nodeRows = ozwNodes
  BY <1>1, <1>2, <1>3 DEF TypeOK
<1>5. QED
  BY <1>4 DEF NodesConverge

\* Whatever the order in which the library's thread reports and the main
\* thread handles, an empty queue means m_validNodes, the node model and the
\* library agree on the nodes and on how far their interview is.
THEOREM NodesConvergeAlways == Spec => []NodesConverge
BY NodesAgree, Inductive, PTL

\* A value row always has its key in m_validValues, so delNodeValues never
\* finds a row that pvt_valueRemoved left behind; and a filled one always names
\* a node that checkNodeId accepts.
THEOREM RowsAreListedAlways == Spec => []RowsAreListed
<1>1. IInv => RowsAreListed
  BY DEF IInv, RowsAreListed
<1>2. QED
  BY <1>1, Inductive, PTL

\* The slots are connected at most once and a driver is always watched,
\* however often open() and close() are called and whichever of them fail.
THEOREM WatchedOnceAlways == Spec => []WatchedOnce
<1>1. IInv => WatchedOnce
  BY DEF IInv, LinkInv, WatchedOnce
<1>2. QED
  BY <1>1, Inductive, PTL

-----------------------------------------------------------------------------
(* From here on: homeId() and the value rows, and LaggingCopy.             *)
(*                                                                         *)
(* A step of OZWManager posts one event with the change it is about        *)
(* (Reports), handles the oldest event (Handles), or touches neither queue *)
(* nor nodes.  What is proved of a kind of step is proved of every action. *)

-----------------------------------------------------------------------------
(* What an event does to homeId and to the row of a value.                 *)

Ups(m) == m.type = "driverReady"
Downs(m) == m.type \in DownTypes

Gives(m, v) == m.type = "valueAdded" /\ m.id = v
Tells(m, v) == m.type = "valueChanged" /\ m.id = v
Takes(m, v) ==
    \/ Downs(m)
    \/ m.type = "nodeRemoved" /\ m.id = Owner[v]
    \/ m.type = "valueRemoved" /\ m.id = v

Informs(m, n) == m.type = "nodeInfo" /\ m.id = n

\* homeId after the first i waiting events.
HomeAfter(i) ==
    \E j \in 0..i :
        /\ IF j = 0 THEN homeId ELSE Ups(queue[j])
        /\ \A k \in (j + 1)..i : ~Downs(queue[k])

\* The waiting events lead homeId to the driver's state, a node is reported
\* only while there is a driver, and without homeId the models are empty.
HomeInv ==
    /\ homeId = running
    /\ driver = "ready" <=> HomeAfter(Len(queue))
    /\ \A i \in 1..Len(queue) : queue[i].type = "nodeAdded" => HomeAfter(i - 1)
    /\ ~homeId => validNodes = {} /\ \A v \in Values : rowNode[v] = None

\* An event behind the first i takes value v away.
TakenAfter(v, i) == \E j \in (i + 1)..Len(queue) : Takes(queue[j], v)

\* The row of v is right, or will be once it is filled or refreshed.
Settled(v) ==
    \/ filling = v
    \/ /\ v \in validValues /\ rowNode[v] = Owner[v]
       /\ \/ v \in written \/ rowData[v] = ozwValues[v]
          \/ \E i \in 1..Len(queue) : Tells(queue[i], v)

\* A value of the library is settled, or an event that no later one undoes
\* will give it its row; what is not in the library will be taken away, its row
\* as well as each event that would bring the row back.
ValueInv ==
    \A v \in Values :
      /\ rowNode[v] \in {None, "unset", Owner[v]}
      /\ ozwValues[v] # None =>
           \/ \E i \in 1..Len(queue) : Gives(queue[i], v) /\ ~TakenAfter(v, i)
           \/ ~TakenAfter(v, 0) /\ Settled(v)
      /\ ozwValues[v] = None =>
           /\ filling = v \/ rowNode[v] = Owner[v] => TakenAfter(v, 0)
           /\ \A i \in 1..Len(queue) : Gives(queue[i], v) => TakenAfter(v, i)

\* Each node of the library is valid after the waiting events, and no other.
CopyInv == \A n \in Nodes : ozwNodes[n] # None <=> ValidAfter(n, Len(queue))

MirrorInv == IInv /\ HomeInv /\ ValueInv /\ CopyInv

-----------------------------------------------------------------------------
(* The kinds of steps.                                                     *)

\* The library changes and m, posted in the same step, says how.
Reports(m) ==
    /\ Len(queue') = Len(queue) + 1
    /\ \A i \in 1..Len(queue) : queue'[i] = queue[i]
    /\ queue'[Len(queue) + 1] = m
    /\ UNCHANGED <<homeId, nodeVars, valueVars, filling, running>>
    /\ driver' = "ready" <=> Ups(m) \/ (driver = "ready" /\ ~Downs(m))
    /\ m.type = "nodeAdded" => driver = "ready"
    /\ \A n \in Nodes :
         /\ ozwNodes'[n] # None <=> Adds(m, n) \/ (~Removes(m, n) /\ ozwNodes[n] # None)
         /\ Informs(m, n) => ozwNodes[n] # None
         /\ ozwNodes'[n] = "complete" => ozwNodes[n] = "complete" \/ Informs(m, n)
    /\ \A v \in Values :
         /\ Takes(m, v) => ozwValues'[v] = None
         /\ Gives(m, v) => ozwValues'[v] # None
         /\ ~Takes(m, v) /\ ~Gives(m, v) =>
              \/ ozwValues'[v] = ozwValues[v]
              \/ Tells(m, v) /\ ozwValues[v] # None /\ ozwValues'[v] # None

\* The oldest event m is handled: what it makes of the mirror.
Handles(m) ==
    /\ Len(queue) \in Nat \ {0} /\ m = queue[1] /\ filling = None
    /\ Len(queue') = Len(queue) - 1
    /\ \A i \in 1..(Len(queue) - 1) : queue'[i] = queue[i + 1]
    /\ UNCHANGED ozwVars
    /\ homeId' <=> Ups(m) \/ (homeId /\ ~Downs(m))
    /\ homeId = running => homeId' = running'
    /\ validNodes' \subseteq Nodes
    /\ \A n \in Nodes :
         n \in validNodes' <=> Adds(m, n) \/ (~Removes(m, n) /\ n \in validNodes)
    /\ \A v \in Values :
         /\ filling' = v <=> Gives(m, v) /\ MayAdd(v)
         /\ rowNode'[v] = rowNode[v] \/ rowNode'[v] = None
              \/ (rowNode'[v] = "unset" /\ Gives(m, v))
         /\ Downs(m) => rowNode'[v] = None
         /\ Takes(m, v) => rowNode'[v] # Owner[v]
         /\ ~Takes(m, v) /\ v \in validValues /\ rowNode[v] = Owner[v] =>
              /\ v \in validValues' /\ rowNode'[v] = rowNode[v]
              /\ \/ rowData'[v] = rowData[v] /\ (v \in written => v \in written')
                 \/ rowData'[v] = ozwValues[v]
              /\ Tells(m, v) /\ ozwValues[v] # None => rowData'[v] = ozwValues[v]

\* What the library does is reported.
LEMMA OzwReports ==
    ASSUME TypeOK, LinkInv, Ozw
    PROVE  \E m \in Message : Reports(m)
<1> USE ConstantsAssumption DEF Message, NodeTypes, ValueTypes, DownTypes
<1>0. queue \in Seq(Message) /\ Len(queue) \in Nat
  BY DEF TypeOK
<1>1. ASSUME NEW t, NEW x, [type |-> t, id |-> x] \in Message, slots = 1, Notify(t, x)
      PROVE  /\ Len(queue') = Len(queue) + 1
             /\ \A i \in 1..Len(queue) : queue'[i] = queue[i]
             /\ queue'[Len(queue) + 1] = [type |-> t, id |-> x]
  BY <1>0, <1>1, NotifyAppends
<1> USE DEF Adds, Removes, Informs, Ups, Downs, Gives, Takes, Tells
<1>2. CASE OzwDriverReady
  <2> DEFINE m == [type |-> "driverReady", id |-> None]
  <2>1. slots = 1 /\ \A n \in Nodes : ozwNodes[n] = None
    BY <1>2 DEF OzwDriverReady, LinkInv
  <2>2. Reports(m) /\ m \in Message
    BY <1>1, <1>2, <2>1 DEF OzwDriverReady, Reports
  <2>3. QED
    BY <2>2
<1>3. CASE OzwDriverFailed
  <2> DEFINE m == [type |-> "driverFailed", id |-> None]
  <2>1. slots = 1 /\ (\A n \in Nodes : ozwNodes[n] = None) /\ \A v \in Values : ozwValues[v] = None
    BY <1>3, OzwOnlyWhenReady DEF OzwDriverFailed, LinkInv
  <2>2. Reports(m) /\ m \in Message
    BY <1>1, <1>3, <2>1 DEF OzwDriverFailed, Reports
  <2>3. QED
    BY <2>2
<1>4. CASE OzwDriverReset
  <2> DEFINE m == [type |-> "driverReset", id |-> None]
  <2>1. slots = 1
    BY <1>4 DEF OzwDriverReset, LinkInv
  <2>2. Reports(m) /\ m \in Message
    BY <1>1, <1>4, <2>1 DEF OzwDriverReset, Reports
  <2>3. QED
    BY <2>2
<1>5. ASSUME NEW n \in Nodes, OzwNodeAdded(n)
      PROVE  \E m \in Message : Reports(m)
  <2> DEFINE m == [type |-> "nodeAdded", id |-> n]
  <2>1. slots = 1
    BY <1>5 DEF OzwNodeAdded, LinkInv
  <2>2. \A k \in Nodes : ozwNodes'[k] = IF k = n THEN "added" ELSE ozwNodes[k]
    BY <1>5 DEF OzwNodeAdded, TypeOK
  <2>3. Reports(m) /\ m \in Message
    BY <1>1, <1>5, <2>1, <2>2 DEF OzwNodeAdded, Reports
  <2>4. QED
    BY <2>3
<1>6. ASSUME NEW n \in Nodes, OzwNodeQueriesComplete(n)
      PROVE  \E m \in Message : Reports(m)
  <2> DEFINE m == [type |-> "nodeInfo", id |-> n]
  <2>1. slots = 1 /\ ozwNodes[n] # None
    BY <1>6, OzwOnlyWhenReady DEF OzwNodeQueriesComplete
  <2>2. \A k \in Nodes : ozwNodes'[k] = IF k = n THEN "complete" ELSE ozwNodes[k]
    BY <1>6 DEF OzwNodeQueriesComplete, TypeOK
  <2>3. Reports(m) /\ m \in Message
    BY <1>1, <1>6, <2>1, <2>2 DEF OzwNodeQueriesComplete, Reports
  <2>4. QED
    BY <2>3
<1>7. ASSUME NEW n \in Nodes, OzwNodeRemoved(n)
      PROVE  \E m \in Message : Reports(m)
  <2> DEFINE m == [type |-> "nodeRemoved", id |-> n]
  <2>1. slots = 1
    BY <1>7, OzwOnlyWhenReady DEF OzwNodeRemoved
  <2>2. \A k \in Nodes : ozwNodes'[k] = IF k = n THEN None ELSE ozwNodes[k]
    BY <1>7 DEF OzwNodeRemoved, TypeOK
  <2>3. Reports(m) /\ m \in Message
    BY <1>1, <1>7, <2>1, <2>2 DEF OzwNodeRemoved, Reports
  <2>4. QED
    BY <2>3
<1>8. ASSUME NEW v \in Values, NEW d \in Data, OzwValueAdded(v, d)
      PROVE  \E m \in Message : Reports(m)
  <2> DEFINE m == [type |-> "valueAdded", id |-> v]
  <2>1. slots = 1
    BY <1>8, OzwOnlyWhenReady DEF OzwValueAdded
  <2>2. \A w \in Values : ozwValues'[w] = IF w = v THEN d ELSE ozwValues[w]
    BY <1>8 DEF OzwValueAdded, TypeOK
  <2>3. Reports(m) /\ m \in Message
    BY <1>1, <1>8, <2>1, <2>2 DEF OzwValueAdded, Reports
  <2>4. QED
    BY <2>3
<1>9. ASSUME NEW v \in Values, NEW d \in Data, OzwValueChanged(v, d)
      PROVE  \E m \in Message : Reports(m)
  <2> DEFINE m == [type |-> "valueChanged", id |-> v]
  <2>1. slots = 1 /\ ozwValues[v] # None
    BY <1>9, OzwOnlyWhenReady DEF OzwValueChanged
  <2>2. \A w \in Values : ozwValues'[w] = IF w = v THEN d ELSE ozwValues[w]
    BY <1>9 DEF OzwValueChanged, TypeOK
  <2>3. Reports(m) /\ m \in Message
    BY <1>1, <1>9, <2>1, <2>2 DEF OzwValueChanged, Reports
  <2>4. QED
    BY <2>3
<1>10. ASSUME NEW v \in Values, OzwValueRemoved(v)
       PROVE  \E m \in Message : Reports(m)
  <2> DEFINE m == [type |-> "valueRemoved", id |-> v]
  <2>1. slots = 1
    BY <1>10, OzwOnlyWhenReady DEF OzwValueRemoved
  <2>2. \A w \in Values : ozwValues'[w] = IF w = v THEN None ELSE ozwValues[w]
    BY <1>10 DEF OzwValueRemoved, TypeOK
  <2>3. Reports(m) /\ m \in Message
    BY <1>1, <1>10, <2>1, <2>2 DEF OzwValueRemoved, Reports
  <2>4. QED
    BY <2>3
<1>11. QED
  BY <1>2, <1>3, <1>4, <1>5, <1>6, <1>7, <1>8, <1>9, <1>10 DEF Ozw

\* So is the end of a driver that close() removes.
LEMMA CloseReports ==
    ASSUME TypeOK, LinkInv, close
    PROVE  \/ \E m \in Message : Reports(m)
           \/ UNCHANGED <<ozwVars, queue, homeId, nodeVars, valueVars, filling, running>>
<1> USE DEF Message, NodeTypes, ValueTypes, DownTypes
<1>1. CASE serialPort /\ driver # "none"
  <2> DEFINE m == [type |-> "driverRemoved", id |-> None]
  <2>1. slots = 1 /\ Notify("driverRemoved", None) /\ m \in Message
    BY <1>1 DEF close, LinkInv
  <2>2. /\ Len(queue') = Len(queue) + 1
        /\ \A i \in 1..Len(queue) : queue'[i] = queue[i]
        /\ queue'[Len(queue) + 1] = m
    BY <2>1, NotifyAppends DEF TypeOK
  <2>3. Reports(m)
    BY <1>1, <2>2, ConstantsAssumption DEF close, Reports, Adds, Removes, Informs, Ups, Downs, Gives, Takes, Tells
  <2>4. QED
    BY <2>1, <2>3
<1>2. CASE ~(serialPort /\ driver # "none")
  BY <1>2 DEF close
<1>3. QED
  BY <1>1, <1>2

\* Every slot but the end of pvt_valueAdded handles the oldest event.
LEMMA SlotHandles ==
    ASSUME TypeOK, \A v \in Values : rowNode[v] \in {None, "unset", Owner[v]},
           Slot, ~pvt_valueAddedFill
    PROVE  Handles(queue[1])
<1> DEFINE m == queue[1]
<1> USE ConstantsAssumption
<1>0. queue \in Seq(Message)
  BY DEF TypeOK
<1>1. ASSUME NEW t, Deliver(t)
      PROVE  /\ Len(queue) \in Nat \ {0} /\ filling = None
             /\ Len(queue') = Len(queue) - 1
             /\ \A i \in 1..(Len(queue) - 1) : queue'[i] = queue[i + 1]
             /\ m \in Message /\ m = Head(queue) /\ m.type = t
  BY <1>0, <1>1, DeliverShifts DEF Deliver
<1> HIDE DEF m
<1>2. ASSUME NEW vs, DropValues(vs)
      PROVE  \A v \in Values :
               /\ v \in vs => rowNode'[v] = None
               /\ v \notin vs => /\ rowNode'[v] = rowNode[v] /\ rowData'[v] = rowData[v]
                                 /\ v \in validValues => v \in validValues'
                                 /\ v \in written => v \in written'
  BY <1>2 DEF DropValues
<1> USE DEF Adds, Removes, Ups, Downs, Gives, Takes, Tells, NodeTypes, ValueTypes, DownTypes,
            ozwVars, linkVars, nodeVars, valueVars, Stages
<1>3. CASE pvt_driverReady
  <2>1. Deliver("driverReady")
    BY <1>3 DEF pvt_driverReady
  <2>2. QED
    BY <1>1, <1>3, <2>1 DEF pvt_driverReady, Handles, m, TypeOK
<1>4. CASE pvt_driverDown
  <2>1. PICK t \in DownTypes : Deliver(t)
    BY <1>4 DEF pvt_driverDown
  <2>2. m.type \in DownTypes
    BY <1>1, <2>1
  <2>3. \A v \in Values : rowNode'[v] = None /\ Owner[v] # None /\ v # None
    BY <1>4 DEF pvt_driverDown
  <2>4. \A v \in Values : Takes(m, v) /\ ~Gives(m, v)
    BY <2>2
  <2>5. validNodes' = {} /\ homeId' = FALSE /\ running' = FALSE /\ UNCHANGED <<ozwVars, filling>>
    BY <1>4 DEF pvt_driverDown
  <2>6. \A n \in Nodes : Removes(m, n) /\ ~Adds(m, n)
    BY <2>2
  <2>7. ~Ups(m) /\ Downs(m)
    BY <2>2
  <2>8. QED
    BY <1>1, <2>1, <2>3, <2>4, <2>5, <2>6, <2>7 DEF Handles, m
<1>5. CASE pvt_nodeAdded
  <2>1. Deliver("nodeAdded")
    BY <1>5 DEF pvt_nodeAdded
  <2>2. m.id \in Nodes /\ m.type = "nodeAdded" /\ m = Head(queue)
    BY <1>1, <2>1, MessageIds
  <2>3. validNodes' = validNodes \cup {m.id}
    BY <1>5, <2>2 DEF pvt_nodeAdded
  <2>4. QED
    BY <1>1, <1>5, <2>1, <2>2, <2>3 DEF pvt_nodeAdded, Handles, m, TypeOK
<1>6. CASE pvt_nodeInfo
  <2>1. Deliver("nodeInfo")
    BY <1>6 DEF pvt_nodeInfo
  <2>2. QED
    BY <1>1, <1>6, <2>1 DEF pvt_nodeInfo, Handles, m, TypeOK
<1>7. CASE pvt_nodeRemoved
  <2>1. Deliver("nodeRemoved")
    BY <1>7 DEF pvt_nodeRemoved
  <2>2. m.id \in Nodes /\ m.type = "nodeRemoved" /\ m = Head(queue)
    BY <1>1, <2>1, MessageIds
  <2>3. /\ validNodes' = validNodes \ {m.id}
        /\ DropValues({v \in Values : rowNode[v] = m.id})
        /\ UNCHANGED <<ozwVars, homeId, running, filling>>
    BY <1>7, <2>2 DEF pvt_nodeRemoved
  <2>4. \A v \in Values : Owner[v] \in Nodes
    OBVIOUS
  <2>5. ASSUME NEW v \in Values
        PROVE /\ rowNode'[v] = rowNode[v] \/ rowNode'[v] = None
              /\ Takes(m, v) => rowNode'[v] # Owner[v]
              /\ ~Takes(m, v) /\ v \in validValues /\ rowNode[v] = Owner[v] =>
                   /\ v \in validValues' /\ rowNode'[v] = rowNode[v] /\ rowData'[v] = rowData[v]
                   /\ v \in written => v \in written'
    BY <1>2, <2>2, <2>3, <2>4
  <2>6. QED
    BY <1>1, <2>1, <2>2, <2>3, <2>5 DEF Handles, m, TypeOK
<1>8. CASE pvt_valueAdded
  <2>1. Deliver("valueAdded")
    BY <1>8 DEF pvt_valueAdded
  <2>2. PICK w \in Values : w = m.id /\ m.type = "valueAdded" /\ w = Head(queue).id
    BY <1>1, <2>1, MessageIds
  <2>3. \A v \in Values : Gives(m, v) <=> v = w
    BY <2>2
  <2>4. ASSUME NEW v \in Values
        PROVE /\ filling' = v <=> Gives(m, v) /\ MayAdd(v)
              /\ rowNode'[v] = rowNode[v] \/ (rowNode'[v] = "unset" /\ Gives(m, v))
              /\ rowNode[v] # None => rowNode'[v] = rowNode[v]
              /\ v \in validValues => v \in validValues'
    BY <1>1, <1>8, <2>1, <2>2, <2>3 DEF pvt_valueAdded, TypeOK
  <2>5. UNCHANGED <<ozwVars, homeId, running, validNodes, rowData, written>>
    BY <1>8 DEF pvt_valueAdded
  <2>6. QED
    BY <1>1, <2>1, <2>2, <2>4, <2>5 DEF Handles, m, TypeOK
<1>9. CASE pvt_valueChanged
  <2>1. Deliver("valueChanged")
    BY <1>9 DEF pvt_valueChanged
  <2>2. PICK w \in Values : w = m.id /\ m.type = "valueChanged" /\ w = Head(queue).id
    BY <1>1, <2>1, MessageIds
  <2>3. ASSUME NEW v \in Values
        PROVE  /\ \/ rowData'[v] = rowData[v] /\ (v \in written => v \in written')
                  \/ rowData'[v] = ozwValues[v]
               /\ Tells(m, v) /\ v \in validValues /\ rowNode[v] = Owner[v] /\ ozwValues[v] # None
                    => rowData'[v] = ozwValues[v]
    BY <1>9, <2>2 DEF pvt_valueChanged, TypeOK, Converts
  <2>4. UNCHANGED <<ozwVars, homeId, running, validNodes, validValues, rowNode, filling>>
    BY <1>9 DEF pvt_valueChanged
  <2>5. QED
    BY <1>1, <2>1, <2>2, <2>3, <2>4 DEF Handles, m, TypeOK
<1>10. CASE pvt_valueRemoved
  <2>1. Deliver("valueRemoved")
    BY <1>10 DEF pvt_valueRemoved
  <2>2. m.id \in Values /\ m.type = "valueRemoved" /\ m = Head(queue)
    BY <1>1, <2>1, MessageIds
  <2>3. DropValues({m.id}) /\ UNCHANGED <<ozwVars, homeId, running, validNodes, filling>>
    BY <1>10, <2>2 DEF pvt_valueRemoved
  <2>4. ASSUME NEW v \in Values
        PROVE /\ rowNode'[v] = rowNode[v] \/ rowNode'[v] = None
              /\ Takes(m, v) => rowNode'[v] # Owner[v]
              /\ ~Takes(m, v) =>
                   /\ v \in validValues => v \in validValues'
                   /\ rowNode'[v] = rowNode[v] /\ rowData'[v] = rowData[v]
                   /\ v \in written => v \in written'
    BY <1>2, <2>2, <2>3
  <2>5. QED
    BY <1>1, <2>1, <2>2, <2>3, <2>4 DEF Handles, m, TypeOK
<1>11. QED
  BY <1>3, <1>4, <1>5, <1>6, <1>7, <1>8, <1>9, <1>10 DEF Slot, m

\* The steps that touch neither the queue nor the nodes.
Rests ==
    /\ UNCHANGED <<queue, ozwNodes, ozwValues, validNodes, validValues, homeId, running>>
    /\ driver' = "ready" <=> driver = "ready"

LEMMA OthersRest ==
    ASSUME TypeOK, LinkInv, pvt_valueAddedFill \/ closeFinish \/ (\E ok \in BOOLEAN : open(ok))
                     \/ (\E v \in Values, d \in Data : setData(v, d)) \/ UNCHANGED vars
    PROVE  Rests
<1> USE DEF vars, ozwVars, linkVars, nodeVars, valueVars
<1>1. CASE pvt_valueAddedFill
  BY <1>1 DEF pvt_valueAddedFill, Rests
<1>2. CASE closeFinish
  BY <1>2 DEF closeFinish, Rests
<1>3. ASSUME NEW ok \in BOOLEAN, open(ok)
      PROVE  Rests
  <2>1. CASE slots = 1
    BY <1>3, <2>1 DEF open, Rests
  <2>2. CASE slots = 0
    <3>1. driver = "none"
      BY <2>2 DEF LinkInv
    <3>2. driver' = "init" \/ driver' = driver
      BY <1>3, <2>2 DEF open
    <3>3. QED
      BY <1>3, <3>1, <3>2 DEF open, Rests
  <2>3. QED
    BY <2>1, <2>2 DEF LinkInv
<1>4. ASSUME NEW v \in Values, NEW d \in Data, setData(v, d)
      PROVE  Rests
  BY <1>4 DEF setData, Rests
<1>5. CASE UNCHANGED vars
  BY <1>5 DEF Rests
<1>6. QED
  BY <1>1, <1>2, <1>3, <1>4, <1>5

-----------------------------------------------------------------------------
(* What the waiting events lead to.  After is what ValidAfter and HomeAfter *)
(* have in common: on has the places of the events that set it, and 0 if it *)
(* is set before the first, off the places of those that clear it.          *)

After(on, off, i) ==
    \E j \in 0..i :
        /\ j \in on
        /\ \A k \in (j + 1)..i : k \notin off

\* The last event decides.
LEMMA AfterLast ==
    ASSUME NEW on, NEW off, NEW i \in Nat
    PROVE  After(on, off, i + 1)
             <=> i + 1 \in on \/ (i + 1 \notin off /\ After(on, off, i))
<1>1. ASSUME i + 1 \in on PROVE After(on, off, i + 1)
  <2>1. i + 1 \in 0..(i + 1) /\ i + 1 # 0 /\ (i + 1 + 1)..(i + 1) = {}
    OBVIOUS
  <2>2. QED
    BY <1>1, <2>1 DEF After
<1>2. ASSUME i + 1 \notin off, After(on, off, i) PROVE After(on, off, i + 1)
  BY <1>2 DEF After
<1>3. ASSUME After(on, off, i + 1), i + 1 \notin on
      PROVE  i + 1 \notin off /\ After(on, off, i)
  <2>1. PICK j \in 0..(i + 1) : /\ j \in on
                                /\ \A k \in (j + 1)..(i + 1) : k \notin off
    BY <1>3 DEF After
  <2>2. j \in 0..i
    BY <1>3, <2>1
  <2>3. i + 1 \in (j + 1)..(i + 1) /\ \A k \in (j + 1)..i : k \in (j + 1)..(i + 1)
    BY <2>2
  <2>4. QED
    BY <2>1, <2>2, <2>3 DEF After
<1>4. QED
  BY <1>1, <1>2, <1>3

\* Events behind the first i do not matter to what comes after i events.
LEMMA AfterSame ==
    ASSUME NEW on, NEW off, NEW on2, NEW off2, NEW i \in Nat,
           \A k \in 1..i : (k \in on2 <=> k \in on) /\ (k \in off2 <=> k \in off),
           0 \in on2 <=> 0 \in on
    PROVE  After(on2, off2, i) <=> After(on, off, i)
<1>1. \A j \in 0..i : /\ j # 0 => j \in 1..i
                      /\ \A k \in (j + 1)..i : k \in 1..i
  OBVIOUS
<1>2. \A j \in 0..i : /\ j # 0 => (j \in on2 <=> j \in on)
                      /\ \A k \in (j + 1)..i : k \in off2 <=> k \in off
  BY <1>1
<1>3. QED
  BY <1>2 DEF After

\* Once the first event is handled the others lead to the same.
LEMMA AfterShift ==
    ASSUME NEW on, NEW off, NEW on2, NEW off2, NEW i \in Nat,
           \A k \in 1..i : (k \in on2 <=> k + 1 \in on) /\ (k \in off2 <=> k + 1 \in off),
           0 \in on2 <=> 1 \in on \/ (1 \notin off /\ 0 \in on)
    PROVE  After(on2, off2, i) <=> After(on, off, i + 1)
<1>1. ASSUME After(on2, off2, i) PROVE After(on, off, i + 1)
  <2>1. PICK j \in 0..i : /\ j \in on2
                          /\ \A k \in (j + 1)..i : k \notin off2
    BY <1>1 DEF After
  <2>2. ASSUME NEW k \in (j + 2)..(i + 1) PROVE k \notin off
    <3>1. k - 1 \in 1..i /\ k - 1 \in (j + 1)..i /\ (k - 1) + 1 = k
      OBVIOUS
    <3>2. QED
      BY <2>1, <3>1
  <2>3. CASE j # 0 \/ 1 \in on
    <3>1. j + 1 \in on /\ j + 1 \in 0..(i + 1) /\ j + 1 # 0 /\ j + 1 + 1 = j + 2
      <4>1. j # 0 => j \in 1..i
        OBVIOUS
      <4>2. j # 0 => j + 1 \in on
        BY <2>1, <4>1
      <4>3. QED
        BY <2>3, <4>2
    <3>2. QED
      BY <2>2, <3>1 DEF After
  <2>4. CASE j = 0 /\ 1 \notin on
    <3>1. 0 \in on /\ 1 \notin off
      BY <2>1, <2>4
    <3>2. \A k \in 1..(i + 1) : k = 1 \/ k \in 2..(i + 1)
      OBVIOUS
    <3>3. \A k \in 1..(i + 1) : k \notin off
      BY <2>2, <2>4, <3>1, <3>2
    <3>4. 0 \in 0..(i + 1) /\ 0 + 1 = 1
      OBVIOUS
    <3>5. QED
      BY <3>1, <3>3, <3>4 DEF After
  <2>5. QED
    BY <2>3, <2>4
<1>2. ASSUME After(on, off, i + 1) PROVE After(on2, off2, i)
  <2>1. PICK j \in 0..(i + 1) : /\ j \in on
                                /\ \A k \in (j + 1)..(i + 1) : k \notin off
    BY <1>2 DEF After
  <2>2. CASE j \in {0, 1}
    <3>1. 0 \in on2
      BY <2>1, <2>2
    <3>2. ASSUME NEW k \in 1..i PROVE k \notin off2
      <4>1. k + 1 \in (j + 1)..(i + 1)
        BY <2>2
      <4>2. QED
        BY <2>1, <4>1
    <3>3. 0 \in 0..i /\ 0 + 1 = 1
      OBVIOUS
    <3>4. QED
      BY <3>1, <3>2, <3>3 DEF After
  <2>3. CASE j \notin {0, 1}
    <3>1. j - 1 \in 1..i /\ j - 1 \in 0..i /\ j - 1 # 0 /\ (j - 1) + 1 = j
      BY <2>3
    <3>2. j - 1 \in on2
      BY <2>1, <2>3, <3>1
    <3>3. ASSUME NEW k \in j..i PROVE k \notin off2
      <4>1. k + 1 \in (j + 1)..(i + 1) /\ k \in 1..i
        BY <2>3
      <4>2. QED
        BY <2>1, <4>1
    <3>4. QED
      BY <3>1, <3>2, <3>3 DEF After
  <2>4. QED
    BY <2>2, <2>3
<1>3. QED
  BY <1>1, <1>2

\* A report leaves what the events before it lead to, and decides what comes
\* after it.
LEMMA ReportLeads ==
    ASSUME NEW m, Reports(m), homeId \in BOOLEAN, NEW L \in Nat, L = Len(queue)
    PROVE  /\ \A n \in Nodes :
                /\ \A i \in 0..L : ValidAfter(n, i)' <=> ValidAfter(n, i)
                /\ ValidAfter(n, L + 1)' <=> Adds(m, n) \/ (~Removes(m, n) /\ ValidAfter(n, L))
           /\ \A i \in 0..L : HomeAfter(i)' <=> HomeAfter(i)
           /\ HomeAfter(L + 1)' <=> Ups(m) \/ (~Downs(m) /\ HomeAfter(L))
           /\ \A v \in Values :
                /\ \A i \in 0..L : TakenAfter(v, i)' <=> TakenAfter(v, i) \/ Takes(m, v)
                /\ ~TakenAfter(v, L + 1)'
<1>1. /\ Len(queue') = L + 1 /\ \A k \in 1..L : queue'[k] = queue[k]
      /\ queue'[L + 1] = m /\ validNodes' = validNodes /\ homeId' = homeId
  BY DEF Reports, nodeVars
<1>2. ASSUME NEW n \in Nodes
      PROVE  /\ \A i \in 0..L : ValidAfter(n, i)' <=> ValidAfter(n, i)
             /\ ValidAfter(n, L + 1)' <=> Adds(m, n) \/ (~Removes(m, n) /\ ValidAfter(n, L))
  <2> DEFINE on == {k \in Nat : IF k = 0 THEN n \in validNodes ELSE Adds(queue[k], n)}
             off == {k \in Nat : Removes(queue[k], n)}
             on2 == {k \in Nat : IF k = 0 THEN n \in validNodes' ELSE Adds(queue'[k], n)}
             off2 == {k \in Nat : Removes(queue'[k], n)}
  <2>1. \A i \in Nat : ValidAfter(n, i) <=> After(on, off, i)
    BY DEF ValidAfter, After, Adds, Removes
  <2>2. \A i \in Nat : ValidAfter(n, i)' <=> After(on2, off2, i)
    BY <1>1 DEF ValidAfter, After, Adds, Removes
  <2>3. \A k \in 1..L : (k \in on2 <=> k \in on) /\ (k \in off2 <=> k \in off)
    BY <1>1
  <2>4. (L + 1 \in on2 <=> Adds(m, n)) /\ (L + 1 \in off2 <=> Removes(m, n))
    BY <1>1
  <2>0. 0 \in on2 <=> 0 \in on
    BY <1>1
  <2> HIDE DEF on, off, on2, off2
  <2>5. \A i \in 0..L : After(on2, off2, i) <=> After(on, off, i)
    <3> TAKE i \in 0..L
    <3>1. i \in Nat /\ \A k \in 1..i : k \in 1..L
      OBVIOUS
    <3>2. QED
      BY <2>0, <2>3, <3>1, AfterSame
  <2>7. After(on2, off2, L + 1)
          <=> Adds(m, n) \/ (~Removes(m, n) /\ After(on2, off2, L))
    BY <2>4, AfterLast
  <2>8. L \in 0..L /\ L + 1 \in Nat /\ \A i \in 0..L : i \in Nat
    OBVIOUS
  <2>9. QED
    BY <2>1, <2>2, <2>5, <2>7, <2>8
<1>3. /\ \A i \in 0..L : HomeAfter(i)' <=> HomeAfter(i)
      /\ HomeAfter(L + 1)' <=> Ups(m) \/ (~Downs(m) /\ HomeAfter(L))
  <2> DEFINE on == {k \in Nat : IF k = 0 THEN homeId ELSE Ups(queue[k])}
             off == {k \in Nat : Downs(queue[k])}
             on2 == {k \in Nat : IF k = 0 THEN homeId' ELSE Ups(queue'[k])}
             off2 == {k \in Nat : Downs(queue'[k])}
  <2>1. \A i \in Nat : HomeAfter(i) <=> After(on, off, i)
    <3> TAKE i \in Nat
    <3>1. \A j \in 0..i : j \in on <=> IF j = 0 THEN homeId ELSE Ups(queue[j])
      OBVIOUS
    <3>2. \A j \in 0..i : \A k \in (j + 1)..i : k \notin off <=> ~Downs(queue[k])
      OBVIOUS
    <3> HIDE DEF on, off
    <3>3. QED
      BY <3>1, <3>2 DEF HomeAfter, After
  <2>2. \A i \in Nat : HomeAfter(i)' <=> After(on2, off2, i)
    BY <1>1 DEF HomeAfter, After, Ups, Downs
  <2>3. \A k \in 1..L : (k \in on2 <=> k \in on) /\ (k \in off2 <=> k \in off)
    BY <1>1
  <2>4. (L + 1 \in on2 <=> Ups(m)) /\ (L + 1 \in off2 <=> Downs(m))
    BY <1>1
  <2>0. 0 \in on2 <=> 0 \in on
    BY <1>1
  <2> HIDE DEF on, off, on2, off2
  <2>5. \A i \in 0..L : After(on2, off2, i) <=> After(on, off, i)
    <3> TAKE i \in 0..L
    <3>1. i \in Nat /\ \A k \in 1..i : k \in 1..L
      OBVIOUS
    <3>2. QED
      BY <2>0, <2>3, <3>1, AfterSame
  <2>6. After(on2, off2, L + 1)
          <=> Ups(m) \/ (~Downs(m) /\ After(on2, off2, L))
    BY <2>4, AfterLast
  <2>7. L \in 0..L /\ L + 1 \in Nat /\ \A i \in 0..L : i \in Nat
    OBVIOUS
  <2>8. QED
    BY <2>1, <2>2, <2>5, <2>6, <2>7
<1>4. ASSUME NEW v \in Values
      PROVE  /\ \A i \in 0..L : TakenAfter(v, i)' <=> TakenAfter(v, i) \/ Takes(m, v)
             /\ ~TakenAfter(v, L + 1)'
  BY <1>1 DEF TakenAfter, Takes, Downs
<1>5. QED
  BY <1>2, <1>3, <1>4

\* Handling the oldest event leads where the events led.
LEMMA HandleLeads ==
    ASSUME Handles(queue[1]), homeId \in BOOLEAN, NEW L \in Nat, L + 1 = Len(queue)
    PROVE  /\ \A n \in Nodes : \A i \in 0..L : ValidAfter(n, i)' <=> ValidAfter(n, i + 1)
           /\ \A i \in 0..L : HomeAfter(i)' <=> HomeAfter(i + 1)
           /\ \A v \in Values : \A i \in 0..L : TakenAfter(v, i)' <=> TakenAfter(v, i + 1)
           /\ \A v \in Values : TakenAfter(v, 0) <=> Takes(queue[1], v) \/ TakenAfter(v, 1)
<1>1. /\ Len(queue') = L /\ \A k \in 1..L : queue'[k] = queue[k + 1]
      /\ homeId' <=> Ups(queue[1]) \/ (homeId /\ ~Downs(queue[1]))
      /\ \A n \in Nodes : n \in validNodes' <=>
            Adds(queue[1], n) \/ (~Removes(queue[1], n) /\ n \in validNodes)
  BY DEF Handles
<1>2. ASSUME NEW n \in Nodes
      PROVE  \A i \in 0..L : ValidAfter(n, i)' <=> ValidAfter(n, i + 1)
  <2> DEFINE on == {k \in Nat : IF k = 0 THEN n \in validNodes ELSE Adds(queue[k], n)}
             off == {k \in Nat : Removes(queue[k], n)}
             on2 == {k \in Nat : IF k = 0 THEN n \in validNodes' ELSE Adds(queue'[k], n)}
             off2 == {k \in Nat : Removes(queue'[k], n)}
  <2>1. \A i \in Nat : ValidAfter(n, i) <=> After(on, off, i)
    BY DEF ValidAfter, After, Adds, Removes
  <2>2. \A i \in Nat : ValidAfter(n, i)' <=> After(on2, off2, i)
    BY DEF ValidAfter, After, Adds, Removes
  <2>3. \A k \in 1..L : (k \in on2 <=> k + 1 \in on) /\ (k \in off2 <=> k + 1 \in off)
    BY <1>1
  <2>4. 0 \in on2 <=> 1 \in on \/ (1 \notin off /\ 0 \in on)
    BY <1>1
  <2> HIDE DEF on, off, on2, off2
  <2>6. \A i \in 0..L : After(on2, off2, i) <=> After(on, off, i + 1)
    <3> TAKE i \in 0..L
    <3>1. i \in Nat /\ \A k \in 1..i : k \in 1..L
      OBVIOUS
    <3>2. QED
      BY <2>3, <2>4, <3>1, AfterShift
  <2>7. \A i \in 0..L : i \in Nat /\ i + 1 \in Nat
    OBVIOUS
  <2>8. QED
    BY <2>1, <2>2, <2>6, <2>7
<1>3. \A i \in 0..L : HomeAfter(i)' <=> HomeAfter(i + 1)
  <2> DEFINE on == {k \in Nat : IF k = 0 THEN homeId ELSE Ups(queue[k])}
             off == {k \in Nat : Downs(queue[k])}
             on2 == {k \in Nat : IF k = 0 THEN homeId' ELSE Ups(queue'[k])}
             off2 == {k \in Nat : Downs(queue'[k])}
  <2>1. \A i \in Nat : HomeAfter(i) <=> After(on, off, i)
    <3> TAKE i \in Nat
    <3>1. \A j \in 0..i : j \in on <=> IF j = 0 THEN homeId ELSE Ups(queue[j])
      OBVIOUS
    <3>2. \A j \in 0..i : \A k \in (j + 1)..i : k \notin off <=> ~Downs(queue[k])
      OBVIOUS
    <3> HIDE DEF on, off
    <3>3. QED
      BY <3>1, <3>2 DEF HomeAfter, After
  <2>2. \A i \in Nat : HomeAfter(i)' <=> After(on2, off2, i)
    <3> TAKE i \in Nat
    <3>1. \A j \in 0..i : j \in on2 <=> IF j = 0 THEN homeId' ELSE Ups(queue'[j])
      OBVIOUS
    <3>2. \A j \in 0..i : \A k \in (j + 1)..i : k \notin off2 <=> ~Downs(queue'[k])
      OBVIOUS
    <3> HIDE DEF on2, off2
    <3>3. QED
      BY <3>1, <3>2 DEF HomeAfter, After, Ups, Downs
  <2>3. \A k \in 1..L : (k \in on2 <=> k + 1 \in on) /\ (k \in off2 <=> k + 1 \in off)
    BY <1>1
  <2>4. 0 \in on2 <=> 1 \in on \/ (1 \notin off /\ 0 \in on)
    BY <1>1
  <2> HIDE DEF on, off, on2, off2
  <2>6. \A i \in 0..L : After(on2, off2, i) <=> After(on, off, i + 1)
    <3> TAKE i \in 0..L
    <3>1. i \in Nat /\ \A k \in 1..i : k \in 1..L
      OBVIOUS
    <3>2. QED
      BY <2>3, <2>4, <3>1, AfterShift
  <2>7. \A i \in 0..L : i \in Nat /\ i + 1 \in Nat
    OBVIOUS
  <2>8. QED
    BY <2>1, <2>2, <2>6, <2>7
<1>4. ASSUME NEW v \in Values
      PROVE  /\ \A i \in 0..L : TakenAfter(v, i)' <=> TakenAfter(v, i + 1)
             /\ TakenAfter(v, 0) <=> Takes(queue[1], v) \/ TakenAfter(v, 1)
  <2>1. ASSUME NEW i \in 0..L, TakenAfter(v, i)' PROVE TakenAfter(v, i + 1)
    <3>1. PICK j \in (i + 1)..L : Takes(queue'[j], v)
      BY <1>1, <2>1 DEF TakenAfter, Takes, Downs
    <3>2. j + 1 \in (i + 1 + 1)..(L + 1) /\ j \in 1..L
      OBVIOUS
    <3>3. QED
      BY <1>1, <3>1, <3>2 DEF TakenAfter
  <2>2. ASSUME NEW i \in 0..L, TakenAfter(v, i + 1) PROVE TakenAfter(v, i)'
    <3>1. PICK j \in (i + 1 + 1)..(L + 1) : Takes(queue[j], v)
      BY <2>2 DEF TakenAfter
    <3>2. j - 1 \in (i + 1)..L /\ j - 1 \in 1..L /\ (j - 1) + 1 = j
      OBVIOUS
    <3>3. QED
      BY <1>1, <3>1, <3>2 DEF TakenAfter, Takes, Downs
  <2>3. TakenAfter(v, 0) <=> Takes(queue[1], v) \/ TakenAfter(v, 1)
    <3>1. 0 + 1 = 1 /\ 1 \in 1..(L + 1) /\ \A j \in 1..(L + 1) : j = 1 \/ j \in (1 + 1)..(L + 1)
      OBVIOUS
    <3>2. \A j \in (1 + 1)..(L + 1) : j \in 1..(L + 1)
      OBVIOUS
    <3>3. QED
      BY <3>1, <3>2 DEF TakenAfter
  <2>4. QED
    BY <2>1, <2>2, <2>3
<1>5. QED
  BY <1>2, <1>3, <1>4

-----------------------------------------------------------------------------
(* homeId.                                                                 *)

LEMMA HomeReport ==
    ASSUME TypeOK, HomeInv, NEW m, Reports(m)
    PROVE  HomeInv'
<1>1. PICK L \in Nat : L = Len(queue)
  BY DEF TypeOK
<1>2. homeId \in BOOLEAN /\ running \in BOOLEAN
  BY DEF TypeOK
<1>3. /\ \A i \in 0..L : HomeAfter(i)' <=> HomeAfter(i)
      /\ HomeAfter(L + 1)' <=> Ups(m) \/ (~Downs(m) /\ HomeAfter(L))
  BY <1>1, <1>2, ReportLeads
<1>4. /\ Len(queue') = L + 1 /\ \A i \in 1..L : queue'[i] = queue[i]
      /\ queue'[L + 1] = m
      /\ UNCHANGED <<homeId, running, validNodes, rowNode>>
      /\ driver' = "ready" <=> Ups(m) \/ (driver = "ready" /\ ~Downs(m))
      /\ m.type = "nodeAdded" => driver = "ready"
  BY <1>1 DEF Reports, nodeVars, valueVars
<1>5. driver' = "ready" <=> HomeAfter(Len(queue))'
  BY <1>1, <1>3, <1>4 DEF HomeInv
<1>6. ASSUME NEW i \in 1..(L + 1), queue'[i].type = "nodeAdded" PROVE HomeAfter(i - 1)'
  <2>1. CASE i \in 1..L
    <3>1. HomeAfter(i - 1) /\ i - 1 \in 0..L
      BY <1>1, <1>4, <1>6, <2>1 DEF HomeInv
    <3>2. QED
      BY <1>3, <3>1
  <2>2. CASE i = L + 1
    <3>1. HomeAfter(L) /\ i - 1 = L /\ L \in 0..L
      BY <1>1, <1>4, <1>6, <2>2 DEF HomeInv
    <3>2. QED
      BY <1>3, <3>1
  <2>3. QED
    BY <2>1, <2>2
<1>7. homeId' = running' /\ (~homeId' => validNodes' = {} /\ \A v \in Values : rowNode'[v] = None)
  BY <1>4 DEF HomeInv
<1>8. QED
  BY <1>4, <1>5, <1>6, <1>7 DEF HomeInv

LEMMA HomeHandle ==
    ASSUME IInv, HomeInv, Handles(queue[1])
    PROVE  HomeInv'
<1> DEFINE m == queue[1]
<1>1. PICK L \in Nat : L + 1 = Len(queue)
  <2>1. Len(queue) - 1 \in Nat /\ (Len(queue) - 1) + 1 = Len(queue)
    BY DEF Handles
  <2>2. QED
    BY <2>1
<1>2. TypeOK /\ OrderInv /\ homeId \in BOOLEAN /\ running \in BOOLEAN
  BY DEF IInv, TypeOK
<1>3. \A i \in 0..L : HomeAfter(i)' <=> HomeAfter(i + 1)
  BY <1>1, <1>2, HandleLeads
<1>4. /\ Len(queue') = L /\ \A i \in 1..L : queue'[i] = queue[i + 1]
      /\ driver' = driver
      /\ homeId' <=> Ups(m) \/ (homeId /\ ~Downs(m))
  BY <1>1 DEF Handles, ozwVars
<1>5. driver' = "ready" <=> HomeAfter(Len(queue))'
  BY <1>1, <1>3, <1>4 DEF HomeInv
<1>6. ASSUME NEW i \in 1..L, queue'[i].type = "nodeAdded" PROVE HomeAfter(i - 1)'
  <2>1. HomeAfter(i) /\ i - 1 \in 0..L /\ (i - 1) + 1 = i
    <3>1. i + 1 \in 1..(L + 1) /\ (i + 1) - 1 = i /\ queue[i + 1].type = "nodeAdded"
      BY <1>4, <1>6
    <3>2. QED
      BY <1>1, <3>1 DEF HomeInv
  <2>2. QED
    BY <1>3, <2>1
<1>7. ASSUME ~homeId' PROVE validNodes' = {} /\ \A v \in Values : rowNode'[v] = None
  <2>1. CASE Downs(m)
    BY <2>1 DEF Handles, Adds, Removes, Downs, DownTypes
  <2>2. CASE ~Downs(m)
    <3>1. ~homeId /\ validNodes = {} /\ \A v \in Values : rowNode[v] = None
      BY <1>4, <1>7, <2>2 DEF HomeInv
    <3>2. 1 \in 1..Len(queue)
      BY <1>1
    <3>3. m.type # "nodeAdded"
      <4>1. m.type = "nodeAdded" => HomeAfter(1 - 1)
        BY <3>2 DEF HomeInv
      <4>2. HomeAfter(0) <=> homeId
        BY DEF HomeAfter
      <4>3. QED
        BY <3>1, <4>1, <4>2
    <3>4. validNodes' = {}
      BY <3>1, <3>3 DEF Handles, Adds
    <3>5. ASSUME NEW v \in Values PROVE ~Gives(m, v)
      <4>1. Gives(m, v) => ValidAt(Owner[v], 1)
        BY <1>2, <3>2 DEF OrderInv, Gives
      <4>2. ValidAt(Owner[v], 1) => Owner[v] \in validNodes
        BY DEF ValidAt, Untouched
      <4>3. QED
        BY <3>1, <4>1, <4>2
    <3>6. QED
      BY <3>1, <3>4, <3>5 DEF Handles
  <2>3. QED
    BY <2>1, <2>2
<1>8. homeId' = running'
  BY DEF Handles, HomeInv
<1>9. QED
  BY <1>4, <1>5, <1>6, <1>7, <1>8 DEF HomeInv

LEMMA HomeRest ==
    ASSUME IInv, HomeInv, Rests, rowNode' = rowNode \/ filling # None
    PROVE  HomeInv'
<1>1. filling # None => Owner[filling] \in validNodes
  BY DEF IInv, FillInv
<1>2. \A i \in 0..Len(queue) : HomeAfter(i)' <=> HomeAfter(i)
  BY DEF Rests, HomeAfter, Ups, Downs
<1>3. Len(queue) \in Nat
  BY DEF IInv, TypeOK
<1>4. \A i \in 1..Len(queue) : i - 1 \in 0..Len(queue)
  BY <1>3
<1>5. UNCHANGED <<queue, homeId, running, validNodes>> /\ (driver' = "ready" <=> driver = "ready")
  BY DEF Rests
<1>6. ~homeId => rowNode' = rowNode
  BY <1>1 DEF HomeInv
<1>7. Len(queue) \in 0..Len(queue)
  BY <1>3
<1>8. QED
  BY <1>2, <1>4, <1>5, <1>6, <1>7 DEF HomeInv

-----------------------------------------------------------------------------
(* The rows of the values.                                                 *)

LEMMA ValueReport ==
    ASSUME TypeOK, ValueInv, NEW m, Reports(m)
    PROVE  ValueInv'
<1>1. PICK L \in Nat : L = Len(queue)
  BY DEF TypeOK
<1>2. /\ Len(queue') = L + 1 /\ \A i \in 1..L : queue'[i] = queue[i]
      /\ queue'[L + 1] = m
      /\ UNCHANGED <<validValues, rowNode, rowData, written, filling>>
  BY <1>1 DEF Reports, valueVars
<1> SUFFICES ASSUME NEW v \in Values
             PROVE  /\ rowNode'[v] \in {None, "unset", Owner[v]}
                    /\ ozwValues'[v] # None =>
                         \/ \E i \in 1..Len(queue') : Gives(queue'[i], v) /\ ~TakenAfter(v, i)'
                         \/ ~TakenAfter(v, 0)' /\ Settled(v)'
                    /\ ozwValues'[v] = None =>
                         /\ filling' = v \/ rowNode'[v] = Owner[v] => TakenAfter(v, 0)'
                         /\ \A i \in 1..Len(queue') : Gives(queue'[i], v) => TakenAfter(v, i)'
  BY DEF ValueInv, Gives
<1>3. /\ \A i \in 0..L : TakenAfter(v, i)' <=> TakenAfter(v, i) \/ Takes(m, v)
      /\ ~TakenAfter(v, L + 1)'
  <2>1. homeId \in BOOLEAN
    BY DEF TypeOK
  <2>2. QED
    BY <1>1, <2>1, ReportLeads
<1>4. /\ Takes(m, v) => ozwValues'[v] = None
      /\ Gives(m, v) => ozwValues'[v] # None
      /\ ~Takes(m, v) /\ ~Gives(m, v) =>
           \/ ozwValues'[v] = ozwValues[v]
           \/ Tells(m, v) /\ ozwValues[v] # None /\ ozwValues'[v] # None
  BY DEF Reports
<1>5. rowNode'[v] \in {None, "unset", Owner[v]}
  BY <1>2 DEF ValueInv
<1>6. /\ 0 \in 0..L /\ L + 1 \in 1..(L + 1)
      /\ \A i \in 1..L : i \in 0..L /\ i \in 1..(L + 1)
      /\ \A i \in 1..(L + 1) : i \in 1..L \/ i = L + 1
  OBVIOUS
<1>7. ASSUME ozwValues'[v] # None
      PROVE  \/ \E i \in 1..(L + 1) : Gives(queue'[i], v) /\ ~TakenAfter(v, i)'
             \/ ~TakenAfter(v, 0)' /\ Settled(v)'
  <2>1. CASE Gives(m, v)
    BY <1>2, <1>3, <1>6, <2>1
  <2>2. CASE ~Gives(m, v)
    <3>1. ozwValues[v] # None /\ ~Takes(m, v) /\ (ozwValues'[v] = ozwValues[v] \/ Tells(m, v))
      BY <1>4, <1>7, <2>2
    <3>2. CASE \E i \in 1..Len(queue) : Gives(queue[i], v) /\ ~TakenAfter(v, i)
      <4>1. PICK i \in 1..L : Gives(queue[i], v) /\ ~TakenAfter(v, i)
        BY <1>1, <3>2
      <4>2. i \in 1..(L + 1) /\ Gives(queue'[i], v) /\ ~TakenAfter(v, i)'
        BY <1>2, <1>3, <1>6, <3>1, <4>1
      <4>3. QED
        BY <4>2
    <3>3. CASE ~TakenAfter(v, 0) /\ Settled(v)
      <4>1. ~TakenAfter(v, 0)'
        BY <1>3, <1>6, <3>1, <3>3
      <4>2. Settled(v)'
        BY <1>1, <1>2, <1>6, <3>1, <3>3 DEF Settled, Tells
      <4>3. QED
        BY <4>1, <4>2
    <3>4. QED
      BY <3>1, <3>2, <3>3 DEF ValueInv
  <2>3. QED
    BY <2>1, <2>2
<1>8. ASSUME ozwValues'[v] = None
      PROVE  /\ filling' = v \/ rowNode'[v] = Owner[v] => TakenAfter(v, 0)'
             /\ \A i \in 1..(L + 1) : Gives(queue'[i], v) => TakenAfter(v, i)'
  <2>1. ~Gives(m, v) /\ (Takes(m, v) \/ ozwValues[v] = None)
    BY <1>4, <1>8
  <2>2. filling = v \/ rowNode[v] = Owner[v] => TakenAfter(v, 0) \/ Takes(m, v)
    BY <2>1 DEF ValueInv
  <2>3. \A i \in 1..L : Gives(queue[i], v) => TakenAfter(v, i) \/ Takes(m, v)
    BY <1>1, <2>1 DEF ValueInv
  <2>4. QED
    BY <1>2, <1>3, <1>6, <2>1, <2>2, <2>3
<1>9. QED
  BY <1>2, <1>5, <1>7, <1>8

LEMMA ValueHandle ==
    ASSUME TypeOK, ValueInv, Handles(queue[1])
    PROVE  ValueInv'
<1> DEFINE m == queue[1]
<1>1. PICK L \in Nat : L + 1 = Len(queue)
  <2>1. Len(queue) - 1 \in Nat /\ (Len(queue) - 1) + 1 = Len(queue)
    BY DEF Handles
  <2>2. QED
    BY <2>1
<1>2. /\ Len(queue') = L /\ \A i \in 1..L : queue'[i] = queue[i + 1]
      /\ ozwValues' = ozwValues /\ driver' = driver /\ filling = None
  BY <1>1 DEF Handles, ozwVars
<1> SUFFICES ASSUME NEW v \in Values
             PROVE  /\ rowNode'[v] \in {None, "unset", Owner[v]}
                    /\ ozwValues[v] # None =>
                         \/ \E i \in 1..L : Gives(queue'[i], v) /\ ~TakenAfter(v, i)'
                         \/ ~TakenAfter(v, 0)' /\ Settled(v)'
                    /\ ozwValues[v] = None =>
                         /\ filling' = v \/ rowNode'[v] = Owner[v] => TakenAfter(v, 0)'
                         /\ \A i \in 1..L : Gives(queue'[i], v) => TakenAfter(v, i)'
  BY <1>2 DEF ValueInv, Gives
<1>3. /\ \A i \in 0..L : TakenAfter(v, i)' <=> TakenAfter(v, i + 1)
      /\ TakenAfter(v, 0) <=> Takes(m, v) \/ TakenAfter(v, 1)
  <2>1. homeId \in BOOLEAN
    BY DEF TypeOK
  <2>2. QED
    BY <1>1, <2>1, HandleLeads
<1>4. TakenAfter(v, 0)' <=> TakenAfter(v, 1)
  BY <1>3
<1>5. Owner[v] \in Nodes /\ Owner[v] # None /\ Owner[v] # "unset" /\ v # None
  BY ConstantsAssumption
<1>6. /\ filling' = v <=> Gives(m, v) /\ MayAdd(v)
      /\ rowNode'[v] = rowNode[v] \/ rowNode'[v] = None
           \/ (rowNode'[v] = "unset" /\ Gives(m, v))
      /\ Takes(m, v) => rowNode'[v] # Owner[v]
      /\ ~Takes(m, v) /\ v \in validValues /\ rowNode[v] = Owner[v] =>
           /\ v \in validValues' /\ rowNode'[v] = rowNode[v]
           /\ \/ rowData'[v] = rowData[v] /\ (v \in written => v \in written')
              \/ rowData'[v] = ozwValues[v]
           /\ Tells(m, v) /\ ozwValues[v] # None => rowData'[v] = ozwValues[v]
  BY DEF Handles
<1>7. rowNode'[v] \in {None, "unset", Owner[v]}
  BY <1>6 DEF ValueInv
<1>8. /\ \A i \in 2..(L + 1) : i - 1 \in 1..L /\ i - 1 \in 0..L /\ (i - 1) + 1 = i
      /\ \A i \in 1..(L + 1) : i = 1 \/ i \in 2..(L + 1)
      /\ \A i \in 1..L : i + 1 \in 1..(L + 1) /\ i \in 0..L
      /\ 1 \in 1..(L + 1)
  OBVIOUS
<1>9. ASSUME ozwValues[v] # None
      PROVE  \/ \E i \in 1..L : Gives(queue'[i], v) /\ ~TakenAfter(v, i)'
             \/ ~TakenAfter(v, 0)' /\ Settled(v)'
  <2>1. ASSUME NEW i \in 1..(L + 1), Gives(queue[i], v), ~TakenAfter(v, i)
        PROVE  \/ \E k \in 1..L : Gives(queue'[k], v) /\ ~TakenAfter(v, k)'
               \/ ~TakenAfter(v, 0)' /\ Settled(v)'
    <3>1. CASE i = 1
      <4>1. ~TakenAfter(v, 0)' /\ filling' = v
        BY <1>4, <1>6, <1>9, <2>1, <3>1 DEF MayAdd
      <4>2. QED
        BY <4>1 DEF Settled
    <3>2. CASE i \in 2..(L + 1)
      <4>1. i - 1 \in 1..L /\ Gives(queue'[i - 1], v) /\ ~TakenAfter(v, i - 1)'
        BY <1>2, <1>3, <1>8, <2>1, <3>2
      <4>2. QED
        BY <4>1
    <3>3. QED
      BY <1>8, <3>1, <3>2
  <2>2. ASSUME ~TakenAfter(v, 0), Settled(v)
        PROVE  ~TakenAfter(v, 0)' /\ Settled(v)'
    <3>1. ~Takes(m, v) /\ ~TakenAfter(v, 0)'
      BY <1>3, <1>4, <2>2
    <3>2. v \in validValues /\ rowNode[v] = Owner[v]
      BY <1>2, <1>5, <2>2 DEF Settled
    <3>3. v \in validValues' /\ rowNode'[v] = Owner[v]
      BY <1>6, <3>1, <3>2
    <3>4. CASE v \in written \/ rowData[v] = ozwValues[v]
      BY <1>2, <1>6, <3>1, <3>2, <3>3, <3>4 DEF Settled
    <3>5. ASSUME NEW i \in 1..(L + 1), Tells(queue[i], v) PROVE Settled(v)'
      <4>1. CASE i = 1
        BY <1>2, <1>6, <1>9, <3>1, <3>2, <3>3, <3>5, <4>1 DEF Settled
      <4>2. CASE i \in 2..(L + 1)
        <5>1. i - 1 \in 1..L /\ Tells(queue'[i - 1], v)
          BY <1>2, <1>8, <3>5, <4>2
        <5>2. QED
          BY <1>2, <3>3, <5>1 DEF Settled, Tells
      <4>3. QED
        BY <1>8, <4>1, <4>2
    <3>6. QED
      BY <1>1, <1>2, <1>5, <2>2, <3>1, <3>4, <3>5 DEF Settled
  <2>3. QED
    BY <1>1, <1>9, <2>1, <2>2 DEF ValueInv
<1>10. ASSUME ozwValues[v] = None
       PROVE  /\ filling' = v \/ rowNode'[v] = Owner[v] => TakenAfter(v, 0)'
              /\ \A i \in 1..L : Gives(queue'[i], v) => TakenAfter(v, i)'
  <2>1. \A i \in 1..(L + 1) : Gives(queue[i], v) => TakenAfter(v, i)
    BY <1>1, <1>10 DEF ValueInv
  <2>2. filling' = v => TakenAfter(v, 1)
    BY <1>6, <1>8, <2>1
  <2>3. rowNode'[v] = Owner[v] => TakenAfter(v, 1)
    BY <1>3, <1>5, <1>6, <1>10 DEF ValueInv
  <2>4. \A i \in 1..L : Gives(queue'[i], v) => TakenAfter(v, i)'
    BY <1>2, <1>3, <1>8, <2>1
  <2>5. QED
    BY <1>4, <2>2, <2>3, <2>4
<1>11. QED
  BY <1>7, <1>9, <1>10

\* Without an event only the rest of pvt_valueAdded and a client's setData
\* touch a row.
LEMMA ValueRest ==
    ASSUME IInv, ValueInv, Rests, NEW v \in Values,
           \/ /\ filling' = filling /\ rowNode'[v] = rowNode[v]
              /\ \/ rowData'[v] = rowData[v] /\ (v \in written => v \in written')
                 \/ v \in written'
           \/ /\ filling # v /\ filling' # v
              /\ UNCHANGED <<rowNode[v], rowData[v]>> /\ (v \in written => v \in written')
           \/ /\ filling = v /\ filling' # v
              /\ IF ozwValues[v] # None
                 THEN rowNode'[v] = Owner[v] /\ rowData'[v] = ozwValues[v]
                 ELSE rowNode'[v] \in {rowNode[v], Owner[v]}
    PROVE  /\ rowNode'[v] \in {None, "unset", Owner[v]}
           /\ ozwValues'[v] # None =>
                \/ \E i \in 1..Len(queue') : Gives(queue'[i], v) /\ ~TakenAfter(v, i)'
                \/ ~TakenAfter(v, 0)' /\ Settled(v)'
           /\ ozwValues'[v] = None =>
                /\ filling' = v \/ rowNode'[v] = Owner[v] => TakenAfter(v, 0)'
                /\ \A i \in 1..Len(queue') : Gives(queue'[i], v) => TakenAfter(v, i)'
<1>1. UNCHANGED <<queue, ozwValues, validValues>>
  BY DEF Rests
<1>2. \A i \in 0..Len(queue) : TakenAfter(v, i)' <=> TakenAfter(v, i)
  BY <1>1 DEF TakenAfter, Takes, Downs
<1>3. Len(queue) \in Nat
  BY DEF IInv, TypeOK
<1>4. 0 \in 0..Len(queue) /\ \A i \in 1..Len(queue) : i \in 0..Len(queue)
  BY <1>3
<1>5. rowNode'[v] \in {None, "unset", Owner[v]}
  BY DEF ValueInv
<1>6. filling = v => v \in validValues
  BY ConstantsAssumption DEF IInv, FillInv
<1>7. Settled(v) /\ ozwValues[v] # None => Settled(v)'
  BY <1>1, <1>6 DEF Settled, Tells
<1>8. ozwValues[v] = None /\ (filling' = v \/ rowNode'[v] = Owner[v]) => TakenAfter(v, 0)
  BY DEF ValueInv
<1>9. QED
  BY <1>1, <1>2, <1>4, <1>5, <1>7, <1>8 DEF ValueInv

LEMMA ValueOthers ==
    ASSUME IInv, ValueInv, Rests,
           pvt_valueAddedFill \/ closeFinish \/ (\E ok \in BOOLEAN : open(ok))
             \/ (\E v \in Values, d \in Data : setData(v, d)) \/ UNCHANGED vars
    PROVE  ValueInv'
<1> DEFINE Touch(v) ==
             \/ /\ filling' = filling /\ rowNode'[v] = rowNode[v]
                /\ \/ rowData'[v] = rowData[v] /\ (v \in written => v \in written')
                   \/ v \in written'
             \/ /\ filling # v /\ filling' # v
                /\ UNCHANGED <<rowNode[v], rowData[v]>> /\ (v \in written => v \in written')
             \/ /\ filling = v /\ filling' # v
                /\ IF ozwValues[v] # None
                   THEN rowNode'[v] = Owner[v] /\ rowData'[v] = ozwValues[v]
                   ELSE rowNode'[v] \in {rowNode[v], Owner[v]}
<1>0. TypeOK /\ \A v \in Values : v # None
  BY ConstantsAssumption DEF IInv
<1>1. CASE pvt_valueAddedFill
  <2>1. PICK w \in Values : w = filling /\ filling' = None
    BY <1>0, <1>1 DEF pvt_valueAddedFill, TypeOK
  <2>2. \A v \in Values : v # w =>
          UNCHANGED <<rowNode[v], rowData[v]>> /\ (v \in written => v \in written')
    BY <1>0, <1>1, <2>1 DEF pvt_valueAddedFill, TypeOK
  <2>3. IF ozwValues[w] # None
        THEN rowNode'[w] = Owner[w] /\ rowData'[w] = ozwValues[w]
        ELSE rowNode'[w] \in {rowNode[w], Owner[w]}
    BY <1>0, <1>1, <2>1 DEF pvt_valueAddedFill, TypeOK
  <2>4. \A v \in Values : Touch(v)
    BY <1>0, <2>1, <2>2, <2>3
  <2>5. QED
    BY <2>4, ValueRest DEF ValueInv, Gives
<1>2. ASSUME NEW w \in Values, NEW d \in Data, setData(w, d)
      PROVE  ValueInv'
  <2>1. \A v \in Values : Touch(v)
    BY <1>0, <1>2 DEF setData, TypeOK
  <2>2. QED
    BY <2>1, ValueRest DEF ValueInv, Gives
<1>3. CASE closeFinish \/ (\E ok \in BOOLEAN : open(ok)) \/ UNCHANGED vars
  <2>1. UNCHANGED <<rowNode, rowData, written, filling>>
    BY <1>3 DEF closeFinish, open, vars, valueVars
  <2>2. \A v \in Values : Touch(v)
    BY <2>1
  <2>3. QED
    BY <2>2, ValueRest DEF ValueInv, Gives
<1>4. QED
  BY <1>1, <1>2, <1>3

-----------------------------------------------------------------------------
(* The invariant.                                                          *)

\* Each step is of one of the three kinds.
LEMMA StepKinds ==
    ASSUME IInv, ValueInv, [Next]_vars
    PROVE  \/ \E m \in Message : Reports(m)
           \/ Handles(queue[1])
           \/ /\ Rests /\ (rowNode' = rowNode \/ filling # None)
              /\ ValueInv'
<1> DEFINE Others == pvt_valueAddedFill \/ closeFinish \/ (\E ok \in BOOLEAN : open(ok))
                       \/ (\E v \in Values, d \in Data : setData(v, d)) \/ UNCHANGED vars
<1>1. TypeOK /\ LinkInv /\ \A v \in Values : rowNode[v] \in {None, "unset", Owner[v]}
  BY DEF IInv, ValueInv
<1>2. CASE Ozw
  BY <1>1, <1>2, OzwReports
<1>3. CASE Slot /\ ~pvt_valueAddedFill
  BY <1>1, <1>3, SlotHandles
<1>4. CASE close
  <2>1. UNCHANGED <<ozwVars, queue, homeId, nodeVars, valueVars, filling, running>>
          => Rests /\ rowNode' = rowNode /\ ValueInv'
    <3>1. SUFFICES ASSUME UNCHANGED <<ozwVars, queue, homeId, nodeVars, valueVars, filling, running>>
                   PROVE  Rests /\ rowNode' = rowNode /\ ValueInv'
      OBVIOUS
    <3>2. Rests /\ UNCHANGED <<rowNode, rowData, written, filling>>
      BY <3>1 DEF Rests, ozwVars, nodeVars, valueVars
    <3>3. ValueInv'
      BY <3>2, ValueRest DEF ValueInv, Gives
    <3>4. QED
      BY <3>2, <3>3
  <2>2. QED
    BY <1>1, <1>4, <2>1, CloseReports
<1>5. CASE Others
  <2>1. Rests
    BY <1>1, <1>5, OthersRest
  <2>2. ValueInv'
    BY <1>5, <2>1, ValueOthers
  <2>3. rowNode' = rowNode \/ filling # None
    BY <1>5 DEF pvt_valueAddedFill, closeFinish, open, setData, vars, valueVars
  <2>4. QED
    BY <2>1, <2>2, <2>3
<1>6. QED
  BY <1>2, <1>3, <1>4, <1>5 DEF Next, Client

LEMMA CopyReport ==
    ASSUME TypeOK, CopyInv, NEW m, Reports(m)
    PROVE  CopyInv'
<1>1. PICK L \in Nat : L = Len(queue)
  BY DEF TypeOK
<1>2. homeId \in BOOLEAN
  BY DEF TypeOK
<1>3. \A n \in Nodes :
        ValidAfter(n, L + 1)' <=> Adds(m, n) \/ (~Removes(m, n) /\ ValidAfter(n, L))
  BY <1>1, <1>2, ReportLeads
<1>4. Len(queue') = L + 1
  BY <1>1 DEF Reports
<1>5. \A n \in Nodes :
        ozwNodes'[n] # None <=> Adds(m, n) \/ (~Removes(m, n) /\ ozwNodes[n] # None)
  BY DEF Reports
<1>6. QED
  BY <1>1, <1>3, <1>4, <1>5 DEF CopyInv

LEMMA CopyHandle ==
    ASSUME TypeOK, CopyInv, Handles(queue[1])
    PROVE  CopyInv'
<1>1. PICK L \in Nat : L + 1 = Len(queue)
  <2>1. Len(queue) - 1 \in Nat /\ (Len(queue) - 1) + 1 = Len(queue)
    BY DEF Handles
  <2>2. QED
    BY <2>1
<1>2. homeId \in BOOLEAN /\ L \in 0..L
  BY DEF TypeOK
<1>3. \A n \in Nodes : ValidAfter(n, L)' <=> ValidAfter(n, L + 1)
  BY <1>1, <1>2, HandleLeads
<1>4. Len(queue') = L /\ ozwNodes' = ozwNodes
  BY <1>1 DEF Handles, ozwVars
<1>5. QED
  BY <1>1, <1>3, <1>4 DEF CopyInv

LEMMA MirrorInit == Init => MirrorInv
<1> SUFFICES ASSUME Init PROVE MirrorInv
  OBVIOUS
<1>1. IInv
  BY InvInit
<1>2. Len(queue) = 0 /\ driver = "none" /\ homeId = FALSE /\ running = FALSE /\ filling = None
      /\ validNodes = {} /\ rowNode = [v \in Values |-> None]
      /\ ozwNodes = [n \in Nodes |-> None] /\ ozwValues = [v \in Values |-> None]
  BY DEF Init
<1>3. HomeInv
  <2>1. ~HomeAfter(0)
    BY <1>2 DEF HomeAfter
  <2>2. ~HomeAfter(Len(queue)) /\ driver # "ready" /\ homeId = running
    BY <1>2, <2>1
  <2>3. QED
    BY <1>2, <2>2 DEF HomeInv
<1>4. ValueInv
  BY <1>2, ConstantsAssumption DEF ValueInv
<1>5. CopyInv
  BY <1>2 DEF CopyInv, ValidAfter
<1>6. QED
  BY <1>1, <1>3, <1>4, <1>5 DEF MirrorInv

LEMMA MirrorStep == MirrorInv /\ [Next]_vars => MirrorInv'
<1> SUFFICES ASSUME MirrorInv, [Next]_vars PROVE MirrorInv'
  OBVIOUS
<1>0. IInv /\ HomeInv /\ ValueInv /\ CopyInv /\ TypeOK
  BY DEF MirrorInv, IInv
<1>1. IInv'
  BY <1>0, InvStep
<1>2. ASSUME NEW m \in Message, Reports(m) PROVE HomeInv' /\ ValueInv' /\ CopyInv'
  BY <1>0, <1>2, HomeReport, ValueReport, CopyReport
<1>3. ASSUME Handles(queue[1]) PROVE HomeInv' /\ ValueInv' /\ CopyInv'
  BY <1>0, <1>3, HomeHandle, ValueHandle, CopyHandle
<1>4. ASSUME Rests, rowNode' = rowNode \/ filling # None PROVE HomeInv' /\ CopyInv'
  <2>1. HomeInv'
    BY <1>0, <1>4, HomeRest
  <2>2. CopyInv'
    BY <1>0, <1>4 DEF CopyInv, Rests, ValidAfter, Adds, Removes
  <2>3. QED
    BY <2>1, <2>2
<1>5. HomeInv' /\ ValueInv' /\ CopyInv'
  BY <1>0, <1>2, <1>3, <1>4, StepKinds
<1>6. QED
  BY <1>1, <1>5 DEF MirrorInv

-----------------------------------------------------------------------------
(* Theorems.                                                               *)

\* The strengthened invariant, homeId and value rows included, holds in every
\* reachable state.
THEOREM MirrorInductive == Spec => []MirrorInv
BY MirrorInit, MirrorStep, PTL DEF Spec

\* Without a waiting event ValueInv is about library and rows.
LEMMA ValuesAgree == MirrorInv => ValuesConverge
<1> SUFFICES ASSUME MirrorInv, Quiet, NEW v \in Values
             PROVE  IF ozwValues[v] = None
                    THEN rowNode[v] \notin Nodes
                    ELSE /\ v \in validValues
                         /\ rowNode[v] = Owner[v]
                         /\ v \in written \/ rowData[v] = ozwValues[v]
  BY DEF ValuesConverge
<1>1. ValueInv /\ Len(queue) = 0 /\ filling # v
  BY ConstantsAssumption DEF MirrorInv, IInv, TypeOK, Quiet
<1>2. ~TakenAfter(v, 0)
  BY <1>1 DEF TakenAfter
<1>3. CASE ozwValues[v] = None
  <2>1. rowNode[v] \in {None, "unset", Owner[v]} /\ rowNode[v] # Owner[v]
    BY <1>1, <1>2, <1>3 DEF ValueInv
  <2>2. QED
    BY <1>3, <2>1, ConstantsAssumption
<1>4. CASE ozwValues[v] # None
  <2>1. Settled(v)
    BY <1>1, <1>4 DEF ValueInv
  <2>2. QED
    BY <1>1, <1>4, <2>1 DEF Settled
<1>5. QED
  BY <1>3, <1>4

\* Whatever the library's thread does between a report, its slot and the two
\* halves of pvt_valueAdded, once the queue is empty every value of the
\* library has its key, its row and its data, and no other value has a row.
THEOREM ValuesConvergeAlways == Spec => []ValuesConverge
BY ValuesAgree, MirrorInductive, PTL

\* Without a waiting event HomeInv is about driver and homeId.
LEMMA HomeIdFollows == MirrorInv => HomeIdGuardsModels
<1> SUFFICES ASSUME MirrorInv PROVE HomeIdGuardsModels
  OBVIOUS
<1>1. HomeInv /\ homeId \in BOOLEAN
  BY DEF MirrorInv, IInv, TypeOK
<1>2. Quiet => (homeId <=> driver = "ready")
  <2>1. HomeAfter(0) <=> homeId
    BY DEF HomeAfter
  <2>2. Quiet => Len(queue) = 0
    BY DEF Quiet
  <2>3. QED
    BY <1>1, <2>1, <2>2 DEF HomeInv
<1>3. QED
  BY <1>1, <1>2 DEF HomeInv, HomeIdGuardsModels

\* When homeId() is 0 no node or value of the closed network is left in the
\* models, and it follows the driver once the queue is empty.
THEOREM HomeIdGuardsModelsAlways == Spec => []HomeIdGuardsModels
BY HomeIdFollows, MirrorInductive, PTL

-----------------------------------------------------------------------------
(* The refinement.                                                         *)

LEMMA PendingIs ==
    ASSUME queue \in Seq(Message)
    PROVE  /\ Pending \in Seq(SUBSET Nodes) /\ Len(Pending) = Len(queue)
           /\ \A i \in 1..Len(queue) : Pending[i] = {n \in Nodes : ValidAfter(n, i)}
<1>1. Len(queue) \in Nat
  OBVIOUS
<1>2. \A i \in 1..Len(queue) : {n \in Nodes : ValidAfter(n, i)} \in SUBSET Nodes
  OBVIOUS
<1>3. QED
  BY <1>1, <1>2 DEF Pending

\* A report is a change of the source, or the same source told again.
LEMMA ReportChanges ==
    ASSUME MirrorInv, MirrorInv', NEW m, Reports(m)
    PROVE  Copy!Change
<1>1. TypeOK /\ TypeOK' /\ CopyInv' /\ homeId \in BOOLEAN
  BY DEF MirrorInv, IInv, TypeOK
<1>2. PICK L \in Nat : L = Len(queue)
  BY <1>1 DEF TypeOK
<1>3. \A n \in Nodes : \A i \in 0..L : ValidAfter(n, i)' <=> ValidAfter(n, i)
  BY <1>1, <1>2, ReportLeads
<1>4. Len(queue') = L + 1 /\ validNodes' = validNodes
  BY <1>2 DEF Reports, nodeVars
<1>5. /\ Pending \in Seq(SUBSET Nodes) /\ Len(Pending) = L
      /\ \A i \in 1..L : Pending[i] = {n \in Nodes : ValidAfter(n, i)}
  BY <1>1, <1>2, PendingIs DEF TypeOK
<1>6. /\ Pending' \in Seq(SUBSET Nodes) /\ Len(Pending') = L + 1
      /\ \A i \in 1..(L + 1) : Pending'[i] = {n \in Nodes : ValidAfter(n, i)'}
  <2>1. \A i \in 1..(L + 1) : {n \in Nodes : ValidAfter(n, i)'} \in SUBSET Nodes
    OBVIOUS
  <2>2. QED
    BY <1>4, <2>1 DEF Pending
<1>7. Network' \in SUBSET Nodes /\ Pending'[L + 1] = Network'
  <2>1. \A n \in Nodes : ozwNodes'[n] # None <=> ValidAfter(n, L + 1)'
    BY <1>1, <1>4 DEF CopyInv
  <2>2. L + 1 \in 1..(L + 1)
    OBVIOUS
  <2>3. QED
    BY <1>6, <2>1, <2>2 DEF Network
<1>8. \A i \in 1..L : Pending'[i] = Pending[i]
  <2>1. \A i \in 1..L : i \in 0..L /\ i \in 1..(L + 1)
    OBVIOUS
  <2>2. QED
    BY <1>3, <1>5, <1>6, <2>1
<1>9. Pending' = Append(Pending, Network')
  <2> DEFINE s == Append(Pending, Network')
  <2>1. s \in Seq(SUBSET Nodes) /\ Len(s) = L + 1 /\ s[L + 1] = Network'
        /\ \A i \in 1..L : s[i] = Pending[i]
    BY <1>5, <1>7, AppendProperties
  <2>2. \A i \in 1..(L + 1) : i \in 1..L \/ i = L + 1
    OBVIOUS
  <2> HIDE DEF s
  <2>3. \A i \in 1..Len(s) : s[i] = Pending'[i]
    BY <1>7, <1>8, <2>1, <2>2
  <2>4. s = Pending'
    BY <1>6, <2>1, <2>3, SeqEqual
  <2>5. QED
    BY <2>4 DEF s
<1>10. QED
  BY <1>4, <1>7, <1>9 DEF Copy!Change

\* Handling an event makes m_validNodes the next set it had still to become.
LEMMA HandleCatchesUp ==
    ASSUME MirrorInv, MirrorInv', Handles(queue[1])
    PROVE  Copy!CatchUp
<1>1. TypeOK /\ TypeOK' /\ homeId \in BOOLEAN
  BY DEF MirrorInv, IInv, TypeOK
<1>2. PICK L \in Nat : L + 1 = Len(queue)
  <2>1. Len(queue) - 1 \in Nat /\ (Len(queue) - 1) + 1 = Len(queue)
    BY DEF Handles
  <2>2. QED
    BY <2>1
<1>3. \A n \in Nodes : \A i \in 0..L : ValidAfter(n, i)' <=> ValidAfter(n, i + 1)
  BY <1>1, <1>2, HandleLeads
<1>4. Len(queue') = L /\ ozwNodes' = ozwNodes /\ validNodes' \subseteq Nodes
  BY <1>2 DEF Handles, ozwVars
<1>5. /\ Pending \in Seq(SUBSET Nodes) /\ Len(Pending) = L + 1
      /\ \A i \in 1..(L + 1) : Pending[i] = {n \in Nodes : ValidAfter(n, i)}
  BY <1>1, <1>2, PendingIs DEF TypeOK
<1>6. /\ Pending' \in Seq(SUBSET Nodes) /\ Len(Pending') = L
      /\ \A i \in 1..L : Pending'[i] = {n \in Nodes : ValidAfter(n, i)'}
  <2>1. \A i \in 1..L : {n \in Nodes : ValidAfter(n, i)'} \in SUBSET Nodes
    OBVIOUS
  <2>2. QED
    BY <1>4, <2>1 DEF Pending
<1>7. validNodes' = Pending[1]
  <2>1. \A n \in Nodes : ValidAfter(n, 0)' <=> n \in validNodes'
    BY DEF ValidAfter
  <2>2. \A n \in Nodes : ValidAfter(n, 0)' <=> ValidAfter(n, 1)
    BY <1>3
  <2>3. 1 \in 1..(L + 1)
    OBVIOUS
  <2>4. QED
    BY <1>4, <1>5, <2>1, <2>2, <2>3
<1>8. \A i \in 1..L : Pending'[i] = Pending[i + 1]
  <2>1. \A i \in 1..L : i \in 0..L /\ i + 1 \in 1..(L + 1)
    OBVIOUS
  <2>2. QED
    BY <1>3, <1>5, <1>6, <2>1
<1>9. Pending # <<>> /\ Head(Pending) = Pending[1]
  BY <1>5
<1>10. Pending' = Tail(Pending)
  <2> DEFINE s == Tail(Pending)
  <2>1. s \in Seq(SUBSET Nodes) /\ Len(s) = L /\ \A i \in 1..L : s[i] = Pending[i + 1]
    BY <1>5, <1>9
  <2> HIDE DEF s
  <2>2. s = Pending'
    BY <1>6, <1>8, <2>1, SeqEqual
  <2>3. QED
    BY <2>2 DEF s
<1>11. Network' = Network
  BY <1>4 DEF Network
<1>12. QED
  BY <1>7, <1>9, <1>10, <1>11 DEF Copy!CatchUp

\* m_validNodes replays the history of the network: it becomes each set of
\* nodes that the library has had, in order, skips none and invents none,
\* for any network and any bound on the queue.
THEOREM ImplementsCopy == Spec => CopySpec
<1>1. Init => Copy!Init
  <2> SUFFICES ASSUME Init PROVE Copy!Init
    OBVIOUS
  <2>1. Network = {} /\ validNodes = {} /\ queue = <<>>
    BY DEF Init, Network
  <2>2. Pending = <<>>
    BY <2>1 DEF Pending
  <2>3. QED
    BY <2>1, <2>2 DEF Copy!Init
<1>2. MirrorInv /\ MirrorInv' /\ [Next]_vars => [Copy!Next]_(Copy!vars)
  <2> SUFFICES ASSUME MirrorInv, MirrorInv', [Next]_vars PROVE [Copy!Next]_(Copy!vars)
    OBVIOUS
  <2>1. ASSUME Rests PROVE UNCHANGED Copy!vars
    BY <2>1 DEF Rests, Copy!vars, Network, Pending, ValidAfter, Adds, Removes
  <2>2. IInv /\ ValueInv
    BY DEF MirrorInv
  <2>3. QED
    BY <2>1, <2>2, StepKinds, ReportChanges, HandleCatchesUp DEF Copy!Next
<1>3. QED
  BY <1>1, <1>2, MirrorInductive, PTL DEF Spec, CopySpec, Copy!Spec
=============================================================================
