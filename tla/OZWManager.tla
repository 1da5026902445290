----------------------------- MODULE OZWManager -----------------------------
(***************************************************************************)
(* QTOZWManager_Internal: the mirror of an OpenZWave network that          *)
(* qt-openzwave keeps on the Qt main thread.                               *)
(*                                                                         *)
(* OpenZWave runs a driver thread of its own.  It reports every change to  *)
(* OZWNotification::processNotification, which emits a signal; open()      *)
(* connected these signals with Qt::QueuedConnection, so that each report  *)
(* becomes an event of the main thread's queue and its pvt_ slot runs      *)
(* later, reading the library's state of that moment, not the state the    *)
(* report was about.  The slots keep m_validNodes, m_validValues, the node *)
(* model, the value model and homeId.                                      *)
(*                                                                         *)
(* The library is external: its variables (ozw...) and actions (Ozw...)    *)
(* say only what the notifications and getters the code uses let it rely   *)
(* on.                                                                     *)
(***************************************************************************)
EXTENDS Naturals, Sequences, FiniteSets

CONSTANTS
    Nodes,      \* Z-Wave node ids
    Values,     \* ValueID keys
    Data,       \* what a value may hold
    Owner,      \* the node a ValueID key belongs to: vid.GetNodeId()
    QueueBound, \* bound: events waiting in the main thread's queue
    None        \* no node, no value, no data, no row

ASSUME ConstantsAssumption ==
    /\ Owner \in [Values -> Nodes]
    /\ None \notin Nodes \cup Values \cup Data \cup {"unset", "added", "complete"}
    /\ "unset" \notin Nodes
    /\ QueueBound \in Nat \ {0}

VARIABLES
    \* OpenZWave, on its own thread
    driver,     \* "none", "init" (AddDriver done), "ready", "failed"
    ozwNodes,   \* node |-> query stage, None when the library has no such node
    ozwValues,  \* value |-> its data, None when the library has no such value
    \* the main thread's event queue
    queue,
    \* QTOZWManager_Internal
    slots,      \* connections of each notification signal, with the watcher
    serialPort, \* m_SerialPort is set
    closing,    \* close() is inside RemoveDriver, which pumps events
    homeId,     \* homeId() is not 0
    validNodes, \* m_validNodes
    validValues,\* m_validValues
    nodeRows,   \* node model: NodeQueryStage of each row, None without a row
    rowNode,    \* value model: Node column, "unset" before it is filled
    rowData,    \* value model: Value column
    filling,    \* the value whose pvt_valueAdded is under way
    \* QTOZWManager, the public class
    running,    \* m_running
    \* ghost: values a client overwrote in the model, not yet read back
    written

ozwVars == <<driver, ozwNodes, ozwValues>>
linkVars == <<slots, serialPort, closing>>
nodeVars == <<validNodes, nodeRows>>
valueVars == <<validValues, rowNode, rowData, written>>
vars == <<ozwVars, queue, linkVars, homeId, nodeVars, valueVars, filling, running>>

NodeTypes == {"nodeAdded", "nodeInfo", "nodeRemoved"}
ValueTypes == {"valueAdded", "valueChanged", "valueRemoved"}
DownTypes == {"driverFailed", "driverReset", "driverRemoved"}
Message == [type : NodeTypes, id : Nodes]
             \cup [type : ValueTypes, id : Values]
             \cup [type : DownTypes \cup {"driverReady"}, id : {None}]
Stages == {"added", "complete"}

Init ==
    /\ driver = "none"
    /\ ozwNodes = [n \in Nodes |-> None]
    /\ ozwValues = [v \in Values |-> None]
    /\ queue = <<>>
    /\ slots = 0
    /\ serialPort = FALSE
    /\ closing = FALSE
    /\ homeId = FALSE
    /\ validNodes = {}
    /\ validValues = {}
    /\ nodeRows = [n \in Nodes |-> None]
    /\ rowNode = [v \in Values |-> None]
    /\ rowData = [v \in Values |-> None]
    /\ filling = None
    /\ running = FALSE
    /\ written = {}

-----------------------------------------------------------------------------
(* The library's thread.                                                   *)

\* Fault: a report overtakes the reports that wait already.
NotifyFirst(t, x) ==
    /\ Len(queue) + slots <= QueueBound
    /\ queue' = [i \in 1..slots |-> [type |-> t, id |-> x]] \o queue

\* processNotification emits one signal; each of its connections posts an event.
Notify(t, x) ==
    /\ Len(queue) + slots <= QueueBound
    /\ queue' = queue \o [i \in 1..slots |-> [type |-> t, id |-> x]]

OzwDriverReady ==
    /\ driver = "init"
    /\ driver' = "ready"
    /\ Notify("driverReady", None)
    /\ UNCHANGED <<ozwNodes, ozwValues, linkVars, homeId, nodeVars, valueVars, filling, running>>

OzwDriverFailed ==
    /\ driver = "init"
    /\ driver' = "failed"
    /\ Notify("driverFailed", None)
    /\ UNCHANGED <<ozwNodes, ozwValues, linkVars, homeId, nodeVars, valueVars, filling, running>>

\* One notification stands for the removal of every node and every value.
OzwDriverReset ==
    /\ driver = "ready"
    /\ driver' = "init"
    /\ ozwNodes' = [n \in Nodes |-> None]
    /\ ozwValues' = [v \in Values |-> None]
    /\ Notify("driverReset", None)
    /\ UNCHANGED <<linkVars, homeId, nodeVars, valueVars, filling, running>>

OzwNodeAdded(n) ==
    /\ driver = "ready"
    /\ ozwNodes[n] = None
    /\ ozwNodes' = [ozwNodes EXCEPT ![n] = "added"]
    /\ Notify("nodeAdded", n)
    /\ UNCHANGED <<driver, ozwValues, linkVars, homeId, nodeVars, valueVars, filling, running>>

OzwNodeQueriesComplete(n) ==
    /\ ozwNodes[n] = "added"
    /\ ozwNodes' = [ozwNodes EXCEPT ![n] = "complete"]
    /\ Notify("nodeInfo", n)
    /\ UNCHANGED <<driver, ozwValues, linkVars, homeId, nodeVars, valueVars, filling, running>>

\* A node goes with the values it still has; they need not be reported.
OzwNodeRemoved(n) ==
    /\ ozwNodes[n] # None
    /\ ozwNodes' = [ozwNodes EXCEPT ![n] = None]
    /\ ozwValues' = [v \in Values |-> IF Owner[v] = n THEN None ELSE ozwValues[v]]
    /\ Notify("nodeRemoved", n)
    /\ UNCHANGED <<driver, linkVars, homeId, nodeVars, valueVars, filling, running>>

OzwValueAdded(v, d) ==
    /\ ozwNodes[Owner[v]] # None
    /\ ozwValues[v] = None
    /\ ozwValues' = [ozwValues EXCEPT ![v] = d]
    /\ Notify("valueAdded", v)
    /\ UNCHANGED <<driver, ozwNodes, linkVars, homeId, nodeVars, valueVars, filling, running>>

OzwValueChanged(v, d) ==
    /\ ozwValues[v] \notin {None, d}
    /\ ozwValues' = [ozwValues EXCEPT ![v] = d]
    /\ Notify("valueChanged", v)
    /\ UNCHANGED <<driver, ozwNodes, linkVars, homeId, nodeVars, valueVars, filling, running>>

OzwValueRemoved(v) ==
    /\ ozwValues[v] # None
    /\ ozwValues' = [ozwValues EXCEPT ![v] = None]
    /\ Notify("valueRemoved", v)
    /\ UNCHANGED <<driver, ozwNodes, linkVars, homeId, nodeVars, valueVars, filling, running>>

Ozw ==
    \/ OzwDriverReady \/ OzwDriverFailed \/ OzwDriverReset
    \/ \E n \in Nodes : OzwNodeAdded(n) \/ OzwNodeQueriesComplete(n) \/ OzwNodeRemoved(n)
    \/ \E v \in Values : OzwValueRemoved(v)
    \/ \E v \in Values, d \in Data : OzwValueAdded(v, d) \/ OzwValueChanged(v, d)

-----------------------------------------------------------------------------
(* The slots, on the main thread.                                          *)

\* The event loop delivers the oldest event; slots do not interleave.
Deliver(t) ==
    /\ filling = None
    /\ queue # <<>>
    /\ Head(queue).type = t
    /\ queue' = Tail(queue)

\* What pvt_valueRemoved erases for each value of a set: its key, then its row.
DropValues(vs) ==
    /\ validValues' = validValues \ vs
    /\ rowNode' = [v \in Values |-> IF v \in vs THEN None ELSE rowNode[v]]
    /\ rowData' = [v \in Values |-> IF v \in vs THEN None ELSE rowData[v]]
    /\ written' = written \ vs

pvt_driverReady ==
    /\ Deliver("driverReady")
    /\ homeId' = TRUE
    /\ running' = TRUE
    /\ UNCHANGED <<ozwVars, linkVars, nodeVars, valueVars, filling>>

\* Fault: the models are reset, homeId() still answers for the old network.
pvt_driverDownKeepsHomeId ==
    /\ \E t \in DownTypes : Deliver(t)
    /\ validNodes' = {}
    /\ nodeRows' = [n \in Nodes |-> None]
    /\ validValues' = {}
    /\ rowNode' = [v \in Values |-> None]
    /\ rowData' = [v \in Values |-> None]
    /\ written' = {}
    /\ running' = FALSE
    /\ UNCHANGED <<ozwVars, linkVars, homeId, filling>>

\* pvt_nodeRemoved for every valid node, then the models are reset; the keys
\* of values whose row has no node yet stay in m_validValues.
pvt_driverDown ==
    /\ \E t \in DownTypes : Deliver(t)
    /\ validNodes' = {}
    /\ nodeRows' = [n \in Nodes |-> None]
    /\ validValues' = {v \in validValues : rowNode[v] \notin validNodes}
    /\ rowNode' = [v \in Values |-> None]
    /\ rowData' = [v \in Values |-> None]
    /\ written' = {}
    /\ homeId' = FALSE
    /\ running' = FALSE
    /\ UNCHANGED <<ozwVars, linkVars, filling>>

\* Fault: a row that has a stage already is not read again.
StageReadsOnce(n, old) == IF old = "unset" /\ ozwNodes[n] # None THEN {ozwNodes[n]} ELSE {old}

\* What the getters say of a node's stage.  For a node the library no longer
\* has they throw, and the row keeps what it had, or answer with a default.
StageReads(n, old) == IF ozwNodes[n] # None THEN {ozwNodes[n]} ELSE {old, "unset"}

\* pvt_nodeNew and pvt_nodeAdded.
pvt_nodeAdded ==
    /\ Deliver("nodeAdded")
    /\ LET n == Head(queue).id IN
         /\ validNodes' = validNodes \cup {n}
         /\ \E s \in StageReads(n, IF nodeRows[n] = None THEN "unset" ELSE nodeRows[n]) :
              nodeRows' = [nodeRows EXCEPT ![n] = s]
    /\ UNCHANGED <<ozwVars, linkVars, homeId, valueVars, filling, running>>

\* pvt_nodeNaming, Event, ProtocolInfo, EssentialNodeQueriesComplete and
\* QueriesComplete: copy what the library says into an existing row.
pvt_nodeInfo ==
    /\ Deliver("nodeInfo")
    /\ LET n == Head(queue).id IN
         IF nodeRows[n] = None
         THEN UNCHANGED nodeRows
         ELSE \E s \in StageReads(n, nodeRows[n]) : nodeRows' = [nodeRows EXCEPT ![n] = s]
    /\ UNCHANGED <<ozwVars, linkVars, homeId, validNodes, valueVars, filling, running>>

\* Fault: the node goes, the rows of its values stay.
pvt_nodeRemovedKeepsValues ==
    /\ Deliver("nodeRemoved")
    /\ LET n == Head(queue).id IN
         /\ validNodes' = validNodes \ {n}
         /\ nodeRows' = [nodeRows EXCEPT ![n] = None]
    /\ UNCHANGED <<ozwVars, linkVars, homeId, valueVars, filling, running>>

\* Fault: the rows go, the node stays in m_validNodes.
pvt_nodeRemovedKeepsNode ==
    /\ Deliver("nodeRemoved")
    /\ LET n == Head(queue).id IN
         /\ DropValues({v \in Values : rowNode[v] = n})
         /\ nodeRows' = [nodeRows EXCEPT ![n] = None]
    /\ UNCHANGED <<ozwVars, linkVars, homeId, validNodes, filling, running>>

\* pvt_nodeRemoved and pvt_nodeReset: pvt_valueRemoved for the values of the
\* node, then whatever delNodeValues still finds.
pvt_nodeRemoved ==
    /\ Deliver("nodeRemoved")
    /\ LET n == Head(queue).id IN
         /\ DropValues({v \in Values : rowNode[v] = n})
         /\ validNodes' = validNodes \ {n}
         /\ nodeRows' = [nodeRows EXCEPT ![n] = None]
    /\ UNCHANGED <<ozwVars, linkVars, homeId, filling, running>>

\* Whether IsValueValid's answer lets pvt_valueAdded go on: it throws without
\* a driver, and the handler that catches it does not return.
MayAdd(v) == driver = "none" \/ ozwValues[v] # None

\* pvt_valueAdded up to addValue: the key and an empty row.
pvt_valueAdded ==
    /\ Deliver("valueAdded")
    /\ LET v == Head(queue).id IN
         IF MayAdd(v)
         THEN /\ validValues' = validValues \cup {v}
              /\ rowNode' = [rowNode EXCEPT ![v] = IF @ = None THEN "unset" ELSE @]
              /\ filling' = v
         ELSE UNCHANGED <<validValues, rowNode, filling>>
    /\ UNCHANGED <<ozwVars, linkVars, homeId, nodeVars, rowData, running, written>>

\* Fault: the Node and Value columns are swapped.
pvt_valueAddedFillSwapped ==
    /\ filling # None
    /\ filling' = None
    /\ LET v == filling IN
         IF ozwValues[v] # None
         THEN /\ rowNode' = [rowNode EXCEPT ![v] = ozwValues[v]]
              /\ rowData' = [rowData EXCEPT ![v] = Owner[v]]
              /\ written' = written \ {v}
         ELSE UNCHANGED <<rowNode, rowData, written>>
    /\ UNCHANGED <<ozwVars, queue, linkVars, homeId, nodeVars, validValues, running>>

\* The rest of pvt_valueAdded.  The library's thread may have removed the
\* value since: then a getter throws, before or after the Node column is set.
pvt_valueAddedFill ==
    /\ filling # None
    /\ filling' = None
    /\ LET v == filling IN
         IF ozwValues[v] # None
         THEN /\ rowNode' = [rowNode EXCEPT ![v] = Owner[v]]
              /\ rowData' = [rowData EXCEPT ![v] = ozwValues[v]]
              /\ written' = written \ {v}
         ELSE /\ \E n \in {rowNode[v], Owner[v]} : rowNode' = [rowNode EXCEPT ![v] = n]
              /\ UNCHANGED <<rowData, written>>
    /\ UNCHANGED <<ozwVars, queue, linkVars, homeId, nodeVars, validValues, running>>

\* Fault: checkValueKey is negated.
ConvertsUnknown(v) == v \notin validValues /\ ozwValues[v] # None

\* convertValueID: nothing for an unknown key or a value that is gone.
Converts(v) == v \in validValues /\ ozwValues[v] # None

\* pvt_valueChanged and pvt_valueRefreshed.
pvt_valueChanged ==
    /\ Deliver("valueChanged")
    /\ LET v == Head(queue).id IN
         IF Converts(v) /\ rowNode[v] # None
         THEN /\ rowData' = [rowData EXCEPT ![v] = ozwValues[v]]
              /\ written' = written \ {v}
         ELSE UNCHANGED <<rowData, written>>
    /\ UNCHANGED <<ozwVars, linkVars, homeId, nodeVars, validValues, rowNode, filling, running>>

pvt_valueRemoved ==
    /\ Deliver("valueRemoved")
    /\ DropValues({Head(queue).id})
    /\ UNCHANGED <<ozwVars, linkVars, homeId, nodeVars, filling, running>>

Slot ==
    \/ pvt_driverReady \/ pvt_driverDown
    \/ pvt_nodeAdded \/ pvt_nodeInfo \/ pvt_nodeRemoved
    \/ pvt_valueAdded \/ pvt_valueAddedFill \/ pvt_valueChanged \/ pvt_valueRemoved

-----------------------------------------------------------------------------
(* Calls of the application, on the main thread.                           *)

\* Fault: open() goes on when AddWatcher refuses the watcher.
openAgain(addDriverOK) ==
    /\ filling = None /\ ~closing
    /\ slots' = slots + 1
    /\ driver' = IF addDriverOK /\ driver = "none" THEN "init" ELSE driver
    /\ serialPort' = IF addDriverOK THEN TRUE ELSE serialPort
    /\ UNCHANGED <<ozwNodes, ozwValues, queue, closing, homeId, nodeVars, valueVars, filling, running>>

\* AddWatcher refuses a watcher that is registered already, and open() gives
\* up there; AddDriver may fail, and the watcher and connections then stay.
open(addDriverOK) ==
    /\ filling = None /\ ~closing
    /\ IF slots > 0
       THEN UNCHANGED <<driver, slots, serialPort>>
       ELSE /\ slots' = slots + 1
            /\ driver' = IF addDriverOK THEN "init" ELSE driver
            /\ serialPort' = IF addDriverOK THEN TRUE ELSE serialPort
    /\ UNCHANGED <<ozwNodes, ozwValues, queue, closing, homeId, nodeVars, valueVars, filling, running>>

\* RemoveDriver(m_SerialPort) ends the driver and everything it had; it finds
\* none when open() failed.  Its notification pumps the event loop, so slots
\* run before close() goes on.
close ==
    /\ filling = None /\ ~closing /\ slots > 0
    /\ closing' = TRUE
    /\ IF serialPort /\ driver # "none"
       THEN /\ driver' = "none"
            /\ ozwNodes' = [n \in Nodes |-> None]
            /\ ozwValues' = [v \in Values |-> None]
            /\ Notify("driverRemoved", None)
       ELSE UNCHANGED <<ozwVars, queue>>
    /\ UNCHANGED <<slots, serialPort, homeId, nodeVars, valueVars, filling, running>>

\* Fault: disconnecting drops the events that wait.
closeFinishDrops ==
    /\ closing /\ filling = None
    /\ closing' = FALSE
    /\ slots' = 0
    /\ serialPort' = FALSE
    /\ queue' = <<>>
    /\ UNCHANGED <<ozwVars, homeId, nodeVars, valueVars, filling, running>>

\* RemoveWatcher and disconnect().  Events already posted are still delivered.
closeFinish ==
    /\ closing /\ filling = None
    /\ closing' = FALSE
    /\ slots' = 0
    /\ serialPort' = FALSE
    /\ UNCHANGED <<ozwVars, queue, homeId, nodeVars, valueVars, filling, running>>

\* A client edits the Value column: setData stores it before the library is
\* asked, and pvt_valueModelDataChanged ignores the answer.  The library
\* reports the new value, if the device takes it, as OzwValueChanged.
setData(v, d) ==
    /\ filling = None
    /\ rowNode[v] # None
    /\ rowData[v] # d
    /\ rowData' = [rowData EXCEPT ![v] = d]
    /\ written' = written \cup {v}
    /\ UNCHANGED <<ozwVars, queue, linkVars, homeId, nodeVars, validValues, rowNode, filling, running>>

Client ==
    \/ \E ok \in BOOLEAN : open(ok)
    \/ close \/ closeFinish
    \/ \E v \in Values, d \in Data : setData(v, d)

Next == Ozw \/ Slot \/ Client

\* The main thread's event loop runs every event posted to it, and close()
\* returns.  Nothing is assumed of the library or of the application.
Fairness == WF_vars(Slot) /\ WF_vars(closeFinish)

Spec == Init /\ [][Next]_vars /\ Fairness
-----------------------------------------------------------------------------
(* Properties.                                                             *)

\* Type invariant.
TypeOK ==
    /\ driver \in {"none", "init", "ready", "failed"}
    /\ ozwNodes \in [Nodes -> Stages \cup {None}]
    /\ ozwValues \in [Values -> Data \cup {None}]
    /\ queue \in Seq(Message)
    /\ slots \in Nat
    /\ serialPort \in BOOLEAN /\ closing \in BOOLEAN
    /\ homeId \in BOOLEAN /\ running \in BOOLEAN
    /\ validNodes \in SUBSET Nodes
    /\ validValues \in SUBSET Values
    /\ nodeRows \in [Nodes -> Stages \cup {"unset", None}]
    /\ rowNode \in [Values -> Nodes \cup {"unset", None}]
    /\ rowData \in [Values -> Data \cup {None}]
    /\ filling \in Values \cup {None}
    /\ written \in SUBSET Values

\* Every event posted has been handled to its end.
Quiet == queue = <<>> /\ filling = None

\* However the library's reports and the slots that handle them later
\* interleave, whoever finds the queue empty finds m_validNodes, the node
\* model and the library in agreement, stages included.
NodesConverge ==
    Quiet => /\ validNodes = {n \in Nodes : ozwNodes[n] # None}
             /\ nodeRows = ozwNodes

\* The same for values: each value of the library has its key, a filled row
\* and the library's data unless a client wrote over it; no other value has a
\* filled row, although IsValueValid and the getters of pvt_valueAdded see the
\* library at two different moments.
ValuesConverge ==
    Quiet => \A v \in Values :
      IF ozwValues[v] = None
      THEN rowNode[v] \notin Nodes
      ELSE /\ v \in validValues
           /\ rowNode[v] = Owner[v]
           /\ v \in written \/ rowData[v] = ozwValues[v]

\* A filled row never names a node that checkNodeId would refuse: values come
\* after their node and never outlive it, in any order of reports.
RowsNameValidNodes == \A v \in Values : rowNode[v] \in Nodes => rowNode[v] \in validNodes

\* "technically, this shouldn't be required... but just in case" says
\* pvt_nodeRemoved of delNodeValues: a row whose key is not in m_validValues
\* would be the case it guards against, and there is none.
RowsHaveKeys == \A v \in Values : rowNode[v] # None => v \in validValues

\* RowsAreListed: whatever the models show of a value, the id lists that guard
\* every command know: each row's key, and the node that a filled row names.
RowsAreListed == RowsHaveKeys /\ RowsNameValidNodes

\* homeId() says whether commands may be sent: when it is 0 no node or value
\* of the closed network is left in the models, and it follows the driver.
HomeIdGuardsModels ==
    /\ homeId = running
    /\ ~homeId /\ filling = None => validNodes = {} /\ \A v \in Values : rowNode[v] = None
    /\ Quiet => (homeId <=> driver = "ready")

\* open() called again while open, or after a failed AddDriver, never connects
\* the slots a second time (every report would be handled twice), and a driver
\* never runs unwatched.
WatchedOnce == slots <= 1 /\ (driver # "none" => slots = 1 /\ serialPort)

\* A removed node disappears from the models unless the library brings it back.
RemovedNodesLeave ==
    \A n \in Nodes : ozwNodes[n] = None ~> (n \notin validNodes \/ ozwNodes[n] # None)

\* close() ends the network: the events that were waiting when it disconnected
\* the signals are still handled, and they clear homeId and the models.
CloseEndsNetwork ==
    closing ~> (~homeId /\ validNodes = {} /\ \A v \in Values : rowNode[v] = None)

-----------------------------------------------------------------------------
(* The inductive invariant behind these properties: what the events still  *)
(* waiting in the queue will do to the mirror.                             *)

Adds(m, n) == m.type = "nodeAdded" /\ m.id = n
Removes(m, n) == m.type \in DownTypes \/ (m.type = "nodeRemoved" /\ m.id = n)
Touches(m, n) == Adds(m, n) \/ Removes(m, n)

\* Before event i is handled, no event / event j was the last about node n.
Untouched(n, i) == \A k \in 1..(i - 1) : ~Touches(queue[k], n)
LastTouch(n, j, i) == Touches(queue[j], n) /\ \A k \in (j + 1)..(i - 1) : ~Touches(queue[k], n)

\* Node n will be valid when event i is handled.
ValidAt(n, i) ==
    /\ Untouched(n, i) => n \in validNodes
    /\ \A j \in 1..(i - 1) : LastTouch(n, j, i) => Adds(queue[j], n)

\* Node n will not be valid when event i is handled.
GoneAt(n, i) ==
    /\ Untouched(n, i) => n \notin validNodes
    /\ \A j \in 1..(i - 1) : LastTouch(n, j, i) => Removes(queue[j], n)

LinkInv ==
    /\ slots \in {0, 1}
    /\ closing => driver = "none" /\ slots = 1
    /\ driver # "none" => slots = 1 /\ serialPort
    /\ driver # "ready" => \A n \in Nodes : ozwNodes[n] = None
    /\ \A v \in Values : ozwValues[v] # None => ozwNodes[Owner[v]] # None

\* Once every waiting event is handled the mirror has the library's nodes.
PresenceInv ==
    \A n \in Nodes : IF ozwNodes[n] # None THEN ValidAt(n, Len(queue) + 1)
                                           ELSE GoneAt(n, Len(queue) + 1)

\* A row's stage is the library's unless an event that will refresh it waits.
StageInv ==
    \A n \in Nodes :
      /\ nodeRows[n] = None <=> n \notin validNodes
      /\ ozwNodes[n] # None /\ (\A i \in 1..Len(queue) :
            ~Touches(queue[i], n) /\ queue[i] # [type |-> "nodeInfo", id |-> n])
          => nodeRows[n] = ozwNodes[n]

\* A value is reported only between the reports of its node.
OrderInv ==
    \A i \in 1..Len(queue) : queue[i].type = "valueAdded" => ValidAt(Owner[queue[i].id], i)

\* The row being filled has its key, and its node is valid.
FillInv == filling # None => Owner[filling] \in validNodes /\ filling \in validValues

IInv == TypeOK /\ LinkInv /\ PresenceInv /\ StageInv /\ OrderInv /\ FillInv
          /\ RowsHaveKeys /\ RowsNameValidNodes
=============================================================================
