---------------------------- MODULE MqttPublisher ----------------------------
(***************************************************************************)
(* mqttpublisher: the part of ozwdaemon that shows the network to MQTT     *)
(* clients, as messages the broker retains.                                *)
(*                                                                         *)
(* The publisher runs on the main thread and its slots are connected       *)
(* directly to the signals of QTOZWManager, so a pvt_ slot of the manager  *)
(* and the slot of the publisher it triggers are one step.  It keeps a     *)
(* JSON document for each node and value and publishes it when a signal    *)
(* says so; QMqttClient drops what is published while it is not connected. *)
(* When a daemon connects it is sent what the broker retains and removes   *)
(* it, message by message, while it may be publishing already.             *)
(*                                                                         *)
(* Data stands for what a value holds; the text of nodes, instances,       *)
(* classes and associations is left out.  The broker and the MQTT client   *)
(* library are external.  A fill of a value row that throws half way is    *)
(* left out here.                                                          *)
(***************************************************************************)
EXTENDS Naturals, FiniteSets

CONSTANTS
    Nodes,      \* Z-Wave node ids
    Values,     \* ValueID keys
    Groups,     \* association group numbers
    NodeOf,     \* Node column of a value
    InstanceOf, \* Instance column of a value
    ClassOf,    \* CommandClass column of a value
    BitSets,    \* the values of type BitSet
    Data,       \* what a value may hold
    None,       \* no row, no document, nothing retained
    MaxStarts   \* bound: starts of the daemon

ASSUME ConstantsAssumption ==
    /\ NodeOf \in [Values -> Nodes]
    /\ BitSets \subseteq Values
    /\ None \notin Data \cup {"emptied", "text"}
    /\ "emptied" \notin Data
    /\ MaxStarts \in Nat \ {0}

VARIABLES
    \* the manager
    driver,        \* "open", "ready" or "down"
    nodes,         \* node model: the nodes that have a row
    valueRow,      \* value model: the row of a value
    edited,        \* ghost: rows a client wrote, not yet told again by the library; no BitSets
    \* mqttpublisher
    running,       \* the process runs
    client,        \* m_client->state()
    m_values,      \* the Value of each value document
    m_assoications,\* groups published, by node (spelt as in the code)
    m_ozwstatus,   \* Status of the status document
    toClean,       \* topics whose old message is on its way to cleanTopics
    \* the broker
    retained,      \* the retained message of each topic
    retainedStatus,\* the Status of the retained status message
    \* bound
    starts

managerVars == <<driver, nodes, valueRow, edited>>
documents == <<m_values, m_assoications>>
processVars == <<running, client, toClean, starts>>
vars == <<managerVars, documents, m_ozwstatus, processVars, retained, retainedStatus>>

NodeTopic(n) == <<"node", n>>
InstanceTopic(v) == <<"instance", NodeOf[v], InstanceOf[v]>>
ClassTopic(v) == <<"class", NodeOf[v], InstanceOf[v], ClassOf[v]>>
ValueTopic(v) == <<"value", v>>
AssociationTopic(n, g) == <<"association", n, g>>

Topics == {NodeTopic(n) : n \in Nodes} \cup {AssociationTopic(n, g) : n \in Nodes, g \in Groups}
            \cup UNION {{ValueTopic(v), InstanceTopic(v), ClassTopic(v)} : v \in Values}

\* "queried" and "down" each stand for three statuses of a kind.  "Ready" is
\* never published: readyChanged is emitted in the daemon's constructor, before
\* setOZWDaemon connects the publisher to it.
Statuses == {"starting", "driverReady", "queried", "down"}
DownTypes == {"driverFailed", "driverReset", "driverRemoved"}

Init ==
    /\ driver = "down"
    /\ nodes = {}
    /\ valueRow = [v \in Values |-> None]
    /\ edited = {}
    /\ running = FALSE
    /\ client = "disconnected"
    /\ m_values = [v \in Values |-> None]
    /\ m_assoications = [n \in Nodes |-> {}]
    /\ m_ozwstatus = "starting"
    /\ toClean = {}
    /\ retained = [t \in Topics |-> None]
    /\ retainedStatus = None
    /\ starts = 0

-----------------------------------------------------------------------------
(* Publishing.                                                             *)

Connected == client = "connected"

\* QMqttClient::publish with the retain flag; messages is topic |-> message.
Publish(messages) ==
    retained' = IF Connected
                THEN [t \in Topics |-> IF t \in DOMAIN messages THEN messages[t] ELSE retained[t]]
                ELSE retained

\* A document whose text is left out, and the document of a value.
PublishText(topic) == Publish([t \in {topic} |-> "text"])
PublishValue(v, m) == Publish([t \in {ValueTopic(v)} |-> m])

\* An empty retained message removes what the broker holds.
Clear(topics) == Publish([t \in topics |-> None])

\* Fault: the document is changed, the message is sent by the next update.
sendStatusUpdateLate(s) ==
    /\ m_ozwstatus' = s
    /\ retainedStatus' = IF Connected THEN m_ozwstatus ELSE retainedStatus

sendStatusUpdate(s) ==
    /\ m_ozwstatus' = s
    /\ retainedStatus' = IF Connected THEN s ELSE retainedStatus

\* Fault: whatever list a document holds is moved out of it.
EncodedMoved(v, d) == IF m_values[v] # None THEN "emptied" ELSE d

\* mqttValueIDModel::encodeValue: the document's Value after it.  The list of a
\* BitSet that exists already is moved out of the document to be compared.
Encoded(v, d) == IF v \in BitSets /\ m_values[v] # None THEN "emptied" ELSE d

\* Fault: the document is compared after it was set: only a new one changes.
EncodeChangesNever(v, d) == m_values[v] = None

\* ... and whether it says that something changed.
EncodeChanges(v, d) == m_values[v] # d /\ m_values[v] # "emptied"

-----------------------------------------------------------------------------
(* The manager's slots, with the publisher's slot each of them triggers.   *)

manufacturerSpecificDBReady ==
    /\ running
    /\ sendStatusUpdate(m_ozwstatus)
    /\ UNCHANGED <<managerVars, documents, processVars, retained>>

\* pvt_driverReady emits started and driverReady.
driverReady ==
    /\ running /\ driver = "open"
    /\ driver' = "ready"
    /\ sendStatusUpdate("driverReady")
    /\ UNCHANGED <<nodes, valueRow, edited, documents, processVars, retained>>

\* driverAllNodesQueried, driverAllNodesQueriedSomeDead, driverAwakeNodesQueried.
driverQueried ==
    /\ running /\ driver = "ready"
    /\ sendStatusUpdate("queried")
    /\ UNCHANGED <<managerVars, documents, processVars, retained>>

\* nodeNew and nodeAdded; nodeNaming, nodeProtocolInfo, nodeQueriesComplete and
\* nodeEssentialNodeQueriesComplete do the same for a node that has its row.
nodeAdded(n) ==
    /\ running /\ driver = "ready"
    /\ nodes' = nodes \cup {n}
    /\ PublishText(NodeTopic(n))
    /\ UNCHANGED <<driver, valueRow, edited, m_values, m_assoications, m_ozwstatus, processVars, retainedStatus>>

nodeGroupChanged(n, g) ==
    /\ running /\ n \in nodes
    /\ m_assoications' = [m_assoications EXCEPT ![n] = @ \cup {g}]
    /\ PublishText(AssociationTopic(n, g))
    /\ UNCHANGED <<managerVars, m_values, m_ozwstatus, processVars, retainedStatus>>

\* Instance and CommandClass topics are published again with each value.
valueAdded(v, d) ==
    /\ running /\ NodeOf[v] \in nodes
    /\ valueRow' = [valueRow EXCEPT ![v] = d]
    /\ edited' = edited \ {v}
    /\ m_values' = [m_values EXCEPT ![v] = Encoded(v, d)]
    /\ Publish([t \in {InstanceTopic(v), ClassTopic(v), ValueTopic(v)} |->
                    IF t = ValueTopic(v) THEN Encoded(v, d) ELSE "text"])
    /\ UNCHANGED <<driver, nodes, m_assoications, m_ozwstatus, processVars, retainedStatus>>

valueChanged(v, d) ==
    /\ running /\ valueRow[v] # None
    /\ valueRow' = [valueRow EXCEPT ![v] = d]
    /\ edited' = edited \ {v}
    /\ m_values' = [m_values EXCEPT ![v] = Encoded(v, d)]
    /\ IF EncodeChanges(v, d) THEN PublishValue(v, Encoded(v, d)) ELSE UNCHANGED retained
    /\ UNCHANGED <<driver, nodes, m_assoications, m_ozwstatus, processVars, retainedStatus>>

valueRefreshed(v, d) ==
    /\ running /\ valueRow[v] # None
    /\ valueRow' = [valueRow EXCEPT ![v] = d]
    /\ edited' = edited \ {v}
    /\ m_values' = [m_values EXCEPT ![v] = Encoded(v, d)]
    /\ PublishValue(v, Encoded(v, d))
    /\ UNCHANGED <<driver, nodes, m_assoications, m_ozwstatus, processVars, retainedStatus>>

\* A client, here or at a replica, sets a value: setData stores it in the row and
\* no signal of the publisher's tells of it; the topic waits for the library.  Of
\* BitSets nothing is published that depends on the row: left out.
setData(v, d) ==
    /\ running /\ v \notin BitSets /\ valueRow[v] \notin {None, d}
    /\ valueRow' = [valueRow EXCEPT ![v] = d]
    /\ edited' = edited \cup {v}
    /\ UNCHANGED <<driver, nodes, documents, m_ozwstatus, processVars, retained, retainedStatus>>

\* Fault: other values are looked for among those of the same class only.
RemovedWithClass(gone) ==
    LET left == {w \in Values \ gone : m_values[w] # None /\ valueRow[w] # None}
    IN  {ValueTopic(v) : v \in gone}
          \cup ({ClassTopic(v) : v \in gone} \ {ClassTopic(w) : w \in left})
          \cup {InstanceTopic(v) : v \in {u \in gone : ClassTopic(u) \notin {ClassTopic(w) : w \in left}}}

\* The topics valueRemoved clears when the values gone are removed one after the
\* other: CommandClass and Instance topics go with the last value under them.
RemovedWith(gone) ==
    LET left == {w \in Values \ gone : m_values[w] # None /\ valueRow[w] # None}
    IN  {ValueTopic(v) : v \in gone}
          \cup ({ClassTopic(v) : v \in gone} \ {ClassTopic(w) : w \in left})
          \cup ({InstanceTopic(v) : v \in gone} \ {InstanceTopic(w) : w \in left})

DropValues(gone) ==
    /\ m_values' = [v \in Values |-> IF v \in gone THEN None ELSE m_values[v]]
    /\ valueRow' = [v \in Values |-> IF v \in gone THEN None ELSE valueRow[v]]
    /\ edited' = edited \ gone

valueRemoved(v) ==
    /\ running /\ valueRow[v] # None
    /\ Clear(RemovedWith({v}))
    /\ DropValues({v})
    /\ UNCHANGED <<driver, nodes, m_assoications, m_ozwstatus, processVars, retainedStatus>>

\* Fault: the groups are forgotten before their topics are cleared.
DropNodesGroupsFirst(ns) ==
    LET gone == {v \in Values : valueRow[v] # None /\ NodeOf[v] \in ns}
    IN  /\ Clear(RemovedWith(gone) \cup {NodeTopic(n) : n \in ns})
        /\ DropValues(gone)
        /\ nodes' = nodes \ ns
        /\ m_assoications' = [n \in Nodes |-> IF n \in ns THEN {} ELSE m_assoications[n]]

\* pvt_nodeRemoved and pvt_nodeReset of each node of ns: their values, their
\* topics, their rows.  The node documents are looked for with the condition
\* inverted, so that they stay in m_nodes.
DropNodes(ns) ==
    LET gone == {v \in Values : valueRow[v] # None /\ NodeOf[v] \in ns}
        groupsOf(n) == {AssociationTopic(n, g) : g \in m_assoications[n]}
    IN  /\ Clear(RemovedWith(gone) \cup UNION {{NodeTopic(n)} \cup groupsOf(n) : n \in ns})
        /\ DropValues(gone)
        /\ nodes' = nodes \ ns
        /\ m_assoications' = [n \in Nodes |-> IF n \in ns THEN {} ELSE m_assoications[n]]

nodeRemoved(n) ==
    /\ running /\ n \in nodes
    /\ DropNodes({n})
    /\ UNCHANGED <<driver, m_ozwstatus, processVars, retainedStatus>>

\* pvt_driverFailed, pvt_driverReset and pvt_driverRemoved: every node goes
\* first, then stopped and the status of that name are published.
driverDown(t) ==
    /\ running /\ driver # "down"
    /\ t = "driverFailed" => driver = "open"
    /\ t = "driverReset" => driver = "ready"
    /\ DropNodes(nodes)
    /\ driver' = IF t = "driverReset" THEN "open" ELSE "down"
    /\ sendStatusUpdate("down")
    /\ UNCHANGED processVars

-----------------------------------------------------------------------------
(* The process, its connection and the broker.                             *)

\* main: the publisher starts to connect, then startOZW() opens the port and
\* "starting" is published, all before the event loop runs.
start ==
    /\ ~running /\ starts < MaxStarts
    /\ running' = TRUE
    /\ client' = "connecting"
    /\ driver' = "open"
    /\ sendStatusUpdate("starting")
    /\ starts' = starts + 1
    /\ UNCHANGED <<nodes, valueRow, edited, documents, toClean, retained>>

\* A client's open command; open() emits starting.
open ==
    /\ running /\ driver = "down"
    /\ driver' = "open"
    /\ sendStatusUpdate("starting")
    /\ UNCHANGED <<nodes, valueRow, edited, documents, processVars, retained>>

\* updateLogStateChange: subscribe to '#'; the broker sends what it retains.
connected ==
    /\ running /\ client = "connecting"
    /\ client' = "connected"
    /\ toClean' = {t \in Topics : retained[t] # None}
    /\ UNCHANGED <<managerVars, documents, m_ozwstatus, running, starts, retained, retainedStatus>>

\* The message that came is older than this process: clear its topic.
cleanTopics(t) ==
    /\ running /\ t \in toClean
    /\ Clear({t})
    /\ toClean' = toClean \ {t}
    /\ UNCHANGED <<managerVars, documents, m_ozwstatus, running, client, starts, retainedStatus>>

\* The broker publishes the will; the client never connects again.
disconnected ==
    /\ running /\ client # "disconnected"
    /\ client' = "disconnected"
    /\ toClean' = {}
    /\ retainedStatus' = IF Connected THEN "Offline" ELSE retainedStatus
    /\ UNCHANGED <<managerVars, documents, m_ozwstatus, running, starts, retained>>

\* The process ends: the destructor publishes "Offline", or the broker the will.
exit ==
    /\ running
    /\ running' = FALSE
    /\ client' = "disconnected"
    /\ driver' = "down"
    /\ nodes' = {}
    /\ valueRow' = [v \in Values |-> None]
    /\ edited' = {}
    /\ m_values' = [v \in Values |-> None]
    /\ m_assoications' = [n \in Nodes |-> {}]
    /\ toClean' = {}
    /\ retainedStatus' = IF Connected THEN "Offline" ELSE retainedStatus
    /\ UNCHANGED <<m_ozwstatus, starts, retained>>

Next ==
    \/ start \/ open \/ connected \/ disconnected \/ exit
    \/ \E t \in Topics : cleanTopics(t)
    \/ manufacturerSpecificDBReady \/ driverReady
    \/ driverQueried
    \/ \E t \in DownTypes : driverDown(t)
    \/ \E n \in Nodes, g \in Groups : nodeGroupChanged(n, g)
    \/ \E n \in Nodes : nodeAdded(n) \/ nodeRemoved(n)
    \/ \E v \in Values, d \in Data : valueAdded(v, d) \/ valueChanged(v, d) \/ valueRefreshed(v, d) \/ setData(v, d)
    \/ \E v \in Values : valueRemoved(v)

Spec == Init /\ [][Next]_vars

-----------------------------------------------------------------------------
(* Properties.                                                             *)

\* The type invariant: rows, documents and messages of the publisher and the
\* broker, by kind of topic; only a BitSet's list can be emptied.
TypeOK ==
    /\ driver \in {"open", "ready", "down"}
    /\ nodes \subseteq Nodes
    /\ valueRow \in [Values -> Data \cup {None}]
    /\ edited \subseteq {v \in Values \ BitSets : valueRow[v] # None}
    /\ running \in BOOLEAN
    /\ client \in {"connecting", "connected", "disconnected"}
    /\ m_values \in [Values -> Data \cup {None, "emptied"}]
    /\ \A v \in Values \ BitSets : m_values[v] # "emptied"
    /\ m_assoications \in [Nodes -> SUBSET Groups]
    /\ m_ozwstatus \in Statuses
    /\ toClean \subseteq Topics
    /\ DOMAIN retained = Topics
    /\ \A n \in Nodes : retained[NodeTopic(n)] \in {None, "text"}
    /\ \A v \in Values : retained[ValueTopic(v)] \in Data \cup {None, "emptied"}
    /\ retainedStatus \in Statuses \cup {None, "Offline"}
    /\ starts \in 0..MaxStarts

\* The topics of the nodes and values the manager has.
Live ==
    {NodeTopic(n) : n \in nodes} \cup {AssociationTopic(n, g) : n \in nodes, g \in Groups}
      \cup UNION {{ValueTopic(v), ClassTopic(v), InstanceTopic(v)} : v \in {w \in Values : valueRow[w] # None}}

\* NoGhosts: while a daemon is connected the broker holds nothing of a node or a
\* value that is gone, but for old messages on their way to cleanTopics: what
\* nodeRemoved, valueRemoved and the reset of a driver take away leaves no
\* instance, class, value or association topic behind, even over a restart.
NoGhosts == Connected => \A t \in Topics : retained[t] # None => t \in Live \cup toClean

\* OnlyCleaningHides: what is shown of a node or value that stays is not taken
\* away by the removal of others (a class or an instance is cleared only with
\* the last value under it); only cleanTopics may clear the topic of a live one.
OnlyCleaningHides ==
    [][\A t \in Topics : retained[t] # None /\ retained'[t] = None /\ t \in Live' => t \in toClean \ toClean']_vars

\* ShownIsLatest: while connected, a value that is shown, but for BitSets and for
\* old messages, is shown with what the library said last: with what its row
\* holds, or its document while a client's edit awaits the library's report.
\* valueChanged leaves out the message when encodeValue finds the document
\* unchanged, edits change rows without a message, and documents outlive the
\* connection and the value may have gone and come back.
ShownIsLatest ==
    Connected => \A v \in Values \ BitSets :
        retained[ValueTopic(v)] # None /\ ValueTopic(v) \notin toClean =>
            retained[ValueTopic(v)] = IF v \in edited THEN m_values[v] ELSE valueRow[v]

\* StatusIsHonest: the broker shows the status of the daemon that is connected,
\* or none yet, and "Offline" or nothing when no daemon is connected.
StatusIsHonest == retainedStatus \in {None, "Offline"} \cup (IF Connected THEN {m_ozwstatus} ELSE {})

\* RetainedIsLatest: docs/MQTT.md says of the node and value topics that as long
\* as the status is one of the "queried" ones they are the latest data.
RetainedIsLatest ==
    Connected /\ retainedStatus = "queried" =>
        /\ \A v \in Values \ edited : valueRow[v] # None => retained[ValueTopic(v)] = valueRow[v]
        /\ \A n \in nodes : retained[NodeTopic(n)] # None

=============================================================================
