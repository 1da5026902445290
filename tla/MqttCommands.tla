---------------------------- MODULE MqttCommands -----------------------------
(***************************************************************************)
(* MqttCommands: what a client may ask of the network through MQTT, and    *)
(* what else asks the library: getters, statistics, edits of node names.   *)
(*                                                                         *)
(* Each of the 39 commands has a topic of its own.  messageReceived        *)
(* checks that the required fields are there, processMessage checks the    *)
(* node or value against the models of the mirror and calls QTOZWManager,  *)
(* which checks its own lists and homeId() before it calls the library;    *)
(* the answer goes to the event topic of the command.  All of it is one    *)
(* step of the main thread and sees only the mirror (OZWManager): the      *)
(* library may have lost the node meanwhile, and then it throws or refuses.*)
(*                                                                         *)
(* Commands with the same checks and the same use of the result are one    *)
(* kind.  The association commands are nodeCommands whose table is         *)
(* in Associations.  Answers need a connection, as do messages.            *)
(***************************************************************************)
EXTENDS OZWManager

CONSTANTS
    Numbers,    \* what a message may have as its node
    Narrow,     \* the node that number names as a quint8; None if it names none
    NotUint,    \* numbers that pass as a JSON number but not as a Uint
    Kinds       \* bound: types and ReadOnly flags that values may have

ASSUME CommandsAssumption ==
    /\ Narrow \in [Numbers -> Nodes \cup {None}]
    /\ NotUint \subseteq Numbers
    /\ "network" \notin Nodes \cup Values \cup {None}

\* The JSON that setValue takes for each type; "Schedule" is not done yet.
JsonOf == [Bool |-> "bool", Button |-> "bool", Byte |-> "uint", Short |-> "uint", Int |-> "uint",
           List |-> "uint", Decimal |-> "double", Raw |-> "string", String |-> "string", BitSet |-> "array"]

Types == DOMAIN JsonOf \cup {"Schedule"}

ASSUME KindsAssumption == Kinds \subseteq [type : Types, readOnly : BOOLEAN]

VARIABLES
    types,      \* the Type and ReadOnly flag of each value, part of its key
    filled,     \* rows whose Type and flags columns are set
    handled     \* ghost: the command message handled by the last step

commandVars == <<vars, types, filled, handled>>

\* What "Value" may be: absent, of some JSON type, or of the right type but
\* beyond the range of a Byte or Short, not in the List or not in the BitSet.
Json == {"absent", "bool", "uint", "negative", "double", "string", "array", "outOfRange"}

\* The kind of command, the answers sent, whether its own check passed, what
\* the library was asked about, and whether it took it.
Handled(command, answers, checked, asked, taken) ==
    [command |-> command, answers |-> answers, checked |-> checked, asked |-> asked, taken |-> taken]

\* A command that does not come to the library.
Answered(command, answers) == Handled(command, answers, FALSE, None, FALSE)

Nothing == Answered("none", <<>>)

InitCommands ==
    /\ Init
    /\ types \in [Values -> Kinds]
    /\ filled = {}
    /\ handled = Nothing

\* Fault: a row that goes and comes back is taken for a filled one.
FillsForever == filled' = filled \cup {v \in Values : filling = v /\ filling' = None /\ ozwValues[v] # None}

\* Rows are filled at the end of pvt_valueAdded and emptied with their value.
\* A getter that throws half way leaves Type and flags as addValue made them.
Fills ==
    filled' = {v \in Values : rowNode'[v] # None /\
                 (v \in filled \/ (filling = v /\ filling' = None /\ ozwValues[v] # None))}

-----------------------------------------------------------------------------
(* The checks.                                                             *)

\* The handler of a message runs from the event loop; the events that
\* processNotification pumps inside close() do not include the broker's.
AtEventLoop == filling = None /\ ~closing

\* A number that is a Uint and, cut to 8 bits, has a row in the node model.
checkNode(x) == x \notin NotUint /\ Narrow[x] # None /\ nodeRows[Narrow[x]] # None

\* Fault: the key is looked for in m_validValues.
checkValueKnown(v) == v \in validValues

\* Fault: any number passes for a value's key.
checkValueAny(v) == v \in Values

\* The value model has a row for the key.
checkValue(v) == rowNode[v] # None

\* QTOZWManager_Internal's own.
checkHomeId == homeId
checkNodeId(n) == n \in validNodes
checkValueKey(v) == v \in validValues

\* What the library may answer: it takes a request only for what it has.
NetworkTakes == IF driver = "ready" THEN BOOLEAN ELSE {FALSE}
NodeTakes(n) == IF n \in Nodes /\ ozwNodes[n] # None THEN BOOLEAN ELSE {FALSE}
ValueTakes(v) == IF ozwValues[v] # None THEN BOOLEAN ELSE {FALSE}

Answer(ok) == IF ok THEN "ok" ELSE "failed"

\* Fault: the error is answered and the command goes on.
processMessageGoesOn(command, checked, guard, subject, takes, tells) ==
    \E taken \in IF guard THEN takes ELSE {FALSE} :
      handled' = Handled(command, (IF checked THEN <<>> ELSE <<"failed">>) \o <<Answer(tells => taken)>>,
                         checked, IF guard THEN subject ELSE None, taken)

\* The common shape of processMessage: an error if its check fails, else the
\* manager's guard and the library.  A manager's function without a result, or
\* one whose result is not used (tells is FALSE), is always answered "ok".
processMessage(command, checked, guard, subject, takes, tells) ==
    IF checked
    THEN \E taken \in IF guard THEN takes ELSE {FALSE} :
           handled' = Handled(command, <<Answer(tells => taken)>>, TRUE, IF guard THEN subject ELSE None, taken)
    ELSE handled' = Answered(command, <<"failed">>)

-----------------------------------------------------------------------------
(* The handlers.                                                           *)

\* A message that is not JSON, not an object, or lacks a required field or has
\* one of another type.
malformed ==
    /\ AtEventLoop
    /\ handled' = Answered("malformed", <<"error">>)
    /\ UNCHANGED <<vars, types, filled>>

\* ping and getpollinterval answer by themselves.
localCommand ==
    /\ AtEventLoop
    /\ handled' = Answered("local", <<"ok">>)
    /\ UNCHANGED <<vars, types, filled>>

\* tells: addnode, cancelcontrollercommand, downloadlatestmfsrevision.  Else:
\* softresetcontroller, hardresetcontroller, healnetwork, testnetwork,
\* removenode, checklatestmfsrevision, setpollinterval.
networkCommand(tells) ==
    /\ AtEventLoop
    /\ processMessage(IF tells THEN "network" ELSE "networkVoid", TRUE, checkHomeId, "network", NetworkTakes, tells)
    /\ UNCHANGED <<vars, types, filled>>

\* tells: refreshnodeinfo, requestnodestate, requestnodedynamic, removefailednode,
\* hasnodefailed, isnodefailed, requestnodeneighborupdate, assignreturnroute,
\* sendnodeinformation, replacefailednode, requestnetworkupdate,
\* checklatestconfigfilerevision, downloadlatestconfigfilerevision.  Else:
\* requestconfigparam, requestallconfigparam, healnetworknode, testnetworknode,
\* syncronisenodeneighbors.
nodeCommand(x, tells) ==
    /\ AtEventLoop
    /\ LET n == Narrow[x] IN
         processMessage(IF tells THEN "node" ELSE "nodeVoid",
                        checkNode(x), checkHomeId /\ checkNodeId(n), n, NodeTakes(n), tells)
    /\ UNCHANGED <<vars, types, filled>>

\* No return after "Invalid Node Number": the manager is called all the same.
\* Read as a Uint, a number that is none is whatever its memory holds.
deleteAllReturnRoute(x) ==
    /\ AtEventLoop
    /\ \E n \in IF x \in NotUint THEN Nodes \cup {None} ELSE {Narrow[x]} :
         LET guard == checkHomeId /\ checkNodeId(n) IN
           \E taken \in IF guard THEN NodeTakes(n) ELSE {FALSE} :
             handled' = Handled("deleteAllReturnRoute",
                                IF checkNode(x) THEN <<Answer(taken)>> ELSE <<"failed", Answer(taken)>>,
                                checkNode(x), IF guard THEN n ELSE None, taken)
    /\ UNCHANGED <<vars, types, filled>>

\* refreshvalue asks for homeId() first; enablepoll and disablepoll do not.
valueCommand(v, asksHomeId) ==
    /\ AtEventLoop
    /\ processMessage("value", checkValue(v), (asksHomeId => checkHomeId) /\ checkValueKey(v), v, ValueTakes(v), TRUE)
    /\ UNCHANGED <<vars, types, filled>>

openCommand(addDriverOK) ==
    /\ open(addDriverOK)
    /\ handled' = Answered("open", <<Answer(slots = 0 /\ addDriverOK)>>)
    /\ UNCHANGED <<types, filled>>

\* Nothing to remove: RemoveDriver and RemoveWatcher refuse.
closeRefused ==
    /\ AtEventLoop /\ slots = 0
    /\ handled' = Answered("close", <<"failed">>)
    /\ UNCHANGED <<vars, types, filled>>

\* close() returned to its command.  It begins with close, in Mirror, whoever
\* called it; another caller gets no answer.
closeCommand ==
    /\ closeFinish
    /\ handled' = Answered("close", <<"ok">>)
    /\ UNCHANGED <<types, filled>>

-----------------------------------------------------------------------------
(* setvalue.                                                               *)

\* Type and ReadOnly flag as the row shows them: a row that is not filled may
\* have the defaults, a Bool that may be written.
RowTypes(v) == IF v \in filled THEN {types[v]}
               ELSE [type : {"Bool", types[v].type}, readOnly : {FALSE, types[v].readOnly}]

\* What is refused with an answer, after the row said t.
Refuses(t, json) == json = "absent" \/ t.readOnly \/ (t.type # "Schedule" /\ json # JsonOf[t.type])

setValueRefused(v, json) ==
    /\ AtEventLoop
    /\ checkValue(v) => \E t \in RowTypes(v) : Refuses(t, json)
    /\ handled' = Answered("setValue", <<"failed">>)
    /\ UNCHANGED <<vars, types, filled>>

\* A Schedule is dropped without an answer.
setValueSchedule(v, json) ==
    /\ AtEventLoop /\ checkValue(v)
    /\ \E t \in RowTypes(v) : t.type = "Schedule" /\ ~Refuses(t, json)
    /\ handled' = Answered("setSchedule", <<>>)
    /\ UNCHANGED <<vars, types, filled>>

\* QTOZW_ValueIds::setData stores and signals what differs from the row; the
\* variants of Lists and BitSets always differ.
Changes(t, v, d) == t.type \in {"List", "BitSet"} \/ rowData[v] # d

\* pvt_valueModelDataChanged: a BitSet is sent if a bit of its mask (here all
\* bits) differs from the library's, a Schedule never; the library's answer is
\* not used.
Sends(v, d) == types[v].type # "Schedule" /\ (types[v].type = "BitSet" => ozwValues[v] # d)

\* The row after mqttpublisher::setValue: checkValue alone says that there is one.
setDataOfRow(v, d) ==
    /\ IF rowData[v] = d THEN UNCHANGED <<rowData, written>>
       ELSE /\ rowData' = [rowData EXCEPT ![v] = d]
            /\ written' = written \cup {v}
    /\ UNCHANGED <<ozwVars, queue, linkVars, homeId, nodeVars, validValues, rowNode, filling, running>>

setValue(v, json, d) ==
    /\ AtEventLoop /\ checkValue(v)
    /\ \E t \in RowTypes(v) :
         LET asks == Changes(t, v, d) /\ Sends(v, d) IN
           /\ t.type # "Schedule" /\ ~Refuses(t, json)
           /\ \E taken \in IF asks THEN ValueTakes(v) ELSE {FALSE} :
                handled' = Handled("setValue", <<"ok">>, TRUE, IF asks THEN v ELSE None, taken)
    /\ setDataOfRow(v, d)
    /\ UNCHANGED <<types, filled>>

-----------------------------------------------------------------------------
(* What asks the library besides the commands.                             *)

\* A call that nobody answers on MQTT: the manager's guard and the library.
Reads(command, checked, guard, subject, takes) ==
    /\ \E taken \in IF guard THEN takes ELSE {FALSE} :
         handled' = Handled(command, <<>>, checked, IF guard THEN subject ELSE None, taken)
    /\ UNCHANGED <<vars, types, filled>>

\* A remote client asks for the controller, the SUC, the library's version and
\* type, the length of the send queue, the path of the serial port ...
networkGetter ==
    AtEventLoop /\ Reads("get", FALSE, checkHomeId, "network", NetworkTakes)

\* ... metadata, picture, query stage or neighbours of any node ...
nodeGetter(n) ==
    AtEventLoop /\ Reads("get", FALSE, checkHomeId /\ checkNodeId(n), n, NodeTakes(n))

\* ... labels, units, limits and flags of any value ...
valueGetter(v) ==
    AtEventLoop /\ Reads("get", FALSE, checkHomeId /\ checkValueKey(v), v, ValueTakes(v))

\* ... or the parts of its ValueID, which the key and homeId() tell.
keyGetter(v) ==
    AtEventLoop /\ Reads("get", FALSE, checkHomeId /\ checkValueKey(v), v, {TRUE})

\* Fault: statistics are asked for the nodes the library knows.
StatsNodesKnown == {n \in Nodes : ozwNodes[n] # None}

\* doStats goes through the rows of the node model.
StatsNodes == {n \in Nodes : nodeRows[n] # None}

\* The timer fires, also while close() pumps events: statistics of the driver
\* and of every node with a row.  handled tells one of the calls.
doStats ==
    /\ filling = None
    /\ \/ Reads("stats", TRUE, checkHomeId, "network", NetworkTakes)
       \/ \E n \in StatsNodes : Reads("nodeStats", TRUE, checkHomeId /\ checkNodeId(n), n, NodeTakes(n))

\* An application changes the name or location of a row of the node model, and
\* pvt_nodeModelDataChanged tells the library, without asking for homeId() or
\* m_validNodes.  An equal name changes nothing.
setNodeData(n) ==
    /\ AtEventLoop /\ nodeRows[n] # None
    /\ Reads("nodeData", TRUE, TRUE, n, NodeTakes(n))

-----------------------------------------------------------------------------
\* Every other step: the library, the slots, and clients that are not MQTT's.
Mirror ==
    /\ Next
    /\ Fills
    /\ handled' = Nothing
    /\ UNCHANGED types

Command ==
    \/ malformed \/ localCommand \/ closeRefused \/ closeCommand
    \/ \E yes \in BOOLEAN : networkCommand(yes) \/ openCommand(yes)
    \/ \E x \in Numbers : deleteAllReturnRoute(x) \/ \E tells \in BOOLEAN : nodeCommand(x, tells)
    \/ \E v \in Values, asksHomeId \in BOOLEAN : valueCommand(v, asksHomeId)
    \/ \E v \in Values, json \in Json : setValueRefused(v, json) \/ setValueSchedule(v, json)
    \/ \E v \in Values, json \in Json, d \in Data : setValue(v, json, d)
    \/ networkGetter \/ doStats
    \/ \E n \in Nodes : nodeGetter(n) \/ setNodeData(n)
    \/ \E v \in Values : valueGetter(v) \/ keyGetter(v)

NextCommands == Mirror \/ Command

SpecCommands == InitCommands /\ [][NextCommands]_commandVars

-----------------------------------------------------------------------------
(* Properties.                                                             *)

\* The type invariant: the mirror's, filled rows exist, and a message is
\* answered at most twice.
TypeOKCommands ==
    /\ TypeOK
    /\ types \in [Values -> Kinds]
    /\ filled \subseteq {v \in Values : rowNode[v] # None}
    /\ handled.answers \in {<<>>, <<"ok">>, <<"failed">>, <<"error">>, <<"failed", "ok">>, <<"failed", "failed">>}
    /\ handled.checked \in BOOLEAN /\ handled.taken \in BOOLEAN
    /\ handled.asked \in Nodes \cup Values \cup {"network", None}

\* Commands leave the manager a behaviour of OZWManager: what a handler does to
\* the mirror is what a client of the models may do, and all that is proved of
\* the mirror holds with MQTT clients at work.
MirrorSpec == Init /\ [][Next]_vars

\* The models that checkNode, checkValue and doStats look at and the lists and
\* homeId() that the manager looks at never disagree: a command for a node or
\* value whose check passed is not refused by the manager, in whatever order
\* nodes, values and drivers come and go, and no node of the model goes without
\* statistics.  Only setvalue may leave the library alone.
CheckedIsAsked ==
    handled.command \in {"node", "nodeVoid", "value", "nodeStats"} /\ handled.checked => handled.asked # None

\* enablepoll, disablepoll, setvalue and the edits of node names use homeId()
\* without a look at it: none of them, nor any other command or call, reaches
\* the library while homeId() is 0 and no network is open.
NoNetworkNoCall == handled.asked # None => homeId

\* Every message gets its one answer and nothing else is answered, but for the two oversights of the code:
\* none for a Schedule, two for deleteallreturnroute with a wrong node.
AnsweredOnce ==
    CASE handled.command \in {"none", "setSchedule", "get", "stats", "nodeStats", "nodeData"} -> handled.answers = <<>>
      [] handled.command = "deleteAllReturnRoute" /\ ~handled.checked -> Len(handled.answers) = 2
      [] OTHER -> Len(handled.answers) = 1

=============================================================================
