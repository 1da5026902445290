-------------------------- MODULE MqttCommandsProofs --------------------------
(***************************************************************************)
(* Proofs about MqttCommands, for any nodes, values and numbers in a       *)
(* message.  What a handler does to the mirror is a step of OZWManager, so *)
(* that MirrorInv holds with MQTT clients at work; and MirrorInv is what   *)
(* keeps the checks of the commands, which look at the models, and those   *)
(* of the manager, which looks at its lists and homeId(), in agreement.    *)
(***************************************************************************)
EXTENDS MqttCommands, OZWManagerProofs

\* All that the runs check of the commands.
CommandsInv == TypeOKCommands /\ CheckedIsAsked /\ NoNetworkNoCall /\ AnsweredOnce

-----------------------------------------------------------------------------
(* The mirror with MQTT clients.                                           *)

LEMMA CommandsAreClients == [NextCommands]_commandVars => [Next]_vars
<1> SUFFICES ASSUME [NextCommands]_commandVars PROVE [Next]_vars
  OBVIOUS
<1>1. CASE UNCHANGED commandVars
  BY <1>1 DEF commandVars
<1>2. CASE Mirror
  BY <1>2 DEF Mirror
<1>3. ASSUME NEW v \in Values, NEW json \in Json, NEW d \in Data, setValue(v, json, d)
      PROVE  [Next]_vars
  <2>1. filling = None /\ rowNode[v] # None /\ setDataOfRow(v, d)
    BY <1>3 DEF setValue, AtEventLoop, checkValue
  <2>2. CASE rowData[v] = d
    BY <2>1, <2>2 DEF setDataOfRow, vars, valueVars
  <2>3. CASE rowData[v] # d
    <3>1. setData(v, d)
      BY <2>1, <2>3 DEF setDataOfRow, setData
    <3>2. QED
      BY <3>1 DEF Next, Client
  <2>4. QED
    BY <2>2, <2>3
<1>4. ASSUME NEW yes \in BOOLEAN, openCommand(yes)
      PROVE  [Next]_vars
  BY <1>4 DEF openCommand, Next, Client
<1>5. CASE closeCommand
  BY <1>5 DEF closeCommand, Next, Client
<1>6. ASSUME NEW v \in Values, NEW json \in Json,
             setValueRefused(v, json) \/ setValueSchedule(v, json)
      PROVE  UNCHANGED vars
  BY <1>6 DEF setValueRefused, setValueSchedule
<1>7. ASSUME networkGetter \/ doStats \/ (\E n \in Nodes : nodeGetter(n) \/ setNodeData(n))
               \/ (\E v \in Values : valueGetter(v) \/ keyGetter(v))
      PROVE  UNCHANGED vars
  BY <1>7 DEF networkGetter, doStats, nodeGetter, setNodeData, valueGetter, keyGetter, Reads
<1>8. ASSUME malformed \/ localCommand \/ closeRefused
               \/ (\E yes \in BOOLEAN : networkCommand(yes))
               \/ (\E x \in Numbers : deleteAllReturnRoute(x) \/ \E tells \in BOOLEAN : nodeCommand(x, tells))
               \/ (\E v \in Values, asksHomeId \in BOOLEAN : valueCommand(v, asksHomeId))
      PROVE  UNCHANGED vars
  BY <1>8 DEF malformed, localCommand, closeRefused, networkCommand, deleteAllReturnRoute,
              nodeCommand, valueCommand
<1>9. CASE Command
  BY <1>3, <1>4, <1>5, <1>6, <1>7, <1>8, <1>9 DEF Command
<1>10. QED
  BY <1>1, <1>2, <1>9 DEF NextCommands

\* What is in a model is in the manager's list, and only while homeId() is not 0.
LEMMA ModelsAgree ==
    ASSUME MirrorInv
    PROVE  /\ \A n \in Nodes : nodeRows[n] # None => n \in validNodes /\ homeId
           /\ \A n \in validNodes : homeId
           /\ \A v \in Values : rowNode[v] # None => v \in validValues /\ homeId
           /\ homeId \in BOOLEAN
BY DEF MirrorInv, IInv, TypeOK, StageInv, RowsHaveKeys, HomeInv

-----------------------------------------------------------------------------
(* What a handler leaves in handled.                                       *)

\* The checked properties, of the record h that a step leaves.
Fine(h) ==
    /\ h.answers \in {<<>>, <<"ok">>, <<"failed">>, <<"error">>, <<"failed", "ok">>, <<"failed", "failed">>}
    /\ h.checked \in BOOLEAN /\ h.taken \in BOOLEAN
    /\ h.asked \in Nodes \cup Values \cup {"network", None}
    /\ h.command \in {"node", "nodeVoid", "value", "nodeStats"} /\ h.checked => h.asked # None
    /\ h.asked # None => homeId
    /\ CASE h.command \in {"none", "setSchedule", "get", "stats", "nodeStats", "nodeData"} -> h.answers = <<>>
         [] h.command = "deleteAllReturnRoute" /\ ~h.checked -> Len(h.answers) = 2
         [] OTHER -> Len(h.answers) = 1

LEMMA TakesAreBoolean ==
    /\ NetworkTakes \subseteq BOOLEAN
    /\ \A n : NodeTakes(n) \subseteq BOOLEAN
    /\ \A v : ValueTakes(v) \subseteq BOOLEAN
BY DEF NetworkTakes, NodeTakes, ValueTakes

\* An answer without a call of the library.
LEMMA AnsweredFine ==
    ASSUME NEW command \in {"malformed", "local", "open", "close", "setValue"},
           NEW answer \in {"ok", "failed", "error"}
    PROVE  Fine(Answered(command, <<answer>>))
BY DEF Fine, Answered, Handled

\* A call that nobody answers on MQTT.
LEMMA ReadsFine ==
    ASSUME NEW command \in {"get", "stats", "nodeStats", "nodeData"},
           NEW checked \in BOOLEAN, NEW taken \in BOOLEAN,
           NEW asked \in Nodes \cup Values \cup {"network", None},
           command = "nodeStats" => asked # None, asked # None => homeId
    PROVE  Fine(Handled(command, <<>>, checked, asked, taken))
BY DEF Fine, Handled

\* The one answer of processMessage.
LEMMA ProcessedFine ==
    ASSUME NEW command \in {"network", "networkVoid", "node", "nodeVoid", "value", "setValue",
                            "deleteAllReturnRoute"},
           NEW answer \in {"ok", "failed"}, NEW checked \in BOOLEAN, NEW taken \in BOOLEAN,
           NEW asked \in Nodes \cup Values \cup {"network", None},
           command \in {"node", "nodeVoid", "value"} /\ checked => asked # None,
           command = "deleteAllReturnRoute" => checked, asked # None => homeId
    PROVE  Fine(Handled(command, <<answer>>, checked, asked, taken))
BY DEF Fine, Handled

LEMMA NodeChecks ==
    ASSUME MirrorInv, NEW x \in Numbers
    PROVE  /\ checkNode(x) => /\ Narrow[x] \in Nodes /\ Narrow[x] # None
                              /\ checkHomeId /\ checkNodeId(Narrow[x])
           /\ checkNode(x) \in BOOLEAN
<1>1. Narrow[x] \in Nodes \cup {None}
  BY CommandsAssumption
<1>2. QED
  BY <1>1, ModelsAgree DEF checkNode, checkHomeId, checkNodeId

LEMMA NetworkCommandFine ==
    ASSUME MirrorInv, NEW tells \in BOOLEAN, networkCommand(tells)
    PROVE  Fine(handled')
<1> DEFINE c == IF tells THEN "network" ELSE "networkVoid"
<1>1. PICK taken \in IF checkHomeId THEN NetworkTakes ELSE {FALSE} :
        handled' = Handled(c, <<Answer(tells => taken)>>, TRUE, IF checkHomeId THEN "network" ELSE None, taken)
  BY DEF networkCommand, processMessage
<1> DEFINE answer == Answer(tells => taken)
           asked == IF checkHomeId THEN "network" ELSE None
<1>2. taken \in BOOLEAN
  BY <1>1, TakesAreBoolean
<1>3. answer \in {"ok", "failed"} /\ c \in {"network", "networkVoid"}
  BY DEF Answer
<1>4. asked \in {"network", None} /\ (asked # None => homeId)
  BY DEF checkHomeId
<1>5. handled' = Handled(c, <<answer>>, TRUE, asked, taken)
  BY <1>1
<1> HIDE DEF c, answer, asked
<1>6. QED
  BY <1>2, <1>3, <1>4, <1>5, ProcessedFine

LEMMA NodeCommandFine ==
    ASSUME MirrorInv, NEW x \in Numbers, NEW tells \in BOOLEAN, nodeCommand(x, tells)
    PROVE  Fine(handled')
<1> DEFINE c == IF tells THEN "node" ELSE "nodeVoid"
           n == Narrow[x]
<1>1. CASE checkNode(x)
  <2>1. n \in Nodes /\ n # None /\ checkHomeId /\ checkNodeId(n) /\ homeId
    BY <1>1, NodeChecks DEF checkHomeId
  <2>2. PICK taken \in NodeTakes(n) : handled' = Handled(c, <<Answer(tells => taken)>>, TRUE, n, taken)
    BY <1>1, <2>1 DEF nodeCommand, processMessage
  <2> DEFINE answer == Answer(tells => taken)
  <2>3. taken \in BOOLEAN /\ answer \in {"ok", "failed"} /\ c \in {"node", "nodeVoid"}
    BY TakesAreBoolean DEF Answer
  <2>4. handled' = Handled(c, <<answer>>, TRUE, n, taken)
    BY <2>2
  <2> HIDE DEF c, n, answer
  <2>5. QED
    BY <2>1, <2>3, <2>4, ProcessedFine
<1>2. CASE ~checkNode(x)
  <2>1. handled' = Handled(c, <<"failed">>, FALSE, None, FALSE)
    BY <1>2 DEF nodeCommand, processMessage, Answered
  <2>2. c \in {"node", "nodeVoid"}
    OBVIOUS
  <2> HIDE DEF c
  <2>3. QED
    BY <2>1, <2>2, ProcessedFine
<1>3. QED
  BY <1>1, <1>2

LEMMA ValueCommandFine ==
    ASSUME MirrorInv, NEW v \in Values, NEW asksHomeId \in BOOLEAN, valueCommand(v, asksHomeId)
    PROVE  Fine(handled')
<1>1. CASE checkValue(v)
  <2>1. checkHomeId /\ checkValueKey(v) /\ homeId /\ v # None
    BY <1>1, ModelsAgree, ConstantsAssumption DEF checkValue, checkHomeId, checkValueKey
  <2>2. PICK taken \in ValueTakes(v) : handled' = Handled("value", <<Answer(TRUE => taken)>>, TRUE, v, taken)
    BY <1>1, <2>1 DEF valueCommand, processMessage
  <2>3. taken \in BOOLEAN /\ Answer(TRUE => taken) \in {"ok", "failed"}
    BY TakesAreBoolean DEF Answer
  <2>4. QED
    BY <2>1, <2>2, <2>3, ProcessedFine
<1>2. CASE ~checkValue(v)
  <2>1. handled' = Handled("value", <<"failed">>, FALSE, None, FALSE)
    BY <1>2 DEF valueCommand, processMessage, Answered
  <2>2. QED
    BY <2>1, ProcessedFine
<1>3. QED
  BY <1>1, <1>2

\* The one command that answers twice, for a node that is not in the model.
LEMMA DeleteAllReturnRouteFine ==
    ASSUME MirrorInv, NEW x \in Numbers, deleteAllReturnRoute(x)
    PROVE  Fine(handled')
<1>1. PICK n \in Nodes \cup {None}, taken \in BOOLEAN :
        /\ taken \in IF checkHomeId /\ checkNodeId(n) THEN NodeTakes(n) ELSE {FALSE}
        /\ handled' = Handled("deleteAllReturnRoute",
                              IF checkNode(x) THEN <<Answer(taken)>> ELSE <<"failed", Answer(taken)>>,
                              checkNode(x), IF checkHomeId /\ checkNodeId(n) THEN n ELSE None, taken)
  <2>1. Narrow[x] \in Nodes \cup {None}
    BY CommandsAssumption
  <2>2. QED
    BY <2>1, TakesAreBoolean DEF deleteAllReturnRoute
<1> DEFINE a == IF checkHomeId /\ checkNodeId(n) THEN n ELSE None
<1>2. Answer(taken) \in {"ok", "failed"}
  BY DEF Answer
<1>3. a \in Nodes \cup {None} /\ (a # None => homeId)
  BY DEF checkHomeId
<1>4. CASE checkNode(x)
  <2>1. checkNode(x) = TRUE
    BY <1>4, NodeChecks
  <2>2. handled' = Handled("deleteAllReturnRoute", <<Answer(taken)>>, TRUE, a, taken)
    BY <1>1, <1>4, <2>1
  <2> HIDE DEF a
  <2>3. QED
    BY <1>2, <1>3, <2>2, ProcessedFine
<1>5. CASE ~checkNode(x)
  <2>1. checkNode(x) = FALSE
    BY <1>5, NodeChecks
  <2>2. handled' = Handled("deleteAllReturnRoute", <<"failed", Answer(taken)>>, FALSE, a, taken)
    BY <1>1, <1>5, <2>1
  <2> HIDE DEF a
  <2>3. QED
    BY <1>2, <1>3, <2>2 DEF Fine, Handled
<1>6. QED
  BY <1>4, <1>5

LEMMA SetValueFine ==
    ASSUME MirrorInv, NEW v \in Values, NEW json \in Json, NEW d \in Data, setValue(v, json, d)
    PROVE  Fine(handled')
<1>1. PICK t \in RowTypes(v) :
        \E taken \in IF Changes(t, v, d) /\ Sends(v, d) THEN ValueTakes(v) ELSE {FALSE} :
          handled' = Handled("setValue", <<"ok">>, TRUE, IF Changes(t, v, d) /\ Sends(v, d) THEN v ELSE None, taken)
  BY DEF setValue
<1> DEFINE a == IF Changes(t, v, d) /\ Sends(v, d) THEN v ELSE None
<1>2. PICK taken \in BOOLEAN : handled' = Handled("setValue", <<"ok">>, TRUE, a, taken)
  BY <1>1, TakesAreBoolean
<1>3. homeId /\ a \in Values \cup {None}
  BY ModelsAgree DEF setValue, checkValue
<1> HIDE DEF a
<1>4. QED
  BY <1>2, <1>3, ProcessedFine

LEMMA GettersFine ==
    ASSUME MirrorInv,
           networkGetter \/ doStats \/ (\E n \in Nodes : nodeGetter(n) \/ setNodeData(n))
             \/ (\E v \in Values : valueGetter(v) \/ keyGetter(v))
    PROVE  Fine(handled')
<1>0. homeId \in BOOLEAN
  BY ModelsAgree
<1>1. ASSUME NEW command \in {"get", "stats"}, NEW checked \in BOOLEAN,
             Reads(command, checked, checkHomeId, "network", NetworkTakes)
      PROVE  Fine(handled')
  <2>1. PICK taken \in IF checkHomeId THEN NetworkTakes ELSE {FALSE} :
          handled' = Handled(command, <<>>, checked, IF checkHomeId THEN "network" ELSE None, taken)
    BY <1>1 DEF Reads
  <2>2. taken \in BOOLEAN /\ ((IF checkHomeId THEN "network" ELSE None) # None => homeId)
    BY <2>1, TakesAreBoolean DEF checkHomeId
  <2>3. QED
    BY <2>1, <2>2, ReadsFine
<1>2. ASSUME NEW n \in Nodes, Reads("get", FALSE, checkHomeId /\ checkNodeId(n), n, NodeTakes(n))
      PROVE  Fine(handled')
  <2> DEFINE a == IF checkHomeId /\ checkNodeId(n) THEN n ELSE None
  <2>1. PICK taken \in BOOLEAN : handled' = Handled("get", <<>>, FALSE, a, taken)
    BY <1>2, TakesAreBoolean DEF Reads
  <2>2. a \in Nodes \cup {None} /\ (a # None => homeId)
    BY DEF checkHomeId
  <2> HIDE DEF a
  <2>3. QED
    BY <2>1, <2>2, ReadsFine
<1>3. ASSUME NEW n \in StatsNodes, Reads("nodeStats", TRUE, checkHomeId /\ checkNodeId(n), n, NodeTakes(n))
      PROVE  Fine(handled')
  <2>1. n \in Nodes /\ n # None /\ homeId /\ n \in validNodes
    BY ModelsAgree, ConstantsAssumption DEF StatsNodes
  <2>2. PICK taken \in BOOLEAN : handled' = Handled("nodeStats", <<>>, TRUE, n, taken)
    BY <1>3, <2>1, TakesAreBoolean DEF Reads, checkHomeId, checkNodeId
  <2>3. QED
    BY <2>1, <2>2, ReadsFine
<1>4. ASSUME NEW n \in Nodes, setNodeData(n)
      PROVE  Fine(handled')
  <2>1. homeId
    BY <1>4, ModelsAgree DEF setNodeData
  <2>2. PICK taken \in BOOLEAN : handled' = Handled("nodeData", <<>>, TRUE, n, taken)
    BY <1>4, TakesAreBoolean DEF setNodeData, Reads
  <2>3. QED
    BY <2>1, <2>2, ReadsFine
<1>5. ASSUME NEW v \in Values, NEW takes \in SUBSET BOOLEAN,
             Reads("get", FALSE, checkHomeId /\ checkValueKey(v), v, takes)
      PROVE  Fine(handled')
  <2> DEFINE a == IF checkHomeId /\ checkValueKey(v) THEN v ELSE None
  <2>1. PICK taken \in BOOLEAN : handled' = Handled("get", <<>>, FALSE, a, taken)
    BY <1>5 DEF Reads
  <2>2. a \in Values \cup {None} /\ (a # None => homeId)
    BY DEF checkHomeId
  <2> HIDE DEF a
  <2>3. QED
    BY <2>1, <2>2, ReadsFine
<1>6. \A v \in Values : ValueTakes(v) \in SUBSET BOOLEAN /\ {TRUE} \in SUBSET BOOLEAN
  BY TakesAreBoolean
<1>7. CASE networkGetter
  BY <1>1, <1>7 DEF networkGetter
<1>8. CASE doStats
  BY <1>1, <1>3, <1>8 DEF doStats
<1>9. CASE \E n \in Nodes : nodeGetter(n) \/ setNodeData(n)
  BY <1>2, <1>4, <1>9 DEF nodeGetter
<1>10. CASE \E v \in Values : valueGetter(v) \/ keyGetter(v)
  BY <1>5, <1>6, <1>10 DEF valueGetter, keyGetter
<1>11. QED
  BY <1>7, <1>8, <1>9, <1>10

-----------------------------------------------------------------------------
(* The invariant.                                                          *)

LEMMA FineKeeps ==
    ASSUME CommandsInv, TypeOK', Fine(handled'), UNCHANGED types,
           filled' \subseteq {v \in Values : rowNode'[v] # None},
           handled'.asked # None => homeId'
    PROVE  CommandsInv'
<1>1. TypeOKCommands'
  BY DEF CommandsInv, TypeOKCommands, Fine
<1>2. CheckedIsAsked' /\ NoNetworkNoCall'
  BY DEF Fine, CheckedIsAsked, NoNetworkNoCall
<1>3. AnsweredOnce'
  BY DEF Fine, AnsweredOnce
<1>4. QED
  BY <1>1, <1>2, <1>3 DEF CommandsInv

LEMMA CommandsInit == InitCommands => MirrorInv /\ CommandsInv
<1> SUFFICES ASSUME InitCommands PROVE MirrorInv /\ CommandsInv
  OBVIOUS
<1>1. MirrorInv /\ TypeOK
  BY MirrorInit DEF InitCommands, MirrorInv, IInv
<1>2. filled = {} /\ types \in [Values -> Kinds]
  BY DEF InitCommands
<1>3. handled = Handled("none", <<>>, FALSE, None, FALSE)
  BY DEF InitCommands, Nothing, Answered
<1>4. TypeOKCommands
  BY <1>1, <1>2, <1>3 DEF TypeOKCommands, Handled
<1>5. CheckedIsAsked /\ NoNetworkNoCall /\ AnsweredOnce
  BY <1>3 DEF CheckedIsAsked, NoNetworkNoCall, AnsweredOnce, Handled
<1>6. QED
  BY <1>1, <1>4, <1>5 DEF CommandsInv

LEMMA CommandsStep ==
    MirrorInv /\ CommandsInv /\ [NextCommands]_commandVars => MirrorInv' /\ CommandsInv'
<1> SUFFICES ASSUME MirrorInv, CommandsInv, [NextCommands]_commandVars
             PROVE  MirrorInv' /\ CommandsInv'
  OBVIOUS
<1>1. MirrorInv' /\ TypeOK'
  <2>1. MirrorInv'
    BY CommandsAreClients, MirrorStep
  <2>2. QED
    BY <2>1 DEF MirrorInv, IInv
<1>2. filled \subseteq {v \in Values : rowNode[v] # None}
  BY DEF CommandsInv, TypeOKCommands
<1>3. ASSUME Fine(handled'), UNCHANGED <<homeId, rowNode, types, filled>>
      PROVE  CommandsInv'
  BY <1>1, <1>2, <1>3, FineKeeps DEF Fine
<1>4. CASE Mirror
  <2>1. handled' = Handled("none", <<>>, FALSE, None, FALSE)
    BY <1>4 DEF Mirror, Nothing, Answered
  <2>2. Fine(handled') /\ handled'.asked = None
    BY <2>1 DEF Fine, Handled
  <2>3. filled' \subseteq {v \in Values : rowNode'[v] # None} /\ UNCHANGED types
    BY <1>4 DEF Mirror, Fills
  <2>4. QED
    BY <1>1, <2>2, <2>3, FineKeeps
<1>5. CASE malformed \/ localCommand \/ closeRefused
  <2>1. /\ Fine(handled')
        /\ UNCHANGED <<vars, types, filled>>
    BY <1>5, AnsweredFine DEF malformed, localCommand, closeRefused
  <2>2. QED
    BY <1>1, <1>3, <2>1 DEF vars, valueVars
<1>6. CASE closeCommand
  <2>1. Fine(handled') /\ UNCHANGED <<homeId, rowNode, types, filled>>
    BY <1>6, AnsweredFine DEF closeCommand, closeFinish, valueVars
  <2>2. QED
    BY <1>1, <1>3, <2>1
<1>7. ASSUME NEW yes \in BOOLEAN, openCommand(yes)
      PROVE  CommandsInv'
  <2>1. Answer(slots = 0 /\ yes) \in {"ok", "failed", "error"}
    BY DEF Answer
  <2>2. Fine(handled') /\ UNCHANGED <<homeId, rowNode, types, filled>>
    BY <1>7, <2>1, AnsweredFine DEF openCommand, open, valueVars
  <2>3. QED
    BY <1>3, <2>2
<1>8. ASSUME NEW yes \in BOOLEAN, networkCommand(yes)
      PROVE  CommandsInv'
  <2>1. UNCHANGED <<vars, types, filled>>
    BY <1>8 DEF networkCommand
  <2>2. QED
    BY <1>3, <1>8, <2>1, NetworkCommandFine DEF vars, valueVars
<1>9. ASSUME NEW x \in Numbers, deleteAllReturnRoute(x)
      PROVE  CommandsInv'
  <2>1. UNCHANGED <<vars, types, filled>>
    BY <1>9 DEF deleteAllReturnRoute
  <2>2. QED
    BY <1>3, <1>9, <2>1, DeleteAllReturnRouteFine DEF vars, valueVars
<1>10. ASSUME NEW x \in Numbers, NEW tells \in BOOLEAN, nodeCommand(x, tells)
       PROVE  CommandsInv'
  <2>1. UNCHANGED <<vars, types, filled>>
    BY <1>10 DEF nodeCommand
  <2>2. QED
    BY <1>3, <1>10, <2>1, NodeCommandFine DEF vars, valueVars
<1>11. ASSUME NEW v \in Values, NEW asksHomeId \in BOOLEAN, valueCommand(v, asksHomeId)
       PROVE  CommandsInv'
  <2>1. UNCHANGED <<vars, types, filled>>
    BY <1>11 DEF valueCommand
  <2>2. QED
    BY <1>3, <1>11, <2>1, ValueCommandFine DEF vars, valueVars
<1>12. ASSUME NEW v \in Values, NEW json \in Json,
              setValueRefused(v, json) \/ setValueSchedule(v, json)
       PROVE  CommandsInv'
  <2>1. handled' = Answered("setSchedule", <<>>) => Fine(handled')
    BY DEF Fine, Answered, Handled
  <2>2. Fine(handled') /\ UNCHANGED <<vars, types, filled>>
    BY <1>12, <2>1, AnsweredFine DEF setValueRefused, setValueSchedule
  <2>3. QED
    BY <1>3, <2>2 DEF vars, valueVars
<1>13. ASSUME NEW v \in Values, NEW json \in Json, NEW d \in Data, setValue(v, json, d)
       PROVE  CommandsInv'
  <2>1. UNCHANGED <<homeId, rowNode, types, filled>>
    BY <1>13 DEF setValue, setDataOfRow
  <2>2. QED
    BY <1>3, <1>13, <2>1, SetValueFine
<1>14. ASSUME networkGetter \/ doStats \/ (\E n \in Nodes : nodeGetter(n) \/ setNodeData(n))
                \/ (\E v \in Values : valueGetter(v) \/ keyGetter(v))
       PROVE  CommandsInv'
  <2>1. UNCHANGED <<vars, types, filled>>
    BY <1>14 DEF networkGetter, doStats, nodeGetter, setNodeData, valueGetter, keyGetter, Reads
  <2>2. QED
    BY <1>3, <1>14, <2>1, GettersFine DEF vars, valueVars
<1>15. CASE UNCHANGED commandVars
  <2>1. UNCHANGED <<homeId, rowNode, types, filled, handled>>
    BY <1>15 DEF commandVars, vars, valueVars
  <2>2. TypeOKCommands'
    BY <1>1, <2>1 DEF CommandsInv, TypeOKCommands
  <2>3. CheckedIsAsked' /\ NoNetworkNoCall' /\ AnsweredOnce'
    BY <2>1 DEF CommandsInv, CheckedIsAsked, NoNetworkNoCall, AnsweredOnce
  <2>4. QED
    BY <1>1, <2>2, <2>3 DEF CommandsInv
<1>16. CASE Command
  BY <1>1, <1>5, <1>6, <1>7, <1>8, <1>9, <1>10, <1>11, <1>12, <1>13, <1>14, <1>16 DEF Command
<1>17. QED
  BY <1>1, <1>4, <1>15, <1>16 DEF NextCommands

-----------------------------------------------------------------------------
(* Theorems.                                                               *)

THEOREM CommandsInductive == SpecCommands => [](MirrorInv /\ CommandsInv)
BY CommandsInit, CommandsStep, PTL DEF SpecCommands

\* With MQTT clients at work the manager is still a behaviour of OZWManager.
THEOREM CommandsKeepMirror == SpecCommands => MirrorSpec
<1>1. InitCommands => Init
  BY DEF InitCommands
<1>2. QED
  BY <1>1, CommandsAreClients, PTL DEF SpecCommands, MirrorSpec

\* Every variable and the answers keep their types.
THEOREM CommandTypes == SpecCommands => []TypeOKCommands
<1>1. CommandsInv => TypeOKCommands
  BY DEF CommandsInv
<1>2. QED
  BY <1>1, CommandsInductive, PTL

\* A node or value that passed the check of its command is never refused by the
\* manager's own, whatever nodes, values and drivers come and go between them.
THEOREM CheckedIsAskedAlways == SpecCommands => []CheckedIsAsked
<1>1. CommandsInv => CheckedIsAsked
  BY DEF CommandsInv
<1>2. QED
  BY <1>1, CommandsInductive, PTL

\* No command, getter or statistics timer reaches the library without a
\* network, those that never look at homeId() included.
THEOREM NoNetworkNoCallAlways == SpecCommands => []NoNetworkNoCall
<1>1. CommandsInv => NoNetworkNoCall
  BY DEF CommandsInv
<1>2. QED
  BY <1>1, CommandsInductive, PTL

\* Each message has its one answer, the two known oversights excepted.
THEOREM AnsweredOnceAlways == SpecCommands => []AnsweredOnce
<1>1. CommandsInv => AnsweredOnce
  BY DEF CommandsInv
<1>2. QED
  BY <1>1, CommandsInductive, PTL
=============================================================================
