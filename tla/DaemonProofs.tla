----------------------------- MODULE DaemonProofs -----------------------------
(***************************************************************************)
(* Proofs about Daemon, for any network, controller and number of starts.  *)
(* A step of the process is a step of the mirror, or its end, after which  *)
(* the mirror is as it began; so MirrorInv holds from start to start.      *)
(* ConfigAsked needs to know which notifications of complete nodes wait.   *)
(***************************************************************************)
EXTENDS Daemon, OZWManagerProofs

\* A node's information is delivered while the node is valid.
InfoInv ==
    \A i \in 1..Len(queue) : queue[i].type = "nodeInfo" => ValidAt(queue[i].id, i)

\* A node of the library that is noted was asked for its configuration or is
\* one of the exceptions; one that is complete and not noted will be.
ConfigInv ==
    \A n \in Nodes \ {Controller} : ozwNodes[n] # None =>
      /\ n \in noted => n \in asked \cup again
      /\ ozwNodes[n] = "complete" /\ n \notin noted =>
           \E i \in 1..Len(queue) : Informs(queue[i], n)

DaemonInv == MirrorInv /\ TypeOKDaemon /\ InfoInv /\ ConfigInv

-----------------------------------------------------------------------------
(* The mirror in the daemon.                                               *)

\* What a process does to the mirror: what OZWManager does, but for its end.
LEMMA ProcessSteps ==
    ASSUME [NextDaemon]_daemonVars
    PROVE  [Next]_vars \/ returnsFromMain
<1>1. ASSUME NEW ok \in BOOLEAN, NEW failureOption \in BOOLEAN, start(ok, failureOption)
      PROVE  Next
  BY <1>1 DEF start, Next, Client
<1>2. CASE library
  BY <1>2 DEF library, Next
<1>3. CASE slot
  BY <1>3 DEF slot, nodeQueriesComplete, Next, Slot
<1>4. CASE client
  BY <1>4 DEF client, Next, Client
<1>5. CASE handleSigTerm \/ aboutToQuit
  BY <1>5 DEF handleSigTerm, aboutToQuit, Closes, Next, Client
<1>6. CASE clientCloses \/ handleSigTermExits \/ aboutToQuitEnds
  BY <1>6 DEF clientCloses, handleSigTermExits, aboutToQuitEnds, Next, Client
<1>7. CASE startFails \/ termSignalHandler \/ (\E c \in Codes : brokerEnds(c)) \/ UNCHANGED daemonVars
  BY <1>7 DEF startFails, termSignalHandler, brokerEnds, daemonVars
<1>8. QED
  BY <1>1, <1>2, <1>3, <1>4, <1>5, <1>6, <1>7 DEF NextDaemon, GoesOn

\* The next process begins as the first.
LEMMA EndsAsBegan == returnsFromMain => Init'
BY DEF returnsFromMain, Init

LEMMA MirrorGoesOn == MirrorInv /\ [NextDaemon]_daemonVars => MirrorInv'
<1>1. Init' => MirrorInv'
  BY MirrorInit, PTL
<1>2. QED
  BY <1>1, ProcessSteps, EndsAsBegan, MirrorStep

-----------------------------------------------------------------------------
(* Types.                                                                  *)

LEMMA TypeDaemonInit == InitDaemon => TypeOKDaemon
<1> SUFFICES ASSUME InitDaemon PROVE TypeOKDaemon
  OBVIOUS
<1>1. TypeOK
  BY TypeInit DEF InitDaemon
<1>2. {sigterm, stopOnFailure, released} \subseteq BOOLEAN
  BY DEF InitDaemon
<1>3. starts \in 0..Starts
  BY DaemonAssumption DEF InitDaemon
<1>4. QED
  BY <1>1, <1>2, <1>3 DEF InitDaemon, TypeOKDaemon, Codes

LEMMA TypeDaemonStep ==
    ASSUME MirrorInv, TypeOKDaemon, [NextDaemon]_daemonVars
    PROVE  TypeOKDaemon'
<1>0. TypeOK'
  BY MirrorGoesOn DEF MirrorInv, IInv
<1>1. /\ proc \in {"down", "running", "term", "quitting", "last", "leaving"}
      /\ code \in Codes
      /\ sigterm \in BOOLEAN /\ stopOnFailure \in BOOLEAN /\ released \in BOOLEAN
      /\ asked \subseteq noted /\ noted \subseteq Nodes /\ again \subseteq Nodes
      /\ proc \in {"term", "last"} => closing
      /\ starts \in 0..Starts
  BY DEF TypeOKDaemon
<1> USE <1>0, <1>1 DEF TypeOKDaemon
<1> USE DEF configVars, procVars
<1>2. Follows => asked' \subseteq asked /\ again' \subseteq Nodes
  BY DEF Follows
<1>3. CASE startFails
  BY <1>3, DaemonAssumption DEF startFails, Codes, vars, linkVars
<1>4. ASSUME NEW ok \in BOOLEAN, NEW failureOption \in BOOLEAN, start(ok, failureOption)
      PROVE  TypeOKDaemon'
  <2>1. starts' \in 0..Starts /\ stopOnFailure' \in BOOLEAN /\ proc' = "running"
    BY <1>4, DaemonAssumption DEF start
  <2>2. QED
    BY <1>4, <2>1 DEF start
<1>5. CASE library
  BY <1>2, <1>5 DEF library, Ozw, OzwDriverReady, OzwDriverFailed, OzwDriverReset, OzwNodeAdded,
     OzwNodeQueriesComplete, OzwNodeRemoved, OzwValueAdded, OzwValueChanged, OzwValueRemoved, linkVars
<1>6. CASE slot
  <2>1. closing' = closing
    BY <1>6 DEF slot, nodeQueriesComplete, pvt_driverReady, pvt_driverDown, pvt_nodeAdded, pvt_nodeInfo,
       pvt_nodeRemoved, pvt_valueAdded, pvt_valueAddedFill, pvt_valueChanged, pvt_valueRemoved, linkVars
  <2>2. /\ code' \in Codes
        /\ proc' = proc \/ (proc = "running" /\ proc' = "quitting")
    BY <1>6 DEF slot, Exits, Codes
  <2>3. asked' \subseteq noted' /\ noted' \subseteq Nodes /\ again' = again
    <3>1. CASE nodeQueriesComplete
      <4>1. Head(queue).id \in Nodes
        <5>1. queue \in Seq(Message) /\ Deliver("nodeInfo")
          BY <3>1 DEF nodeQueriesComplete, pvt_nodeInfo, TypeOKDaemon, TypeOK
        <5>2. QED
          BY <5>1, DeliverShifts, MessageIds DEF NodeTypes
      <4>2. QED
        BY <3>1, <4>1 DEF nodeQueriesComplete, Noted
    <3>2. QED
      BY <1>6, <3>1 DEF slot
  <2>4. UNCHANGED <<sigterm, stopOnFailure, released, starts>>
    BY <1>6 DEF slot
  <2>5. QED
    BY <2>1, <2>2, <2>3, <2>4
<1>7. CASE client
  BY <1>2, <1>7 DEF client
<1>8. ASSUME NEW c \in Codes, brokerEnds(c)
      PROVE  TypeOKDaemon'
  BY <1>8 DEF brokerEnds, vars, linkVars
<1>9. CASE termSignalHandler
  BY <1>9 DEF termSignalHandler, vars, linkVars
<1>10. CASE handleSigTerm
  BY <1>2, <1>10 DEF handleSigTerm, Closes, close, Codes
<1>11. CASE aboutToQuit
  BY <1>2, <1>11 DEF aboutToQuit, Closes, close
<1>12. CASE clientCloses
  BY <1>12 DEF clientCloses
<1>13. CASE handleSigTermExits
  BY <1>13 DEF handleSigTermExits, Codes
<1>14. CASE aboutToQuitEnds
  BY <1>14 DEF aboutToQuitEnds
<1>15. CASE returnsFromMain
  BY <1>15 DEF returnsFromMain
<1>16. CASE UNCHANGED daemonVars
  BY <1>16 DEF daemonVars, vars, linkVars
<1>17. QED
  BY <1>3, <1>4, <1>5, <1>6, <1>7, <1>8, <1>9, <1>10, <1>11, <1>12, <1>13, <1>14, <1>15, <1>16
     DEF NextDaemon, GoesOn

-----------------------------------------------------------------------------
(* The information of complete nodes.                                      *)

\* Information is posted while its node is in the library, ...
LEMMA InfoReport ==
    ASSUME MirrorInv, InfoInv, NEW m \in Message, Reports(m)
    PROVE  /\ InfoInv'
           /\ \A n \in Nodes : (\E i \in 1..Len(queue)' : Informs(queue'[i], n))
                <=> (\E i \in 1..Len(queue) : Informs(queue[i], n)) \/ Informs(m, n)
<1>0. TypeOK /\ PresenceInv
  BY DEF MirrorInv, IInv
<1>1. PICK L \in Nat : L = Len(queue)
  BY <1>0 DEF TypeOK
<1>2. /\ Len(queue') = L + 1 /\ \A i \in 1..L : queue'[i] = queue[i]
      /\ queue'[L + 1] = m /\ validNodes' = validNodes
  BY <1>1 DEF Reports, nodeVars
<1>3. \A n \in Nodes : \A i \in 1..(L + 1) : ValidAt(n, i) => ValidAt(n, i)'
  BY <1>1, <1>2, AppendDecides
<1>4. ASSUME NEW i \in 1..(L + 1), queue'[i].type = "nodeInfo"
      PROVE  ValidAt(queue[i].id, i)'
  <2>1. queue'[i] \in Message
    BY <1>0, <1>1, <1>2 DEF TypeOK
  <2>2. PICK n \in Nodes : n = queue'[i].id
    BY <1>4, <2>1, MessageIds DEF NodeTypes
  <2>3. ValidAt(n, i)
    <3>1. CASE i \in 1..L
      BY <1>1, <1>2, <1>4, <2>2, <3>1 DEF InfoInv
    <3>2. CASE i = L + 1
      <4>1. ozwNodes[n] # None
        BY <1>2, <1>4, <2>2, <3>2 DEF Reports, Informs
      <4>2. QED
        BY <1>0, <1>1, <3>2, <4>1 DEF PresenceInv
    <3>3. QED
      BY <3>1, <3>2
  <2>4. ValidAt(n, i)'
    BY <1>3, <2>3
  <2>5. QED
    BY <2>2, <2>4 DEF ValidAt, Untouched, LastTouch
<1>5. InfoInv'
  BY <1>2, <1>4 DEF InfoInv
<1>6. \A i \in 1..(L + 1) : i \in 1..L \/ i = L + 1
  OBVIOUS
<1>7. L + 1 \in 1..(L + 1) /\ \A i \in 1..L : i \in 1..(L + 1)
  OBVIOUS
<1>8. QED
  BY <1>1, <1>2, <1>5, <1>6, <1>7

\* ... and so is delivered while the node is valid.
LEMMA InfoHandle ==
    ASSUME MirrorInv, InfoInv, Handles(queue[1])
    PROVE  /\ InfoInv'
           /\ \A n \in Nodes : (\E i \in 1..Len(queue) : Informs(queue[i], n))
                => (\E i \in 1..Len(queue)' : Informs(queue'[i], n)) \/ Informs(queue[1], n)
           /\ queue[1].type = "nodeInfo" => queue[1].id \in validNodes /\ homeId
<1>0. TypeOK /\ HomeInv
  BY DEF MirrorInv, IInv
<1>1. PICK L \in Nat : L + 1 = Len(queue)
  <2>1. Len(queue) - 1 \in Nat /\ (Len(queue) - 1) + 1 = Len(queue)
    BY DEF Handles
  <2>2. QED
    BY <2>1
<1>2. /\ Len(queue') = L /\ \A i \in 1..L : queue'[i] = queue[i + 1]
      /\ Len(queue) \in Nat \ {0}
  BY <1>1 DEF Handles
<1>3. \A n \in Nodes : \A i \in 1..(L + 1) : ValidAt(n, i + 1) => ValidAt(n, i)'
  BY <1>1, <1>2, DeliverDecides DEF Handles
<1>4. ASSUME NEW i \in 1..L, queue'[i].type = "nodeInfo"
      PROVE  ValidAt(queue[i].id, i)'
  <2>1. i + 1 \in 1..(L + 1) /\ i \in 1..(L + 1)
    OBVIOUS
  <2>2. queue'[i] \in Message
    BY <1>0, <1>1, <1>2, <2>1 DEF TypeOK
  <2>3. PICK n \in Nodes : n = queue'[i].id
    BY <1>4, <2>2, MessageIds DEF NodeTypes
  <2>4. ValidAt(n, i + 1)
    BY <1>1, <1>2, <1>4, <2>1, <2>3 DEF InfoInv
  <2>5. ValidAt(n, i)'
    BY <1>3, <2>1, <2>4
  <2>6. QED
    BY <2>3, <2>5 DEF ValidAt, Untouched, LastTouch
<1>5. InfoInv'
  BY <1>2, <1>4 DEF InfoInv
<1>6. ASSUME NEW n \in Nodes, NEW i \in 1..(L + 1), Informs(queue[i], n)
      PROVE  (\E k \in 1..L : Informs(queue'[k], n)) \/ Informs(queue[1], n)
  <2>1. CASE i # 1
    <3>1. i - 1 \in 1..L /\ (i - 1) + 1 = i
      BY <2>1
    <3>2. QED
      BY <1>2, <1>6, <3>1
  <2>2. QED
    BY <1>6, <2>1
<1>7. ASSUME queue[1].type = "nodeInfo"
      PROVE  queue[1].id \in validNodes /\ homeId
  <2>1. 1 \in 1..Len(queue)
    BY <1>1
  <2>2. queue[1].id \in validNodes
    BY <1>7, <2>1 DEF InfoInv, ValidAt, Untouched
  <2>3. QED
    BY <1>0, <2>2 DEF HomeInv
<1>8. QED
  BY <1>1, <1>2, <1>5, <1>6, <1>7

\* A report that Follows takes notice of.
LEMMA ConfigReport ==
    ASSUME MirrorInv, InfoInv, ConfigInv, NEW m \in Message, Reports(m), Follows, noted' = noted
    PROVE  InfoInv' /\ ConfigInv'
<1>1. InfoInv'
  BY InfoReport
<1>2. ASSUME NEW n \in Nodes \ {Controller}, ozwNodes'[n] # None
      PROVE  /\ n \in noted => n \in asked' \cup again'
             /\ ozwNodes'[n] = "complete" /\ n \notin noted =>
                  \E i \in 1..Len(queue)' : Informs(queue'[i], n)
  <2>1. ozwNodes'[n] = "complete" => ozwNodes[n] = "complete" \/ Informs(m, n)
    BY DEF Reports
  <2>2. n \in noted => n \in asked' \cup again'
    BY <1>2 DEF ConfigInv, Follows
  <2>3. ozwNodes[n] = "complete" /\ n \notin noted => \E i \in 1..Len(queue) : Informs(queue[i], n)
    BY ConstantsAssumption DEF ConfigInv
  <2>4. QED
    BY <2>1, <2>2, <2>3, InfoReport
<1>3. ConfigInv'
  BY <1>2 DEF ConfigInv, Informs
<1>4. QED
  BY <1>1, <1>3

\* A step that touches neither the queue nor the nodes.
LEMMA ConfigRest ==
    ASSUME InfoInv, ConfigInv, UNCHANGED <<queue, ozwNodes, validNodes, noted>>,
           Follows \/ UNCHANGED configVars
    PROVE  InfoInv' /\ ConfigInv'
<1>1. InfoInv'
  <2>1. queue' = queue /\ validNodes' = validNodes
    OBVIOUS
  <2>2. \A n, i : ValidAt(n, i)' <=> ValidAt(n, i)
    BY <2>1 DEF ValidAt, Untouched, LastTouch, Touches, Adds, Removes
  <2>3. QED
    BY <2>1, <2>2 DEF InfoInv
<1>2. \A n \in Nodes : ozwNodes[n] # None /\ n \in asked \cup again => n \in asked' \cup again'
  BY DEF Follows, configVars
<1>3. ConfigInv'
  BY <1>2 DEF ConfigInv, Informs
<1>4. QED
  BY <1>1, <1>3

LEMMA ConfigSlot ==
    ASSUME MirrorInv, InfoInv, ConfigInv, slot
    PROVE  InfoInv' /\ ConfigInv'
<1>0. TypeOK /\ \A v \in Values : rowNode[v] \in {None, "unset", Owner[v]}
  BY DEF MirrorInv, IInv, ValueInv
<1>1. CASE pvt_valueAddedFill
  <2>1. UNCHANGED <<queue, ozwNodes, validNodes>>
    BY <1>1 DEF pvt_valueAddedFill, ozwVars, nodeVars
  <2>2. ~nodeQueriesComplete /\ ~pvt_driverDown
    BY <1>1 DEF pvt_valueAddedFill, nodeQueriesComplete, pvt_nodeInfo, pvt_driverDown, Deliver
  <2>3. UNCHANGED configVars
    BY <2>2 DEF slot
  <2>4. QED
    BY <2>1, <2>3, ConfigRest DEF configVars
<1>2. CASE ~pvt_valueAddedFill
  <2>1. Slot
    BY DEF slot, nodeQueriesComplete, Slot
  <2>2. Handles(queue[1])
    BY <1>0, <1>2, <2>1, SlotHandles
  <2>3. ozwNodes' = ozwNodes
    BY <2>2 DEF Handles, ozwVars
  <2>4. \A n \in Nodes : (\E i \in 1..Len(queue) : Informs(queue[i], n))
          => (\E i \in 1..Len(queue)' : Informs(queue'[i], n)) \/ Informs(queue[1], n)
    BY <2>2, InfoHandle
  <2>5. InfoInv'
    BY <2>2, InfoHandle
  <2>6. CASE nodeQueriesComplete
    <3>1. Deliver("nodeInfo")
      BY <2>6 DEF nodeQueriesComplete, pvt_nodeInfo
    <3>2. queue[1].type = "nodeInfo" /\ queue[1] = Head(queue)
      BY <1>0, <3>1, DeliverShifts DEF TypeOK
    <3>3. PICK n : n = queue[1].id /\ n = Head(queue).id
      BY <3>2
    <3>4. n \in validNodes /\ homeId
      BY <2>2, <3>2, <3>3, InfoHandle
    <3>5. /\ again' = again
          /\ IF IsController(n) \/ n \in noted
             THEN noted' = noted /\ asked' = asked
             ELSE /\ noted' = noted \cup {n}
                  /\ asked' = IF ozwNodes[n] # None THEN asked \cup {n} ELSE asked
      BY <2>6, <3>3, <3>4 DEF nodeQueriesComplete, Noted
    <3>6. ASSUME NEW k \in Nodes \ {Controller}, ozwNodes[k] # None
          PROVE  /\ k \in noted' => k \in asked' \cup again'
                 /\ ozwNodes[k] = "complete" /\ k \notin noted' =>
                      \E i \in 1..Len(queue)' : Informs(queue'[i], k)
      <4>1. k \in noted' => k \in asked' \cup again'
        BY <3>5, <3>6 DEF ConfigInv
      <4>2. Informs(queue[1], k) => k \in noted'
        BY <3>3, <3>5 DEF Informs, IsController
      <4>3. noted \subseteq noted'
        BY <3>5
      <4>4. QED
        BY <2>4, <3>6, <4>1, <4>2, <4>3 DEF ConfigInv
    <3>7. ConfigInv'
      BY <2>3, <3>6 DEF ConfigInv, Informs
    <3>8. QED
      BY <2>5, <3>7
  <2>7. CASE ~nodeQueriesComplete
    <3>1. UNCHANGED configVars
      BY <2>7 DEF slot
    <3>2. PICK t : Deliver(t) /\ t # "nodeInfo"
      <4>1. \A t \in DownTypes : t # "nodeInfo"
        BY DEF DownTypes
      <4>2. QED
        BY <1>2, <2>7, <4>1 DEF slot, pvt_driverReady, pvt_driverDown, pvt_nodeAdded, pvt_nodeRemoved,
           pvt_valueAdded, pvt_valueChanged, pvt_valueRemoved
    <3>3. queue[1].type # "nodeInfo"
      BY <1>0, <3>2, DeliverShifts DEF TypeOK
    <3>4. ConfigInv'
      BY <2>3, <2>4, <3>1, <3>3 DEF ConfigInv, configVars, Informs
    <3>5. QED
      BY <2>5, <3>4
  <2>8. QED
    BY <2>6, <2>7
<1>3. QED
  BY <1>1, <1>2

LEMMA ConfigStep ==
    ASSUME MirrorInv, InfoInv, ConfigInv, [NextDaemon]_daemonVars
    PROVE  InfoInv' /\ ConfigInv'
<1>0. TypeOK /\ LinkInv
  BY DEF MirrorInv, IInv
<1>1. ASSUME UNCHANGED vars, Follows \/ UNCHANGED configVars, noted' = noted
      PROVE  InfoInv' /\ ConfigInv'
  <2>1. UNCHANGED <<queue, ozwNodes, validNodes, noted>>
    BY <1>1 DEF vars, ozwVars, nodeVars
  <2>2. QED
    BY <1>1, <2>1, ConfigRest
<1>2. ASSUME close, Follows, noted' = noted
      PROVE  InfoInv' /\ ConfigInv'
  <2>1. CASE \E m \in Message : Reports(m)
    BY <1>2, <2>1, ConfigReport
  <2>2. CASE UNCHANGED <<ozwVars, queue, homeId, nodeVars, valueVars, filling, running>>
    <3>1. UNCHANGED <<queue, ozwNodes, validNodes, noted>>
      BY <1>2, <2>2 DEF ozwVars, nodeVars
    <3>2. QED
      BY <1>2, <3>1, ConfigRest
  <2>3. QED
    BY <1>0, <1>2, <2>1, <2>2, CloseReports
<1>3. ASSUME closeFinish, UNCHANGED configVars
      PROVE  InfoInv' /\ ConfigInv'
  <2>1. UNCHANGED <<queue, ozwNodes, validNodes, noted>>
    BY <1>3 DEF closeFinish, ozwVars, nodeVars, configVars
  <2>2. QED
    BY <1>3, <2>1, ConfigRest
<1>4. ASSUME NEW ok \in BOOLEAN, open(ok), Follows \/ UNCHANGED configVars, noted' = noted
      PROVE  InfoInv' /\ ConfigInv'
  <2>1. UNCHANGED <<queue, ozwNodes, validNodes, noted>>
    BY <1>4 DEF open, nodeVars
  <2>2. QED
    BY <1>4, <2>1, ConfigRest
<1>5. ASSUME NEW ok \in BOOLEAN, NEW failureOption \in BOOLEAN, start(ok, failureOption)
      PROVE  InfoInv' /\ ConfigInv'
  BY <1>4, <1>5 DEF start, configVars
<1>6. CASE library
  <2>1. PICK m \in Message : Reports(m)
    BY <1>0, <1>6, OzwReports DEF library
  <2>2. QED
    BY <1>6, <2>1, ConfigReport DEF library
<1>7. CASE slot
  BY <1>7, ConfigSlot
<1>8. CASE client
  <2>1. Follows /\ noted' = noted
    BY <1>8 DEF client
  <2>2. ASSUME NEW v \in Values, NEW d \in Data, setData(v, d)
        PROVE  InfoInv' /\ ConfigInv'
    <3>1. UNCHANGED <<queue, ozwNodes, validNodes, noted>>
      BY <2>1, <2>2 DEF setData, ozwVars, nodeVars
    <3>2. QED
      BY <2>1, <3>1, ConfigRest
  <2>3. QED
    BY <1>2, <1>4, <1>8, <2>1, <2>2 DEF client
<1>9. CASE handleSigTerm \/ aboutToQuit
  BY <1>1, <1>2, <1>9 DEF handleSigTerm, aboutToQuit, Closes
<1>10. CASE clientCloses \/ handleSigTermExits \/ aboutToQuitEnds
  BY <1>3, <1>10 DEF clientCloses, handleSigTermExits, aboutToQuitEnds
<1>11. CASE startFails \/ termSignalHandler \/ (\E c \in Codes : brokerEnds(c)) \/ UNCHANGED daemonVars
  <2>1. UNCHANGED vars /\ UNCHANGED configVars /\ noted' = noted
    BY <1>11 DEF startFails, termSignalHandler, brokerEnds, daemonVars, configVars
  <2>2. QED
    BY <1>1, <2>1
<1>12. CASE returnsFromMain
  <2>1. queue' = <<>> /\ \A n \in Nodes : ozwNodes'[n] = None
    BY <1>12 DEF returnsFromMain
  <2>2. QED
    BY <2>1 DEF InfoInv, ConfigInv
<1>13. QED
  BY <1>5, <1>6, <1>7, <1>8, <1>9, <1>10, <1>11, <1>12 DEF NextDaemon, GoesOn

LEMMA DaemonInit == InitDaemon => DaemonInv
<1> SUFFICES ASSUME InitDaemon PROVE DaemonInv
  OBVIOUS
<1>1. MirrorInv
  BY MirrorInit DEF InitDaemon
<1>2. queue = <<>> /\ \A n \in Nodes : ozwNodes[n] = None
  BY DEF InitDaemon, Init
<1>3. InfoInv /\ ConfigInv
  BY <1>2 DEF InfoInv, ConfigInv
<1>4. QED
  BY <1>1, <1>3, TypeDaemonInit DEF DaemonInv

LEMMA DaemonStep == DaemonInv /\ [NextDaemon]_daemonVars => DaemonInv'
BY MirrorGoesOn, TypeDaemonStep, ConfigStep DEF DaemonInv

-----------------------------------------------------------------------------
(* Theorems.                                                               *)

\* The mirror keeps its invariant from start to start of the process, whatever
\* ends it.
THEOREM DaemonInductive == SpecDaemon => []DaemonInv
BY DaemonInit, DaemonStep, PTL DEF SpecDaemon

\* What the manager promises of its models holds in every process that uses it,
\* also after one that a signal or the broker ended in the middle of a network.
THEOREM MirrorInDaemon ==
    SpecDaemon => [](NodesConverge /\ ValuesConverge /\ HomeIdGuardsModels
                       /\ RowsAreListed /\ WatchedOnce)
<1>1. DaemonInv => NodesConverge /\ ValuesConverge /\ HomeIdGuardsModels
                     /\ RowsAreListed /\ WatchedOnce
  <2> SUFFICES ASSUME DaemonInv
               PROVE  /\ NodesConverge /\ ValuesConverge /\ HomeIdGuardsModels
                      /\ RowsAreListed /\ WatchedOnce
    OBVIOUS
  <2>1. MirrorInv /\ IInv
    BY DEF DaemonInv, MirrorInv
  <2>2. NodesConverge /\ ValuesConverge /\ HomeIdGuardsModels
    BY <2>1, NodesAgree, ValuesAgree, HomeIdFollows
  <2>3. RowsAreListed /\ WatchedOnce
    BY <2>1 DEF IInv, LinkInv, RowsAreListed, WatchedOnce
  <2>4. QED
    BY <2>2, <2>3
<1>2. QED
  BY <1>1, DaemonInductive, PTL

\* Variables keep their types; main() is inside close() only when close() is
\* under way, and only noted nodes were asked.
THEOREM DaemonTypes == SpecDaemon => []TypeOKDaemon
<1>1. DaemonInv => TypeOKDaemon
  BY DEF DaemonInv
<1>2. QED
  BY <1>1, DaemonInductive, PTL

\* Every node whose queries are complete was asked for its configuration, the
\* controller and nodes that reuse a noted id excepted.
THEOREM ConfigAskedAlways == SpecDaemon => []ConfigAsked
<1>1. DaemonInv => ConfigAsked
  <2> SUFFICES ASSUME DaemonInv, Quiet, NEW n \in Nodes \ {Controller}, ozwNodes[n] = "complete"
               PROVE  n \in asked \cup again
    BY DEF ConfigAsked
  <2>1. ConfigInv /\ Len(queue) = 0 /\ ozwNodes[n] # None
    BY ConstantsAssumption DEF DaemonInv, Quiet
  <2>2. n \in noted
    BY <2>1 DEF ConfigInv
  <2>3. QED
    BY <2>1, <2>2 DEF ConfigInv
<1>2. QED
  BY <1>1, DaemonInductive, PTL
=============================================================================
