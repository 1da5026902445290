------------------------------- MODULE Daemon -------------------------------
(***************************************************************************)
(* ozwdaemon: the process around QTOZWManager_Internal.  main() sets up or *)
(* gives up, opens the network and runs the event loop until SIGTERM or a  *)
(* failed driver ends it; then everything the process held is gone and it  *)
(* may be started again.                                                   *)
(*                                                                         *)
(* handleSigTerm closes the network before it calls exit(), and            *)
(* aboutToQuit closes it again once the event loop has ended.  close()     *)
(* pumps events, but not those of sockets, so that neither interrupts      *)
(* itself.  Each node that completes its queries is asked for its          *)
(* configuration, once as long as the process lives.                       *)
(***************************************************************************)
EXTENDS OZWManager

CONSTANTS
    Controller, \* GetControllerNodeId: one of the nodes, or None
    Starts      \* bound: starts of the process

ASSUME DaemonAssumption == Controller \in Nodes \cup {None} /\ Starts \in Nat

VARIABLES
    proc,       \* where main() is
    code,       \* what it returns, or exits with
    sigterm,    \* the signal's byte is in the socket pair
    stopOnFailure,\* StopOnFailure of ozwdaemon.ini, which outlives the process
    noted,      \* s_completedNodes
    \* ghosts
    asked,      \* nodes the library was asked to request the configuration of
    again,      \* nodes that were noted before the library added them
    released,   \* the process ended with driver and watcher removed
    starts      \* counted for the bound Starts

configVars == <<noted, asked, again>>
procVars == <<proc, code, sigterm, stopOnFailure, released, starts>>
daemonVars == <<vars, configVars, procVars>>

\* EXIT_NOMQTTPASS is never returned: exit() is called before exec and lost.
Codes == {"EXIT_NORMAL", "EXIT_OZWFAILED", "EXIT_SETUPFAILED", "EXIT_MQTTDISCONNECTED", "EXIT_ANOTHERINSTANCE"}

InitDaemon ==
    /\ Init
    /\ proc = "down" /\ code = "EXIT_NORMAL"
    /\ sigterm = FALSE /\ stopOnFailure \in BOOLEAN
    /\ noted = {} /\ asked = {} /\ again = {}
    /\ released = TRUE /\ starts = 0

\* What the library's node changes make of the ghosts.
Follows ==
    /\ asked' = {n \in asked : ozwNodes'[n] # None}
    /\ again' = {n \in Nodes : IF ozwNodes[n] = None
                               THEN ozwNodes'[n] # None /\ n \in noted
                               ELSE n \in again /\ ozwNodes'[n] # None}

-----------------------------------------------------------------------------
(* The start of the process.                                               *)

\* No serial port given, or no configuration database to copy: exit() in main.
startFails ==
    /\ proc = "down" /\ starts < Starts
    /\ starts' = starts + 1
    /\ code' = "EXIT_SETUPFAILED"
    /\ UNCHANGED <<vars, configVars, proc, sigterm, stopOnFailure, released>>

\* The daemon's objects, the signal handler, startOZW, exec.  The process runs
\* on when open() fails.  --stop-on-failure is written to the settings, its
\* absence is not.
start(addDriverOK, failureOption) ==
    /\ proc = "down" /\ starts < Starts
    /\ starts' = starts + 1
    /\ proc' = "running"
    /\ stopOnFailure' = (stopOnFailure \/ failureOption)
    /\ open(addDriverOK)
    /\ UNCHANGED <<configVars, code, sigterm, released>>

-----------------------------------------------------------------------------
(* The event loop.                                                         *)

\* The library's thread runs as long as the process does.
library ==
    /\ proc # "down"
    /\ Ozw
    /\ Follows
    /\ UNCHANGED <<noted, procVars>>

\* Posted events are delivered by exec, to its end, and by a close() that pumps.
Delivers == proc \in {"running", "quitting"} \/ closing

\* QCoreApplication::exit from driverFailed: it ends an event loop that runs.
Exits(type) ==
    IF type = "driverFailed" /\ stopOnFailure /\ proc \in {"running", "term", "quitting"}
    THEN /\ code' = "EXIT_OZWFAILED"
         /\ proc' = IF proc = "running" THEN "quitting" ELSE proc
    ELSE UNCHANGED <<code, proc>>

\* Fault: the comparison with the controller's node is negated.
IsNotController(n) == ~(homeId /\ n = Controller)

\* getControllerNodeId() is 0 without a network.
IsController(n) == homeId /\ n = Controller

\* Fault: the node is not added to s_completedNodes.
NotedNever(n) == noted

\* s_completedNodes after node n, asked or not.
Noted(n) == noted \cup {n}

\* nodeQueriesComplete, called at the end of pvt_nodeQueriesComplete.  A
\* request that checkNodeId or the library refuses counts as made.
nodeQueriesComplete ==
    /\ pvt_nodeInfo
    /\ LET n == Head(queue).id IN
         IF IsController(n) \/ n \in noted
         THEN UNCHANGED <<noted, asked>>
         ELSE /\ noted' = Noted(n)
              /\ asked' = IF homeId /\ n \in validNodes /\ ozwNodes[n] # None
                          THEN asked \cup {n} ELSE asked
    /\ UNCHANGED again

\* The slots, with mqttpublisher's driverFailed after pvt_driverFailed.
slot ==
    /\ Delivers
    /\ \/ nodeQueriesComplete /\ UNCHANGED <<proc, code>>
       \/ /\ pvt_driverDown
          /\ Exits(Head(queue).type)
          /\ UNCHANGED configVars
       \/ /\ \/ pvt_driverReady \/ pvt_nodeAdded \/ pvt_nodeRemoved
             \/ pvt_valueAdded \/ pvt_valueAddedFill \/ pvt_valueChanged \/ pvt_valueRemoved
          /\ UNCHANGED <<configVars, proc, code>>
    /\ UNCHANGED <<sigterm, stopOnFailure, released, starts>>

\* The broker's socket: the connection is lost, or another daemon's status is
\* at the broker.
brokerEnds(c) ==
    /\ proc \in {"running", "quitting"}
    /\ filling = None /\ ~closing
    /\ c = "EXIT_ANOTHERINSTANCE" \/ (c = "EXIT_MQTTDISCONNECTED" /\ stopOnFailure)
    /\ proc' = "quitting" /\ code' = c
    /\ UNCHANGED <<vars, configVars, sigterm, stopOnFailure, released, starts>>

\* Calls of MQTT clients and remote applications, as long as exec runs.
client ==
    /\ proc \in {"running", "quitting"}
    /\ \/ \E ok \in BOOLEAN : open(ok)
       \/ close
       \/ \E v \in Values, d \in Data : setData(v, d)
    /\ Follows
    /\ UNCHANGED <<noted, procVars>>

\* The end of a close() that a client asked for.
clientCloses ==
    /\ proc \in {"running", "quitting"}
    /\ closeFinish
    /\ UNCHANGED <<configVars, procVars>>

-----------------------------------------------------------------------------
(* The end of the process.                                                 *)

\* termSignalHandler writes to the socket pair.
termSignalHandler ==
    /\ proc # "down"
    /\ ~sigterm
    /\ sigterm' = TRUE
    /\ UNCHANGED <<vars, configVars, proc, code, stopOnFailure, released, starts>>

\* close() and what comes after it, at once if there is nothing to close.
Closes(inside, after) ==
    IF slots > 0
    THEN close /\ proc' = inside
    ELSE filling = None /\ ~closing /\ proc' = after /\ UNCHANGED vars

\* The socket's notifier, and close().
handleSigTerm ==
    /\ proc \in {"running", "quitting"}
    /\ sigterm
    /\ sigterm' = FALSE
    /\ Closes("term", "quitting")
    /\ code' = IF slots > 0 THEN code ELSE "EXIT_NORMAL"
    /\ Follows
    /\ UNCHANGED <<noted, stopOnFailure, released, starts>>

\* The end of that close(), and exit().
handleSigTermExits ==
    /\ proc = "term"
    /\ closeFinish
    /\ proc' = "quitting"
    /\ code' = "EXIT_NORMAL"
    /\ UNCHANGED <<configVars, sigterm, stopOnFailure, released, starts>>

\* Fault: only handleSigTerm closes.
aboutToQuitLeaves ==
    /\ proc = "quitting"
    /\ filling = None /\ ~closing
    /\ proc' = "leaving"
    /\ UNCHANGED <<vars, configVars, code, sigterm, stopOnFailure, released, starts>>

\* exec has ended.
aboutToQuit ==
    /\ proc = "quitting"
    /\ Closes("last", "leaving")
    /\ Follows
    /\ UNCHANGED <<noted, code, sigterm, stopOnFailure, released, starts>>

aboutToQuitEnds ==
    /\ proc = "last"
    /\ closeFinish
    /\ proc' = "leaving"
    /\ UNCHANGED <<configVars, code, sigterm, stopOnFailure, released, starts>>

\* main() returns; the library and the mirror end with the process.
returnsFromMain ==
    /\ proc = "leaving"
    /\ proc' = "down"
    /\ released' = (driver = "none" /\ slots = 0)
    /\ sigterm' = FALSE
    /\ noted' = {} /\ asked' = {} /\ again' = {}
    /\ driver' = "none" /\ slots' = 0 /\ serialPort' = FALSE /\ closing' = FALSE
    /\ homeId' = FALSE /\ running' = FALSE
    /\ queue' = <<>> /\ filling' = None
    /\ validNodes' = {} /\ validValues' = {} /\ written' = {}
    /\ ozwNodes' = [n \in Nodes |-> None] /\ nodeRows' = [n \in Nodes |-> None]
    /\ ozwValues' = [v \in Values |-> None]
    /\ rowNode' = [v \in Values |-> None] /\ rowData' = [v \in Values |-> None]
    /\ UNCHANGED <<code, stopOnFailure, starts>>

GoesOn == clientCloses \/ handleSigTermExits \/ aboutToQuitEnds \/ returnsFromMain

NextDaemon ==
    \/ startFails \/ \E ok, failureOption \in BOOLEAN : start(ok, failureOption)
    \/ library \/ slot \/ client
    \/ \E c \in Codes : brokerEnds(c)
    \/ termSignalHandler \/ handleSigTerm \/ aboutToQuit \/ GoesOn

SpecDaemon == InitDaemon /\ [][NextDaemon]_daemonVars

\* Slots run as posted, and close() and main() go on.  The dispatcher looks at
\* the socket, and exec at its end, again and again between the events it
\* delivers: strong fairness, as each of these waits for a moment between two
\* slots.
FairnessDaemon ==
    /\ WF_daemonVars((proc \in {"running", "quitting"} \/ filling # None) /\ slot)
    /\ WF_daemonVars(GoesOn)
    /\ SF_daemonVars(handleSigTerm)
    /\ SF_daemonVars(aboutToQuit)

LiveSpecDaemon == SpecDaemon /\ FairnessDaemon

-----------------------------------------------------------------------------
(* Properties.                                                             *)

\* Type invariant: OZWManager's, and where main() is goes with what the mirror
\* does; who was asked is noted.
TypeOKDaemon ==
    /\ TypeOK
    /\ proc \in {"down", "running", "term", "quitting", "last", "leaving"}
    /\ code \in Codes
    /\ {sigterm, stopOnFailure, released} \subseteq BOOLEAN
    /\ asked \subseteq noted /\ noted \subseteq Nodes /\ again \subseteq Nodes
    /\ proc \in {"term", "last"} => closing
    /\ starts \in 0..Starts

\* ConfigAsked: once all is handled, the library was asked to request the
\* configuration of every node whose queries are complete, the controller's
\* excepted: for this node, not for one that had its id before.  The named
\* exception are nodes that come when their id is in s_completedNodes, which is
\* never emptied: after a driver's reset, or replacing a removed node.
ConfigAsked ==
    proc = "running" /\ ~closing /\ Quiet =>
      \A n \in Nodes \ {Controller} : ozwNodes[n] = "complete" => n \in asked \cup again

\* SigTermEnds: after SIGTERM, whatever the network and its clients do and
\* whatever close() was under way, the process ends, and each time it ends it
\* has given back the driver and the watcher, also if a client opened the
\* network again in between.
SigTermEnds == sigterm ~> (proc = "down" /\ released)
=============================================================================
