---------------------------- MODULE RemoteClient ----------------------------
(***************************************************************************)
(* What a remote QTOZWManager and QTOZWOptions do with the connection that *)
(* RemoteLink makes: calls that wait for their answer, the properties of   *)
(* the options, and the daemon's signals.                                  *)
(*                                                                         *)
(* A call that returns something waits in an event loop of its own, so     *)
(* frames go on arriving and slots may call again: calls nest, and an      *)
(* outer one cannot return before the inner ones.  Replies carry the       *)
(* serial number of their call.  Options live three times: in OpenZWave's  *)
(* Options, which take nothing once locked, in the daemon's properties,    *)
(* and in the client's replica, which shows what the daemon says.          *)
(***************************************************************************)
EXTENDS RemoteLink

CONSTANTS
    Options,    \* names of options
    DataOf,     \* what each of them is set to: flags, paths, levels
    OptionFiles,\* what Options::Create may have read: functions from Options
    Default,    \* what a function returns for lack of an answer
    BusyKeys,   \* bound: keys of clients and daemons that do more than connect
    Uses        \* bound: calls, options set, starts and stops of the network

ASSUME RemoteClientAssumption ==
    /\ DOMAIN DataOf = Options
    /\ "NotifyTransaction" \notin Options
    /\ \A f \in OptionFiles : DOMAIN f = Options
    /\ {"manager", "options"} \subseteq Objects
    /\ Default \notin {"open", "get", "AddOption"}
    /\ BusyKeys \subseteq Keys
    /\ Uses \in Nat

VARIABLES
    \* the daemon
    library,    \* OpenZWave::Options, by name
    locked,     \* ... are locked
    property,   \* properties of QTOZWOptions_Internal
    opened,     \* open() was called
    started,    \* between the signals started and stopped
    listens,    \* parts whose changes are sent to the client
    \* the client
    packed,     \* properties in the options part on its way
    shown,      \* properties of QTOZWOptionsReplica
    waiting,    \* calls inside waitForFinished, the innermost last
    replies,    \* replies that arrived for calls that wait
    serial,     \* number of the replica's last call
    wired,      \* connections of each signal of the replica, connectSignals
    running,    \* m_running
    \* ghosts
    executed,   \* calls that wait and have been executed
    returned,   \* the call that returned in the last step, and how
    apart,      \* options whose property is not what the library was told last
    uses        \* counted for the bound Uses

daemonVars == <<library, locked, property, opened, started, listens>>
callVars == <<waiting, replies, serial, executed>>
shownVars == <<packed, shown>>
signalVars == <<wired, running>>
clientVars == <<daemonVars, callVars, shownVars, signalVars, apart, uses>>
allVars == <<vars, clientVars, returned>>

NoProperties == [o \in Options |-> "none"]

Kinds == {"open", "get", "AddOption"}
Call(k, n) == [kind |-> k, session |-> session, serial |-> n]

\* "NotifyTransaction" is no option of the library.
Names == Options \cup {"NotifyTransaction"}

\* The name under which pvt_...Changed writes an option.
NameOf(o) == IF o = "NotifyTransactions" THEN "NotifyTransaction" ELSE o

\* What populateProperties makes of a value of the library: a level that is
\* none of the enumerated becomes the first of them.
Populated(d) == IF d = "outOfRange" THEN "first" ELSE d

\* What pvt_...Changed makes of a property: a path ends with "/".
Written(d) == IF d = "path" THEN "path/" ELSE d

\* The property that a getter of QTOZWOptions reads.
GetterOf(o) == IF o = "NotifyOnDriverUnload" THEN "NotifyTransactions" ELSE o

\* The program that has the source opened the network before it listens, or
\* leaves that to a client.
InitClient ==
    /\ Init
    /\ \E file \in OptionFiles :
         /\ library = [n \in Names |-> IF n \in Options THEN file[n] ELSE "none"]
         /\ property = [o \in Options |-> Populated(file[o])]
         /\ apart = {o \in Options : Written(Populated(file[o])) # file[o]}
    /\ opened \in BOOLEAN /\ locked = opened /\ started = FALSE
    /\ listens = {}
    /\ packed = NoProperties /\ shown = NoProperties
    /\ waiting = <<>> /\ replies = {} /\ serial = 0
    /\ wired = 0 /\ running = FALSE
    /\ executed = {} /\ returned = {}
    /\ uses = 0

-----------------------------------------------------------------------------
(* Frames after the parts.                                                 *)

\* One more frame to end s.
Post(s, f) == chan' = [chan EXCEPT ![s] = IF socket[s] = "closed" THEN @ ELSE Append(@, f)]

\* What a source tells a client that has its part.
Told(p, f) == IF p \in listens THEN <<f>> ELSE <<>>

\* The next frame at end s is of this kind.
Takes(s, cmd) == Arrives(s) /\ Head(chan[s]).cmd = cmd

\* One of the bounded uses.
Use == uses < Uses /\ uses' = uses + 1

linkVars == <<config, stage, attempts, socket, replica, owed, session, lost, dropped>>

-----------------------------------------------------------------------------
(* The steps of RemoteLink, with what they do to the rest.                 *)

\* A new session has replicas of its own.  Calls that wait go on waiting for
\* those of the old one.
Connects ==
    /\ initilizeReplica
    /\ listens' = {}
    /\ packed' = NoProperties /\ shown' = NoProperties
    /\ serial' = 0
    /\ wired' = 0
    /\ UNCHANGED <<library, locked, property, opened, started, waiting, replies, executed, running, apart, uses>>

\* The options part takes the properties as they are now; from now on the
\* client is sent the changes of this part.
ServerSends(p) ==
    /\ ServerSendsPart(p)
    /\ packed' = IF p = "options" THEN property ELSE packed
    /\ listens' = listens \cup {p}
    /\ UNCHANGED <<library, locked, property, opened, started, shown, callVars, signalVars, apart, uses>>

\* Fault: the signals are connected once more for each part that arrives.
ConnectsEach(p) == wired + 1

\* checkReplicaReady connects the signals whenever it finds everything there.
ConnectsSignals(p) == IF checkReplicaReady(got', p) THEN wired + 1 ELSE wired

ClientGets ==
    /\ ClientBinary
    /\ LET p == Head(chan["client"]).arg IN
         IF stage["client"] = "Authenticated" /\ p # "objects"
         THEN /\ shown' = IF p = "options" THEN packed ELSE shown
              /\ packed' = IF p = "options" THEN NoProperties ELSE packed
              /\ wired' = ConnectsSignals(p)
         ELSE UNCHANGED <<shownVars, wired>>
    /\ UNCHANGED <<daemonVars, callVars, running, apart, uses>>

-----------------------------------------------------------------------------
(* Options.                                                                *)

\* Fault: populateProperties never clears m_updating.
UpdatingForever == TRUE

\* m_updating, once the slots are connected.
Updating == FALSE

\* setX of QTOZWOptions_Internal and the pvt_XChanged slot it triggers, whose
\* AddOption is refused once the options are locked.
SetsProperty(o, d) ==
    IF property[o] = d
    THEN UNCHANGED <<property, library, apart>>
    ELSE /\ property' = [property EXCEPT ![o] = d]
         /\ IF locked \/ Updating
            THEN UNCHANGED library /\ apart' = IF locked THEN apart \cup {o} ELSE apart
            ELSE /\ library' = [library EXCEPT ![NameOf(o)] = Written(d)]
                 /\ apart' = apart \ {o}

\* Fault: a change made while the options are locked is not told.
ChangedUnlocked(o, d) ==
    IF property[o] = d \/ locked THEN <<>> ELSE Told("options", Frame("changed", [name |-> o, value |-> d]))

Changed(o, d) == IF property[o] = d THEN <<>> ELSE Told("options", Frame("changed", [name |-> o, value |-> d]))

\* The daemon itself, or another client through it.
daemonSets(o, d) ==
    /\ Use
    /\ SetsProperty(o, d)
    /\ chan' = [chan EXCEPT !["client"] = IF socket["client"] = "closed" THEN @ ELSE @ \o Changed(o, d)]
    /\ UNCHANGED <<linkVars, locked, opened, started, listens, callVars, shownVars, signalVars>>

\* A setter of the client: it asks, and shows what the daemon answers.
clientSets(o, d) ==
    /\ ready
    /\ Use
    /\ Post("server", Frame("set", [name |-> o, value |-> d]))
    /\ UNCHANGED <<linkVars, daemonVars, callVars, shownVars, signalVars, apart>>

ServerSet ==
    /\ Takes("server", "set")
    /\ LET a == Head(chan["server"]).arg IN
         /\ SetsProperty(a.name, a.value)
         /\ Sends("server", Changed(a.name, a.value))
    /\ UNCHANGED <<linkVars, locked, opened, started, listens, callVars, shownVars, signalVars, uses>>

ClientChanged ==
    /\ Takes("client", "changed")
    /\ LET a == Head(chan["client"]).arg IN shown' = [shown EXCEPT ![a.name] = a.value]
    /\ Sends("client", <<>>)
    /\ UNCHANGED <<linkVars, daemonVars, callVars, packed, signalVars, apart, uses>>

-----------------------------------------------------------------------------
(* Calls.                                                                  *)

\* CALL_DPTR_RTN: not ready, the default; else the call and its event loop.
\* open is any function with an effect, get any other.
call(k) ==
    /\ ready
    /\ Use
    /\ serial' = serial + 1
    /\ waiting' = Append(waiting, Call(k, serial'))
    /\ Post("server", Frame("invoke", Call(k, serial')))
    /\ UNCHANGED <<linkVars, daemonVars, shownVars, replies, executed, signalVars, apart>>

\* A getter of the daemon: its guard refuses, or the library throws, and the
\* answer is the default; else what was asked for.
Gets(answer) ==
    /\ answer \in {"get", Default}
    /\ UNCHANGED <<locked, opened, library, apart>>

\* open() of the daemon's manager locks the options, and may fail after that.
Opens(answer) ==
    /\ locked' = TRUE
    /\ opened' \in {opened, TRUE}
    /\ answer = IF ~opened /\ opened' THEN "open" ELSE Default
    /\ UNCHANGED <<library, apart>>

\* AddOption... of QTOZWOptions_Internal writes the library behind the
\* property's back, unless it is locked.
AddsOption(answer) ==
    /\ UNCHANGED <<locked, opened>>
    /\ IF locked
       THEN answer = Default /\ UNCHANGED <<library, apart>>
       ELSE /\ answer = "AddOption"
            /\ \E o \in Options : \E d \in DataOf[o] \ {library[o]} :
                 /\ library' = [library EXCEPT ![o] = d]
                 /\ apart' = apart \cup {o}

ServerInvoke ==
    /\ Takes("server", "invoke")
    /\ LET c == Head(chan["server"]).arg IN
         /\ executed' = executed \cup ({c} \cap ToSet(waiting))
         /\ \E answer \in {c.kind, Default} :
              /\ Sends("server", <<Frame("reply", [serial |-> c.serial, answer |-> answer])>>)
              /\ CASE c.kind = "open" -> Opens(answer)
                   [] c.kind = "AddOption" -> AddsOption(answer)
                   [] c.kind = "get" -> Gets(answer)
    /\ UNCHANGED <<linkVars, property, started, listens, waiting, replies, serial, shownVars, signalVars, uses>>

ClientReply ==
    /\ Takes("client", "reply")
    /\ LET a == Head(chan["client"]).arg IN
         replies' = replies \cup {[call |-> c, answer |-> a.answer] :
                      c \in {w \in ToSet(waiting) : w.session = session /\ w.serial = a.serial}}
    /\ Sends("client", <<>>)
    /\ UNCHANGED <<linkVars, daemonVars, waiting, serial, executed, shownVars, signalVars, apart, uses>>

\* Fault: a reply is taken for the answer to the innermost call.
RepliesToLast(c) == replies

\* A reply belongs to the call of its replica that has its number.
RepliesTo(c) == {r \in replies : r.call = c}

\* The innermost event loop ends, with the reply or after three seconds.
returns ==
    /\ waiting # <<>>
    /\ LET c == waiting[Len(waiting)] IN
         /\ executed' = executed \ {c}
         /\ returned' = {[call |-> c, executed |-> c \in executed, result |-> a] :
                            a \in IF RepliesTo(c) = {} THEN {Default} ELSE {r.answer : r \in RepliesTo(c)}}
         /\ replies' = replies \ RepliesTo(c)
    /\ waiting' = Front(waiting)
    /\ UNCHANGED <<linkVars, chan, daemonVars, serial, shownVars, signalVars, apart, uses>>

-----------------------------------------------------------------------------
(* started and stopped.                                                    *)

\* pvt_driverReady; pvt_driverFailed, pvt_driverReset, pvt_driverRemoved.
networkTurns ==
    /\ opened
    /\ Use
    /\ started' = ~started
    /\ chan' = [chan EXCEPT !["client"] = IF socket["client"] = "closed" THEN @
                  ELSE @ \o Told("manager", Frame("signal", started'))]
    /\ UNCHANGED <<linkVars, library, locked, property, opened, listens, callVars, shownVars, signalVars, apart>>

\* setStarted, setStopped, if the signals are connected by now.
ClientSignal ==
    /\ Takes("client", "signal")
    /\ running' = IF wired > 0 THEN Head(chan["client"]).arg ELSE running
    /\ Sends("client", <<>>)
    /\ UNCHANGED <<linkVars, daemonVars, callVars, shownVars, wired, apart, uses>>

-----------------------------------------------------------------------------
\* The two programs' event loops, nested ones included.
ClientTakes ==
    \/ ClientText /\ UNCHANGED clientVars
    \/ ClientGets \/ ClientChanged \/ ClientReply \/ ClientSignal
    \/ (Closed("client") \/ GetsClose("client")) /\ UNCHANGED clientVars

ServerTakes ==
    \/ (ServerText \/ ServerBinary) /\ UNCHANGED clientVars
    \/ ServerSet \/ ServerInvoke
    \/ /\ Closed("server") \/ GetsClose("server")
       /\ listens' = {}
       /\ UNCHANGED <<library, locked, property, opened, started, callVars, shownVars, signalVars, apart, uses>>

\* The bound BusyKeys: once connected, nothing depends on keys or versions.
Busy == {serverKey, clientKey} \subseteq BusyKeys /\ clientVersion = ServerVersion

NextClient ==
    \/ returns
    \/ /\ returned' = {}
       /\ \/ Connects
          \/ Drop /\ UNCHANGED clientVars
          \/ ClientTakes \/ ServerTakes
          \/ \E p \in Parts : ServerSends(p)
          \/ Busy /\ \/ \E o \in Options : \E d \in DataOf[o] : daemonSets(o, d) \/ clientSets(o, d)
                     \/ \E k \in Kinds : call(k)
                     \/ networkTurns

SpecClient == InitClient /\ [][NextClient]_allVars

\* Something of this is left to do as long as frames are under way.
System ==
    /\ returned' = {}
    /\ ClientTakes \/ ServerTakes \/ \E p \in Parts : ServerSends(p)

\* Both programs run their event loops and Qt sends the parts it was asked for,
\* in any order and at any speed.  Nothing is assumed of the network between
\* them, of the application, or of when a call times out.
FairnessClient == WF_allVars(System)

LiveSpecClient == SpecClient /\ FairnessClient

-----------------------------------------------------------------------------
(* Properties.                                                             *)

ClientFrames == {"set", "changed", "invoke", "reply", "signal"}

CallType == [kind : Kinds, session : 1..Sessions, serial : 1..Uses]

\* Type invariant: the link's, with the frames of this module beside it, and
\* calls that wait in the order they were made.
TypeOKClient ==
    /\ LinkTypeOK
    /\ \A s \in Sides : \A i \in 1..Len(chan[s]) : chan[s][i].cmd \in ClientFrames \/ FrameOK(chan[s][i])
    /\ DOMAIN library = Names
    /\ locked \in BOOLEAN /\ opened \in BOOLEAN /\ started \in BOOLEAN /\ running \in BOOLEAN
    /\ DOMAIN property = Options /\ DOMAIN shown = Options
    /\ listens \subseteq Parts /\ apart \subseteq Options
    /\ waiting \in Seq(CallType) /\ executed \subseteq CallType
    /\ \A i, j \in 1..Len(waiting) : i < j =>
         \/ waiting[i].session < waiting[j].session
         \/ waiting[i].session = waiting[j].session /\ waiting[i].serial < waiting[j].serial
    /\ wired \in Nat

\* News of this kind, or of the end of the connection, is on its way.
Coming(cmd) == \E i \in 1..Len(chan["client"]) : chan["client"][i].cmd \in {cmd, "close"}

\* While the application is told that the manager is ready, the connection has
\* not been seen to close, both ends are authenticated and the three objects
\* have arrived in this session.  In the first session the three models have
\* too, each signal is connected once (a second connection would tell the
\* application everything twice), and isRunning() says yes only if the daemon's
\* network runs, or news of it or of the lost connection is on its way.
ReadyMeansMirrored ==
    ready => /\ socket["client"] = "open"
             /\ stage = [s \in Sides |-> "Authenticated"]
             /\ Objects \subseteq received
             /\ session = 1 =>
                  /\ received = Parts
                  /\ wired = 1
                  /\ running /\ ~Coming("signal") => started

\* AnswerIsOwn: a function returns its default or what the daemon answered to
\* this very call, which it has executed: nested calls, replies that come after
\* the time is up, lost connections and new sessions, whose numbers start again,
\* never hand a call the answer to another.
AnswerIsOwn ==
    \A r \in returned : r.result # Default => r.result = r.call.kind /\ r.executed

\* What a getter of the client's options returns.
Reads(o) == shown[GetterOf(o)]

\* OptionsAgree: the library has what the daemon's property says, unless it was
\* locked or AddOption... used; and a client that is ready reads what the
\* property says unless a change, or the end of the connection, is on its way,
\* whoever changed it and whenever the client came.  Two options are named exceptions, each for a misspelling:
\* NotifyTransactions is written under a name that is no option, and the getter
\* of NotifyOnDriverUnload reads NotifyTransactions.
OptionsAgree ==
    /\ \A o \in Options \ (apart \cup {"NotifyTransactions"}) : library[o] = Written(property[o])
    /\ ready /\ ~Coming("changed") =>
         \A o \in Options \ {"NotifyOnDriverUnload"} : Reads(o) = property[o]
=============================================================================
