----------------------------- MODULE RemoteLink -----------------------------
(***************************************************************************)
(* A remote QTOZWManager and the daemon it connects to: the two ends of    *)
(* WebSocketIoDevice, which agree on version and key before Qt's remote    *)
(* objects take the connection over, and checkReplicaReady, which makes    *)
(* the manager ready when its parts have arrived.  RemoteClient adds what  *)
(* the two say to each other from then on, and has the specification.      *)
(*                                                                         *)
(* One client and its connection; the daemon has a WebSocketIoDevice for   *)
(* every connection and they share nothing that is modelled.               *)
(***************************************************************************)
EXTENDS Naturals, Sequences, SequencesExt

CONSTANTS
    Keys,          \* keys, each a sequence of words; <<>> is no key
    Versions,      \* protocol versions of clients
    ServerVersion, \* PROTOCOL_VERSION of the daemon
    Objects,       \* replicated objects: the manager, the options, the log
    Models,        \* replicated models: nodes, values, associations
    Sessions       \* bound: calls of initilizeReplica

ASSUME RemoteLinkAssumption ==
    /\ \A k \in Keys : k \in Seq(STRING)
    /\ ServerVersion \in Versions
    /\ Objects \cap Models = {}
    /\ {"objects", "acquire"} \cap (Objects \cup Models) = {}
    /\ Sessions \in Nat

Sides == {"client", "server"}
Parts == Objects \cup Models
Stages == {"None", "Protocol", "Authenticate", "Authenticated"}

VARIABLES
    serverKey, clientKey, clientVersion,  \* how the two were started
    stage,     \* m_state of each end
    attempts,  \* m_authattempts of the server's end
    socket,    \* state of each end's QWebSocket
    chan,      \* frames on the way to each end
    owed,      \* parts the daemon still has to send
    got,       \* m_managerState, m_optionsState, m_logState = Valid and the three flags
    ready,     \* m_ready of the client
    session,   \* calls of initilizeReplica
    received,  \* ghost: parts that arrived in this session
    lost,      \* ghost: a binary frame arrived at an end that does not listen to it
    dropped    \* ghost: the connection was lost

config == <<serverKey, clientKey, clientVersion>>
ends == <<stage, attempts, socket, chan>>
replica == <<got, ready, received>>
vars == <<config, ends, replica, owed, session, lost, dropped>>

Frame(cmd, arg) == [cmd |-> cmd, arg |-> arg]
Binary(part) == Frame("binary", part)
CLOSE == Frame("close", "")
Violation == Frame("ERROR", "Protocol Violation")

Peer(s) == IF s = "client" THEN "server" ELSE "client"

Init ==
    /\ serverKey \in Keys /\ clientKey \in Keys /\ clientVersion \in Versions
    /\ stage = [s \in Sides |-> "None"]
    /\ attempts = 0
    /\ socket = [s \in Sides |-> "closed"]
    /\ chan = [s \in Sides |-> <<>>]
    /\ owed = {} /\ got = {} /\ received = {}
    /\ ready = FALSE
    /\ session = 0
    /\ lost = FALSE /\ dropped = FALSE

-----------------------------------------------------------------------------
(* initilizeReplica, the connection and its loss.                          *)

\* A manager is connected again only after its connection closed.  The flags
\* of the earlier session stay.
initilizeReplica ==
    /\ session < Sessions
    /\ session' = session + 1
    /\ socket = [s \in Sides |-> "closed"]
    /\ socket' = [s \in Sides |-> "open"]
    /\ stage' = [client |-> "None", server |-> "Protocol"]
    /\ attempts' = 0
    /\ chan' = [client |-> <<Frame("PROTOCOL", ServerVersion)>>, server |-> <<>>]
    /\ received' = {} /\ owed' = {} /\ lost' = FALSE /\ dropped' = FALSE
    /\ UNCHANGED <<config, got, ready>>

\* clientDisconnected.  Qt makes the replicas suspect; nobody resets the flags
\* of the models.
Disconnected(s) ==
    /\ socket' = [socket EXCEPT ![s] = "closed"]
    /\ got' = IF s = "client" THEN got \cap Models ELSE got
    /\ ready' = (ready /\ s # "client")

\* The end of a close() of this side.
Closed(s) ==
    /\ socket[s] = "closing"
    /\ Disconnected(s)
    /\ chan' = [chan EXCEPT ![s] = <<>>]
    /\ UNCHANGED <<config, stage, attempts, owed, session, received, lost, dropped>>

\* Each end that is open notices later.
Drop ==
    /\ \E s \in Sides : socket[s] = "open"
    /\ chan' = [s \in Sides |-> IF socket[s] = "open" THEN <<CLOSE>> ELSE <<>>]
    /\ dropped' = TRUE
    /\ UNCHANGED <<config, stage, attempts, socket, owed, replica, session, lost>>

-----------------------------------------------------------------------------
(* processTextMessage as a function: what an end in a stage does with a     *)
(* message - its next stage, what it sends, the signal it emits, whether it *)
(* closes the socket.                                                       *)

Does(st, send, signal, close) ==
    [stage |-> st, send |-> send, signal |-> signal, close |-> close]

Rejects(st, error) == Does(st, <<error>>, "authError", TRUE)

\* A client of another version goes on to the next stage; its PROTOCOL OK
\* follows the close() and is not sent.
ClientProcesses(st, f) ==
    CASE f.cmd = "ERROR" -> Does(st, <<>>, "authError", TRUE)
      [] st = "None" /\ f.cmd = "PROTOCOL" ->
           IF f.arg = clientVersion
           THEN Does("Authenticate", <<Frame("PROTOCOL", "OK")>>, "none", FALSE)
           ELSE Rejects("Authenticate", Frame("ERROR", "Incompatible Protocol Version"))
      [] st = "Authenticate" /\ f.cmd = "AUTH" ->
           Does(st, <<Frame("AUTH", clientKey)>>, "none", FALSE)
      [] st = "Authenticate" /\ f.cmd = "START" ->
           Does("Authenticated", <<>>, "authenticated", FALSE)
      [] OTHER -> Rejects(st, Violation)

\* section(" ", 1, 1): of the key, the message's second section holds the
\* first word.
FirstWord(key) == IF key = <<>> THEN <<>> ELSE <<Head(key)>>

\* Fault: the server's key only has to begin with the client's.
AcceptsPrefix(key) == IsPrefix(FirstWord(key), serverKey)

Accepts(key) == serverKey = <<>> \/ FirstWord(key) = serverKey

\* Fault: one attempt too many.
MoreAttemptsByOne == attempts <= 2

\* "three attempts, starting at 0"
MoreAttempts == attempts < 2

\* Fault: attempts are not counted.
SameAttempts == attempts

NextAttempts == attempts + 1

\* Fault: the connection is handed to Qt before START is sent.
HostSideBeforeStart == <<Binary("objects"), Frame("START", "")>>

\* START; then serverAuthenticated hands the connection to Qt, which begins
\* by naming its objects.
StartAndHostSide == <<Frame("START", ""), Binary("objects")>>

ServerProcesses(st, f) ==
    CASE f.cmd = "ERROR" -> Does(st, <<>>, "authError", TRUE)
      [] st = "Protocol" /\ f.cmd = "PROTOCOL" /\ f.arg = "OK" ->
           Does("Authenticate", <<Frame("AUTH", <<>>)>>, "none", FALSE)
      [] st = "Authenticate" /\ f.cmd = "AUTH" ->
           IF Accepts(f.arg)
           THEN Does("Authenticated", StartAndHostSide, "authenticated", FALSE)
           ELSE IF MoreAttempts
           THEN Does(st, <<Frame("AUTH", <<>>)>>, "none", FALSE)
           ELSE Rejects(st, Frame("ERROR", "Too Many Authentication Attempts"))
      [] OTHER -> Rejects(st, Violation)

-----------------------------------------------------------------------------
(* Frames arrive.                                                          *)

Arrives(s) == socket[s] = "open" /\ chan[s] # <<>>

Text(s) == Arrives(s) /\ Head(chan[s]).cmd \in {"PROTOCOL", "AUTH", "START", "ERROR"}
IsBinary(s) == Arrives(s) /\ Head(chan[s]).cmd = "binary"

\* What end s sends while it takes the first frame off its channel.
Sends(s, frames) ==
    chan' = [chan EXCEPT ![s] = Tail(@),
                         ![Peer(s)] = IF socket[Peer(s)] = "closed" THEN @ ELSE @ \o frames]

Applies(s, does) ==
    /\ stage' = [stage EXCEPT ![s] = does.stage]
    /\ socket' = [socket EXCEPT ![s] = IF does.close THEN "closing" ELSE @]
    /\ Sends(s, IF does.close THEN Append(does.send, CLOSE) ELSE does.send)

ClientText ==
    /\ Text("client")
    /\ LET does == ClientProcesses(stage["client"], Head(chan["client"])) IN
         /\ Applies("client", does)
         /\ ready' = (ready /\ does.signal # "authError")
    /\ UNCHANGED <<config, attempts, got, received, owed, session, lost, dropped>>

ServerText ==
    /\ Text("server")
    /\ LET f == Head(chan["server"]) IN
         /\ Applies("server", ServerProcesses(stage["server"], f))
         /\ attempts' = IF f.cmd = "AUTH" /\ ~Accepts(f.arg) /\ MoreAttempts
                        THEN NextAttempts ELSE attempts
    /\ UNCHANGED <<config, replica, owed, session, lost, dropped>>

\* The other end closed, or the connection was lost.
GetsClose(s) ==
    /\ Arrives(s)
    /\ Head(chan[s]).cmd = "close"
    /\ Disconnected(s)
    /\ chan' = [chan EXCEPT ![s] = <<>>]
    /\ UNCHANGED <<config, stage, attempts, owed, received, session, lost, dropped>>

\* The client's Qt node asks for the parts it has acquired.
ServerBinary ==
    /\ IsBinary("server")
    /\ Sends("server", <<>>)
    /\ IF stage["server"] = "Authenticated"
       THEN owed' = Parts /\ UNCHANGED lost
       ELSE lost' = TRUE /\ UNCHANGED owed
    /\ UNCHANGED <<config, stage, attempts, socket, replica, session, dropped>>

ServerSendsPart(p) ==
    /\ socket["server"] = "open"
    /\ p \in owed
    /\ owed' = owed \ {p}
    /\ chan' = [chan EXCEPT !["client"] = IF socket["client"] = "closed" THEN @ ELSE Append(@, Binary(p))]
    /\ UNCHANGED <<config, stage, attempts, socket, replica, session, lost, dropped>>

\* Fault: the arrival of a model does not check.
checkReplicaReadySkips(g, p) == g = Parts /\ p \in Objects

\* checkReplicaReady after p's state changed.
checkReplicaReady(g, p) == g = Parts

\* onManagerStateChange and the five like it.  The list of objects is answered
\* by asking for the parts that clientConnected acquired.
ClientBinary ==
    /\ IsBinary("client")
    /\ LET p == Head(chan["client"]).arg IN
       IF stage["client"] # "Authenticated"
       THEN lost' = TRUE /\ Sends("client", <<>>) /\ UNCHANGED replica
       ELSE /\ UNCHANGED lost
            /\ IF p = "objects"
               THEN Sends("client", <<Binary("acquire")>>) /\ UNCHANGED replica
               ELSE /\ Sends("client", <<>>)
                    /\ got' = got \cup {p}
                    /\ received' = received \cup {p}
                    /\ ready' = (ready \/ checkReplicaReady(got', p))
    /\ UNCHANGED <<config, stage, attempts, socket, owed, session, dropped>>

-----------------------------------------------------------------------------
(* Properties.                                                             *)

FrameOK(f) ==
    CASE f.cmd = "PROTOCOL" -> f.arg \in Versions \cup {"OK"}
      [] f.cmd = "AUTH" -> f.arg \in Keys \cup {<<>>}
      [] f.cmd = "binary" -> f.arg \in Parts \cup {"objects", "acquire"}
      [] OTHER -> f.cmd \in {"ERROR", "START", "close"}

LinkTypeOK ==
    /\ serverKey \in Keys /\ clientKey \in Keys /\ clientVersion \in Versions
    /\ stage \in [Sides -> Stages]
    /\ attempts \in 0..2
    /\ socket \in [Sides -> {"open", "closing", "closed"}]
    /\ owed \subseteq Parts /\ got \subseteq Parts /\ received \subseteq Parts
    /\ ready \in BOOLEAN /\ lost \in BOOLEAN /\ dropped \in BOOLEAN
    /\ session \in 0..Sessions

\* The client may connect: same version, and a key the server takes.
Compatible ==
    /\ clientVersion = ServerVersion
    /\ serverKey # <<>> => clientKey # <<>> /\ <<Head(clientKey)>> = serverKey

\* The version is checked by the client and the key by the server, in messages
\* that cross: neither end gives the connection to Qt unless both agree.
OnlyCompatible == \A s \in Sides : stage[s] = "Authenticated" => Compatible

\* START and Qt's binary frames share the connection, and an end listens to
\* binary frames only once it is authenticated: none comes too early, and no
\* end ever takes a message of the other for a violation of the protocol.
NothingLost ==
    /\ ~lost
    /\ \A s \in Sides : \A i \in 1..Len(chan[s]) :
         chan[s][i].cmd = "ERROR" => chan[s][i].arg # Violation.arg

\* A compatible client whose connection is not lost becomes ready, in whatever
\* order the parts arrive.
CompatibleGetsReady ==
    (socket["client"] = "open" /\ Compatible) ~> (ready \/ dropped)

\* A client that is not compatible is not asked for its key forever.
IncompatibleIsClosed ==
    (socket["server"] = "open" /\ ~Compatible) ~> (socket["server"] = "closed")
=============================================================================
