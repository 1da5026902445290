# A TLA+ model of qt-openzwave and ozwdaemon

qt-openzwave mirrors a Z-Wave network, which the OpenZWave library runs on a thread of its own,
into Qt models; makes these models available to remote programs through Qt's remote objects; and
`ozwdaemon` shows them to MQTT clients as retained messages. Everything it promises is a promise
about copies: what a model, a remote replica or the broker shows is what the network is. This
directory states those promises in TLA+, checks them with TLC on small instances and proves the
safety properties and the refinements with TLAPS.

Paths below are relative to the repository; `P` is `qt-openzwave/source/qtozwmanager_p.cpp` and
`Q` is `qt-ozwdaemon/mqttpublisher.cpp`.

## 1. The system

| component | state | operations | talks to |
|---|---|---|---|
| OpenZWave (external) | driver, nodes, values, groups | its own thread; notifications, getters, commands | `OZWNotification` by callback |
| `OZWNotification` (`qtozwnotification.cpp`) | a singleton with one signal per notification | `processNotification`, on the library's thread | `QTOZWManager_Internal`, queued connections |
| `QTOZWManager_Internal` (`P`) | `m_validNodes`, `m_validValues`, `homeId`, serial port, three models | `open`, `close`, one `pvt_` slot per notification, commands | library by call, models by call, publisher by signal |
| node, value, association models (`qtoz…model*.cpp`) | rows | add, delete, set, reset, `setData` by clients | views, Qt's model replication |
| `QTOZWManager` (`qtozwmanager.cpp`) | `m_running`, `m_ready`, six replica states | `initilizeSource`, `initilizeReplica`, forwarded commands | sources or replicas, `WebSocketIoDevice` |
| `WebSocketIoDevice` | stage, attempts, key | text handshake, binary transport | its peer by WebSocket frames |
| `QTOZWLog`, `QTOZWLog_Internal` (`qtozwlog*.cpp`) | bounded buffer, static iterator, timer | `Write` (two threads), resize, `syncroniseLogs` | every client's copy by signals |
| `mqttpublisher` (`Q`, `mqttValues.cpp`, `mqttNodes.cpp`) | JSON document per node and value, groups, status | one slot per signal, `cleanTopics`, connection handling | broker by `QMqttClient`, manager by direct call |
| `MqttCommands` (`mqttcommands/*`) | 39 subscriptions | parse, check, call the manager, answer | manager, broker |
| `qtozwdaemon`, `main` | settings, `s_completedNodes` | start, SIGTERM, request configurations | all of the above |
| `QTOZWOptions`, `QTOZWOptions_Internal` (`qtozwoptions*.cpp`) | the options as properties, `m_updating` | get, set, `AddOption…`, fill from the library | library until it is locked, replicas |
| simple client (`qt-simpleclient`) | editors of values | open, commit | models or their replicas |
| proxy models, pods, database | filters, records, files | filtering, copying | models, files |

What is hard about it:

* **Two threads and a queue.** A notification is a signal on the library's thread and a slot on
  the main thread. The slot does not get the state the report was about: it calls the library's
  getters, which answer for a later moment, and `pvt_valueAdded` calls a dozen of them one after
  the other.
* **Re-entrance.** `close()` removes the driver, which pumps the event loop, and disconnects
  signals whose events already wait.
* **Asynchronous copies.** Replicas, the log copy and the broker's retained messages follow
  through channels that may be cut, while their source goes on changing. Parts arrive in any
  order. Batches of old lines and new lines mix.
* **Nested event loops.** A remote call waits for its reply in an event loop of its own, in which
  slots run and call again; a reply may come too late, or after a reconnection.
* **Restarts.** The broker outlives the daemon, and the old daemon's messages are removed while the
  new one already publishes.
* **Bookkeeping by number.** Rows numbered by count, members compared by place, buffers sized from
  two ends.

What makes each component correct: the mirror agrees with the library whenever no event waits,
and never contradicts itself in between (§3.1); group rows belong to nodes that exist and show
members the library listed (§3.2); a replica is ready exactly if it is connected, accepted and
complete (§3.3); buffers keep their sizes and a synchronised copy is the log (§3.4); the broker
shows nothing that is gone, hides nothing that lives, and never shows the status of a dead daemon
(§3.5); a command acts on what its check looked at, or answers an error (§3.6); the process ends when
it is told to and leaves nothing open (§3.7); what is edited is what the device is sent and what is
shown again (§3.8).

`PROJECT.json` lists the components, the hazards at their lines with the properties that cover
them, the runs, the mutants and the source lines of every definition.

## 2. Modules

| module | models | run by |
|---|---|---|
| `OZWManager` | mirror: notification → queue → slot → node and value models; open, close, edits | `MCOZWManager` |
| `LaggingCopy` | abstract: what a mirror of a changing set promises | as `NetworkCopy` |
| `NetworkCopy` | the refinement mapping from `OZWManager` to `LaggingCopy` | `MCOZWManager` |
| `OZWManagerProofs` | theorems about `OZWManager`: queue, nodes and keys, then `homeId`, rows and data, then that it implements `LaggingCopy` | TLAPS |
| `DaemonProofs`, `MqttCommandsProofs` | theorems about `Daemon` and `MqttCommands`, from those of `OZWManagerProofs`, which they extend | TLAPS |
| `RemoteClientProofs` | theorems about `RemoteLink` and `RemoteClient`, then that the latter implements `Replica` | TLAPS |
| `AssociationsProofs`, `LogSyncProofs`, `MqttPublisherProofs`, `ValueCodecProofs` | theorems about the modules they are named after | TLAPS |
| `Daemon` | the process: start, SIGTERM, exit codes, configuration requests; extends `OZWManager` | `MCDaemon` |
| `MqttCommands` | checks, manager's guards, effects and answers of the 39 commands; getters, statistics, names of nodes; extends `OZWManager` | `MCMqttCommands` |
| `Associations` | group table and its refresh, AddAssociation, RemoveAssociation | `MCAssociations` |
| `RemoteLink` | handshake of both ends, loss of the connection, readiness of the replica | as `RemoteClient` |
| `RemoteClient` | calls and replies, options, started and stopped over that link; extends `RemoteLink` | `MCRemoteClient` |
| `Replica` | abstract: what a remote copy promises when connections come and go | as `OptionsReplica` |
| `OptionsReplica` | the refinement mapping from `RemoteClient` to `Replica`; extends `RemoteClient` | `MCRemoteClient` |
| `LogSync` | log buffers, two writers, batch synchronisation | `MCLogSync` |
| `MqttPublisher` | documents, topics, status, cleaning, restarts, broker | `MCMqttPublisher` |
| `ValueCodec` | conversions of one value: library, row, document, setvalue, editors | `MCValueCodec` |

Conventions. Definitions keep the names of the functions they model (`pvt_nodeAdded`,
`cleanTopics`, also `m_assoications` and `initilizeReplica` as spelt). Actions of external
parts are called `Ozw…` or described as external; they do no more than the code that uses them
relies on. *Ghost* variables only remember something for a property. *Bound* constants keep the
instances finite and guard nothing the code does. Operators marked *Fault* are not part of any
specification: each is what a plausible bug would make of the definition below it, and putting it
in the place of that definition breaks the property that `PROJECT.json` names with it.

## 3. The models and what the runs show

### 3.1 `OZWManager`: the mirror

*Correspondence.* `ozwNodes` and `ozwValues` are what the library's getters say at this moment;
`Notify` is `processNotification` with the queued connections of `open()`: an event for each
connection. A `pvt_` action is one slot, the whole of it: `pvt_nodeRemoved` drops the values with
their keys and rows, the row and the valid node. `pvt_valueAdded` is the exception. It is two
actions, because the library's thread can remove the value between `IsValueValid` and the getters;
`filling` is the value whose slot is under way and no other slot runs meanwhile. If a getter then
throws, the row keeps what it has, with or without its Node column. `pvt_driverFailed`,
`pvt_driverReset` and `pvt_driverRemoved` do the same to the mirror and are `pvt_driverDown`.
`nodeInfo` stands for the five reports that copy fields into an existing row, and
`pvt_valueChanged` also stands for `pvt_valueRefreshed`. `open(ok)` returns early if the watcher is
registered; `close` is two steps with event handling in between.

*Properties.* `NodesConverge` and `ValuesConverge` say that with no event waiting the mirror is the
library's state, for stages, keys, rows and data, whatever happened between report and slot.
`RowsAreListed` relates models and id sets at every moment: the node of a filled row is valid
(`RowsNameValidNodes`) and each row has its key (`RowsHaveKeys`). The second is the answer to the comment at `P:1699`, "technically, this shouldn't be required... but just in case":
it is not required. `HomeIdGuardsModels` justifies the use of `homeId()` as the guard of all
commands. `WatchedOnce` covers repeated and failed `open()`. Liveness: `RemovedNodesLeave`,
`CloseEndsNetwork`. The second one matters because `close()` disconnects the signals before the
events it caused have been handled.

*Refinement.* `LaggingCopy` is what any mirror fed by a queue promises: its copy becomes each set the
source was, in that order, skipping and inventing none. `NetworkCopy` maps `OZWManager` to it: the
source is the library's nodes, the copy `m_validNodes`, and the lag the sets that the waiting
events will make of it, which is computed from the queue alone. `CopySpec` says that every step of
the manager is a step of the abstraction or a stutter. It is not obvious: slots read a library that is
ahead of them, `pvt_driverDown` drops many nodes at once, and an event about a node that has gone
again must still count as its step.

*Runs.* `manager_mirror`: two nodes, a value each, two data, three waiting events. Two nodes are
needed for one node's removal to touch, or not, the other's rows; three events let a node be
removed and added again behind a value event that still waits. The two liveness properties are
checked where the whole process runs, in `daemon` (§3.7).

### 3.2 `Associations`: group rows

*Correspondence.* `rows` is the `QMap` from row number to row; `addGroup` takes the number of rows
as the new number, `delNode` leaves the others' numbers. `Refresh` is `pvt_nodeGroupChanged`: add
the group, add the members `findAssociation` does not find, then delete (`Keep` keeps the others) those
the second loop does not find. That loop runs over `j` and compares entry `i` (`P:1617`); past the end of the listing it
reads memory that is not the listing's, so each outcome is possible there. `AddAssociation` and
`RemoveAssociation` consult the table, not the library.

*Runs.* `assoc_groups` (two nodes, a group each, one of them with instances, three events) shows
that the table contains no group of a departed node, no group twice, and no member the library
never listed. `assoc_members` finds what the code breaks: with a second member the refresh deletes a
member that the library still lists.

A second flaw stays inside these properties: after a node left, a new row takes the number of another
node's row and replaces it (`qtozwassociationmodel_p.cpp:51`); until that group is reported again
it is missing, and its members cannot be removed, since `RemoveAssociation` looks in the table.

### 3.3 `RemoteLink` and `RemoteClient`: a program and its remote daemon

*Correspondence of the link.* `ClientProcesses` and `ServerProcesses` are `processTextMessage` of
each end as functions from stage and message to next stage, answers, signal and close. The client's
missing `return` after a version mismatch is kept: it goes on to the next stage, and only the
closing socket stops it. `FirstWord` is the `section(" ", 1, 1)` that cuts a key at its first space.
Binary frames belong to Qt's remote objects (external): the daemon names its objects, the client
acquires them, six parts arrive in any order and `checkReplicaReady` runs after each.

*Correspondence of the rest.* `RemoteClient` lets both programs use the link. `call` sends an
`invoke` and puts the call on `waiting`, the stack of nested event loops in `waitForFinished`
(`qtozwreplica.h:66`); `returns` is the innermost one ending, with its reply or after three seconds.
Serial numbers start again with each session, as they do with each replica. An option is in
`library` (OpenZWave's own), in `property` (the source) and in `shown` (the replica); setting it on
either side ends in `SetsProperty`, the generated setter with the `pvt_…Changed` slot behind it.
`Opens` locks the library's options, even when the open fails. `networkTurns` is a driver that gets
ready or goes down; its signal reaches the client only from `connectSignals` on.

*Properties.* `OnlyCompatible` (both ends, version and key), `NothingLost` (START always precedes
what Qt sends; no end takes the other for a violator), the two outcomes `CompatibleGetsReady` and
`IncompatibleIsClosed`; `ReadyMeansMirrored`, which includes that signals are connected once and that
`isRunning()` follows the network; `AnswerIsOwn`; `OptionsAgree`. The last one names its exceptions.
What was set after the lock, or with `AddOption…`, differs from the library on purpose or by design.
`NotifyTransactions` is written under the name `NotifyTransaction`, which the library does not
know (`qtozwoptions_p.cpp:274`), and the getter of `NotifyOnDriverUnload` reads
`NotifyTransactions` (`qtozwoptions.cpp:244`).

*Refinement.* `Replica` is what a remote copy promises while its connection comes and goes. As long as
the owner of the copy is told of changes (`told`), the copy becomes each state the source has from
then on, in that order and leaving none out; when what is on its way is lost, the copy stays at a state
the source had; a new session begins with nothing. `OptionsReplica` maps `RemoteClient` to it, with
the daemon's properties as the source and the client's options as the copy. The lag is what each frame on
its way to the client will make of the options (`ShownAfter`): the options part sets all of them to what
was packed, a change sets one, all other frames none, and nothing behind an end of the connection
counts. `ReplicaSpec` is stronger than the part of `OptionsAgree` that is about client and properties: that one
compares the two ends when nothing is on its way, this one forbids that a state is skipped, that
two changes are exchanged, or that an option falls back to an older value, at any time. A state is all
options together, so it matters that the part is packed at one moment. A client's own
setting is shown when the daemon has taken it and told so: the setters only ask.

*Run.* `remote_client`: two versions, no key, a one-word and a two-word key, two sessions, loss of
the connection at any moment. Two replicated objects and one model stand for three and three: the
code treats the members of each kind alike. `Uses` = 2 uses (calls, settings, starts and stops) let
calls nest and a setting race a call; `BusyKeys` lets only clients without a key use the link, since
nothing after START depends on the key. Four options stand for the thirty: the two mixed-up flags, a
path and a level that is out of range. With two options that can be set, a part differs from a change and
the order of two changes shows. In a second session the model flags are still set from the first one
(`qtozwmanager.cpp:387`), so `ReadyMeansMirrored` asks for the models only in the first; nothing in
the repository starts a second.

*Fairness.* One weak fairness condition on the two event loops and Qt's sending together: frames
under way are eventually taken. Nothing is assumed of the network, the application, or the time a
call takes. A lost connection excuses readiness. Deadlock is not checked, since with no session left
the system may stop.

### 3.4 `LogSync`: the log and its copies

*Correspondence.* A line is its number. `WriteOzw` is `Write` on the library's thread, whose signal
is posted; `WriteMain` is `Write` called on the main thread, whose signal goes out at once and
overtakes the posted ones. `iter` and `started` are the *static* iterator and flag of
`sendSyncLogsBatch`; `connects` counts the connections to the timer, each call adds one. `PushBack`
and `PushFront` are the two ends of a buffer, `setLogBufSize` pops the difference of sizes.

*Runs.* `log_sync`: two clients, three lines, batches of one, buffers of two and one, one call.
Batches of one make every line a batch border; with three lines and a capacity of two each of the
buffers overflows from either end. `FirstSyncExact` says what a copy holds at every moment while only
one synchronisation was asked for; `LogBounded` holds for every buffer through every resize; `SyncFinishes`
holds under running event loops and timer. `log_sync_again`: a second call empties the client's
copy and the static iterator sends nothing.

The size 0 is left out (`Sizes`): with it the code pops an empty vector. Deadlock is not checked:
with all lines written and all calls made the system stops.

### 3.5 `MqttPublisher`: what the broker shows

*Correspondence.* The publisher's slots are connected directly, so an action is a manager's slot
with the publisher's slot. `retained` maps topics to retained messages; `Publish` does nothing unless
the client is connected, which is what `QMqttClient::publish` does. `Encoded` and `EncodeChanges`
are `encodeValue`: from the second time on the list of a BitSet is moved out of its document
(`mqttValues.cpp:127`) and what is published is empty. `RemovedWith` gives the topics of
`valueRemoved`; class and instance topics go with their last value. `setData` is an edit by a client:
it changes the row and publishes nothing, the document follows when the device reports the value
(`edited` remembers such rows for the properties). `start` is `main`: it begins to
connect and publishes "starting" before the event loop can finish connecting. `connected`
subscribes, and each retained message then comes to `cleanTopics`. `exit` is a normal end or a
crash: the destructor and the broker's will both leave "Offline". `disconnected` is final, since the
code never connects again.

The second answer of `cleanTopics`, ending the process when another instance's status arrives, is
not modelled. The status "Ready" is not among `Statuses` because nothing publishes it: the source's
`readyChanged` is emitted once, at the end of `initilizeSource` (`qtozwmanager.cpp:131`), which the
constructor of the daemon calls, and `setOZWDaemon` (`main.cpp:398`, `Q:356`) connects it to
`ready` (`Q:574`) only afterwards. Live messages that the daemon receives of its own publications carry no retain flag,
and a second instance with the same client id makes the broker end the first one's session and
publish its will.

*Properties.* `NoGhosts`, `OnlyCleaningHides` (an action property: no step takes a live topic away
except a late old message), `ShownIsLatest`, `StatusIsHonest`.

*Runs.* `mqtt_publish`: a node with a plain value and a BitSet in two classes of one instance, one
group, two starts. Two values under one instance, each last in its class, exercise the sharing of
topics; two starts give predecessor's messages to clean. The data values are symmetric. One run
disagrees with `docs/MQTT.md`:

* `mqtt_latest`: a node published while still connecting is missing although the status vouches for
  the topics (`docs/MQTT.md:76`). Moved-out BitSets break the same statement.

Deadlock is not checked: with no start left a daemon that exits stays down.

### 3.6 `MqttCommands`: what clients ask of the network

*Correspondence.* The module extends `OZWManager`; `Mirror` is any step of it and `Command` is one
message, handled whole. `messageReceived` answers `malformed` messages. The other handlers have one
shape, `processMessage`: the check of the command against the models (`checkNode`, `checkValue`),
the guard of the manager's function (`checkHomeId`, `checkNodeId`, `checkValueKey`), the library's
answer (`NodeTakes` and its like: only what it has can be accepted, the rest throws or is refused),
and the reply, which uses the result or, where the function is void, says "ok". Commands that agree
in all four are one action with a flag; the comments name them. `Narrow` is the cast to `quint8` in
`checkNode` and in the manager's parameters. `deleteAllReturnRoute` has no `return` after its error;
`setValueSchedule` sends no answer; both are kept. `openCommand` and `closeCommand` are the mirror's
`open` and `close` with their answer: the events pumped inside `close()` exclude the broker's socket
(`qtozwnotification.cpp:246`), so no command is handled within another. `setValue` reads type and
flags from the row, which may be half filled (`filled` says which rows are not), refuses by type,
and writes the row if it differs. The two association commands go through the same checks; the
table they change is in `Associations`. Three more callers share the manager's guards: the getters,
which remote programs call; `doStats`, which a timer calls even while `close()` pumps events, for
each row of the node model; and `setNodeData`, the edit of a node's name, which
`pvt_nodeModelDataChanged` hands on without any guard. None of them is answered on MQTT. `handled` is a ghost: the message of the last step, its
answers, whether the check passed and what the library was asked about.

*Properties.* `CheckedIsAsked`: the models the daemon checks and the lists and `homeId()` the
manager checks agree whenever a command runs, so a checked command always reaches the library.
`NoNetworkNoCall`: no command reaches the library without a network, although `enablePoll`,
`disablePoll`, `setData` and `setNodeData` never ask. `AnsweredOnce` with its two named exceptions.
`MirrorSpec` is the
refinement: with MQTT clients at work the manager is a behaviour of `OZWManager`, so everything
proved of it in §4 holds.

*Runs.* `commands`: one node with one value, which may be a Byte that can or cannot be written, a
BitSet or a Schedule; the numbers -1, 0, 1 and 257; two waiting events. One node suffices, since a
handler looks at one node or value and the interleavings that matter are those of its own reports;
the four kinds reach every branch of `setValue` that differs in control, and the four numbers each
outcome of the check. No fairness is assumed.

Not a property, but in the model: a dozen commands call functions without a result and say "ok"
whatever became of them (`tells` is FALSE). With no network `softresetcontroller` is accepted, where
`docs/MQTT.md:401` says that "failed" indicates a command that was not accepted. Half-filled rows
show a value as a Bool that may be written, so `setvalue` may write a read-only value then.

### 3.7 `Daemon`: the process

*Correspondence.* The module extends `OZWManager` with `main()` around it. `proc` is where `main()` is:
`start` creates the objects and opens the network (the process runs on if that fails), `startFails`
are the exits before. `slot` is the mirror's slots with what hangs on two of them:
`nodeQueriesComplete`, and `driverFailed` of the publisher, which exits under `StopOnFailure`.
`brokerEnds` are the publisher's two exits. `handleSigTerm` closes and then exits; `aboutToQuit` closes
once more; each is two steps, with the events that `close()` pumps in between. Since sockets are left
out of that pumping (`qtozwnotification.cpp:246`), neither the signal's notifier nor the broker
interrupts it. `returnsFromMain` empties everything the process held; `stopOnFailure` stays, because
`--stop-on-failure` is written to the settings and never taken back (`main.cpp:383`).
`EXIT_NOMQTTPASS` is no value of `code`: `exit()` is called before `exec()` and has no effect
(`Q:78`).

*Properties.* `ConfigAsked`: each node that completed its queries was asked for its configuration,
except nodes whose id is in `s_completedNodes` from before (`again`), which the code forgets.
`SigTermEnds`: SIGTERM leads to the end of the process with driver and watcher given back, also if
clients open and close the network meanwhile. `RemovedNodesLeave` and `CloseEndsNetwork` are those of
§3.1 with all of this going on.

*Run.* `daemon`: the controller and another node with a value, two waiting events, one life of the
process. Two events suffice for the liveness properties: a removal and what follows it. One life is
enough since only `stopOnFailure` outlives it, and it starts as either.

*Fairness.* `slot` and the ends of `close()` and `main()` weakly: Qt delivers posted events and the
driver's removal returns. `handleSigTerm` and `aboutToQuit` strongly: each waits for a moment between
two slots, which comes again and again but does not last while the library goes on reporting; the
dispatcher looks at the socket in each round, and `exec` at its end. Deadlock is not checked: a
process that has ended for the last time stays ended.

### 3.8 `ValueCodec`: what is written and what is shown

*Correspondence.* One value of a chosen type. `Shown` is `convertValueID`, `DataOf` and `Sends` are
`pvt_valueModelDataChanged`, `Encoded` and `ReEncoded` are `encodeValue` for a new and for an existing
document. A report makes row and document anew (`convertValueID`); `valueRefreshed` publishes the
document in any case, `valueChanged` only if its Value, its Units or its flags changed, so what is
retained is a variable of its own, `topic`. The five actions `setValue...` are the branches of `setvalue`.
`setEditorData` and `commits` are the editors of the simple client: a List's, a Bool's and a
number's write what they show if it differs from the row, a BitSet's gives back the row it began with and
the boxes switched since, and those of Decimals, Buttons, Strings and Raws write nothing, because
`setModelData` has no case for these types (`qtozw_itemdelegate.cpp:257`): the edit is lost
(`losesEdit`). A Decimal is a double in JSON and in the row and a float in the library: `Float` is
`toFloat` (`P:2159`, `P:1362`), any function that leaves floats alone; the library's own text form of a
Decimal is not modelled. Writes wait in `pending` until the device takes or refuses them; `deviceReports` is a
change of its own. `meant` is a ghost: what all edits and reports came to in their order. `crossed`
remembers that something met that the code does not sort out; the comment of `EditsArrive` lists
these cases.

*Properties.* `TypeOKCodec` is about widths: whatever passes through the wider variants and JSON
numbers, the library is sent data of its type. `EditsArrive`: when all is settled, the device
holds what was meant (of a Decimal its float), the row shows it and so does the topic. A lost edit is one
of its exceptions, as is a refused write: nothing is claimed until a report is handled with no write
under way, and from then on everything again, which shows that neither leaves a lasting trace. `TopicFollows` asks
the same of the topics of BitSets, and fails: `codec_topic`.

*Runs.* `Sizes` says how many numbers each type has. The casts need it to be even, the code has 2^8, 2^16
and 2^32. `value_codec` has numbers of two and three bits (a sign bit and a number beyond it are all
that casts depend on), a List of three whose values are not their positions, four Decimals of
which two are floats, BitSets with and without bit 0, two writes on their way and one editor. Two writes let an edit undo one that has not
arrived. `codec_topic` is the same instance.

Disagreements with `docs/MQTT.md` that are in the model but are no run: negative Shorts and Integers
are refused, where line 1105 promises the range of the type; a List takes one of its values, where
line 1109 says position.

## 4. What is proved

Each theorem holds for every value of the constants, infinite sets of nodes, values, clients or data
included, and from the `ASSUME` of its module alone. What is assumed there is little: a value belongs
to one node; `None` and the few marks the models use are no node, value or datum; bounds are
natural numbers; buffer sizes and batches are not 0; a type has an even number of numbers, and the entries
of a List have labels and values of their own; a float is not changed by narrowing; the log of the daemon is no client; a key is a
sequence of strings, and the objects and models of the replica are different things. The runs
evaluate these assumptions for their instances.

Every invariant the passing runs check is proved; so are the action property `OnlyCleaningHides` and
the refinements `CopySpec`, `MirrorSpec` and `ReplicaSpec`.

| module | theorems | property |
|---|---|---|
| `OZWManagerProofs` | `Inductive`: `Spec => []IInv` | |
| | `TypeCorrect`, `NodesConvergeAlways`, `RowsAreListedAlways`, `WatchedOnceAlways` | `TypeOK`, and those named |
| | `MirrorInductive`: `Spec => []MirrorInv` | |
| | `ValuesConvergeAlways`, `HomeIdGuardsModelsAlways` | those named |
| | `ImplementsCopy`: `Spec => CopySpec` | refinement of `LaggingCopy` |
| `DaemonProofs` | `DaemonInductive`, `DaemonTypes`, `ConfigAskedAlways` | `TypeOKDaemon`, `ConfigAsked` |
| | `MirrorInDaemon` | those of the mirror, of `SpecDaemon` |
| `MqttCommandsProofs` | `CommandsInductive`, `CommandTypes`, `CheckedIsAskedAlways`, `NoNetworkNoCallAlways`, `AnsweredOnceAlways` | `TypeOKCommands`, and those named |
| | `CommandsKeepMirror`: `SpecCommands => MirrorSpec` | refinement of `OZWManager` |
| `AssociationsProofs` | `AssociationsInductive`, `AssociationTypes`, `GroupsOfValidNodesAlways`, `MembersWereListedAlways` | `TypeOK`, and those named |
| `RemoteClientProofs` | `LinkInductive`, `OnlyCompatibleAlways`, `NothingLostAlways` | those named |
| | `ClientInductive`, `ClientTypes`, `AnswerIsOwnAlways` | `TypeOKClient`, `AnswerIsOwn` |
| | `ReadyInductive`, `ReadyMeansMirroredAlways`, `OptionsAgreeAlways` | those named |
| | `ImplementsReplica`: `SpecClient => ReplicaSpec` | refinement of `Replica` |
| `LogSyncProofs` | `LogInductive`, `LogTypes`, `LogBoundedAlways`, `FirstSyncExactAlways` | `TypeOK`, and those named |
| `MqttPublisherProofs` | `PublisherInductive`, `PublisherTypes`, `NoGhostsAlways`, `ShownIsLatestAlways`, `StatusIsHonestAlways` | `TypeOK`, and those named |
| | `OnlyCleaningHidesAlways` | an action property |
| `ValueCodecProofs` | `CodecInductive`, `CodecTypes`, `EditsArriveAlways` | `TypeOKCodec`, `EditsArrive` |

Hardly any of these properties is inductive as stated: they speak of an empty queue, of rows, of a ready
client, and what makes them true is what waits or is on its way. The inductive invariants say it, and
that is where the interest of the proofs is.

**The mirror.** `IInv` is about nodes and keys. `PresenceInv`: for each node, the last event in the
queue that touches it (or, if none does, the mirror) agrees with the library. `StageInv`: a row's
stage is current unless a report that refreshes it waits. `OrderInv`: at the position of each waiting
`valueAdded`, the node of the value will be valid. `LinkInv` ties slots, driver and closing together;
`FillInv` says that the node of a row being filled is valid. `ValidAt(n, i)` and `GoneAt(n, i)` express
"when event i is handled" by the last earlier event that touches `n`; lemmas say how these two
change when an event is posted or taken off, and when a whole driver goes down.

`MirrorInv` adds three parts. `HomeInv`: the waiting driver reports lead `homeId` to the driver's
state, a node is reported only behind the report of its driver, and without `homeId` the models are
empty. `ValueInv`: a value of the library has its row, or an event that no later one undoes will give
it; what the library no longer has will be taken away, its row as well as each event that would bring
the row back. `CopyInv`: the library's nodes are the valid nodes after all waiting events, which is
all `ImplementsCopy` needs. The proofs sort the steps of the manager by what they do to queue and
library, post one event (`Reports`), take the oldest (`Handles`) or neither, prove what follows from
the kind, and have then one step per action.

**The daemon and the commands.** A step of either module is a step of the mirror, or in the daemon's
case its end, after which the mirror is as it began; so `MirrorInv` holds in both, and with it the
mirror's safety properties (`MirrorInDaemon`). `ConfigInv`: a node
that is complete and not noted has a waiting `nodeInfo` that will note it, and `InfoInv` says that
the node is still valid then. That the checks of a command, made in the models, agree with the checks of the
manager, made in its lists and `homeId`, is `MirrorInv` in the state where the command runs.

**Groups.** A row, or a waiting group event, is about a node the library has, or the report
that the node left waits behind it (`RowsInv`, `QueueInv`). Either that report waits for a row too, or
all its members were listed since the node was added. `Keep` is a recursive function, and what it
returns for every list is proved by the least length for which it could be wrong.

**The remote client.** What an end may believe depends on the frames under way, so `LinkInv` says for
each text frame which stages both ends are in while it travels, that at most one handshake is
under way, and that START is ahead of the binary frames. `CallsInv` numbers the calls and says of each invoke, reply and kept
answer which waiting call it belongs to. `PartsInv`, `GotInv`, `SignalInv` and `OptionInv` account for
the parts on the way, what the client got of them and, for each option and for the network's state,
that the last change on the way is the source's value. `CloseInv`: a client whose peer has closed will
hear of it.

**The options as a copy.** Which of the waiting frames set an option, and which of them is the last to do so,
decides what the client will show after each frame (`ShownAfter`). A frame that leaves the head moves the
numbers of the others by one and takes effect itself; new frames come behind all others and change what is
shown after them only. That what is shown after the last frame is the daemon's properties while changes are sent
(`LatestIsSource`) follows from `OptionInv`, option by option. Then each action of client, server and
connection is one step of `Replica` or a stutter; the end of a connection is `Lose`, because nothing behind it
sets anything any more.

**The log.** `Stream`: along the signals on the way to a client a count of the older lines runs from what the
client has to what the daemon has sent; each older line is the next one, and the end is told where the
count is complete. `Shows`: a log that was not resized is the newest lines, as many as fit, of the older lines it
got followed by the new ones. It is kept by a push at either end, which is where overflow is.
Both are claimed while only one call was made (`First`), because of the static iterator.

**The publisher.** `RowInv` relates documents and rows: publisher and manager agree on
which values there are, and on the data of plain values no client has edited. `GroupInv`: each group
the broker shows is remembered in `m_assoications`, or is an old message that will be cleaned.
Topics of different things are different, which is a lemma about their construction.

**The codec.** A cast returns a number of the type, keeps what the type can hold and depends on nothing
but the remainder by the size, whatever the size is; this is stated once (`Cast…` lemmas) and cited. `MeantInv`
says that until something crossed, what was meant is what the last write on its way will bring, or else
what the library holds; that the row is what the library holds, unless a report or a write is under way; and
that, BitSets apart, the topic has what the document has, since `valueChanged` leaves out only what is the same.
Each edit, through `setvalue` of any type or an editor, gives `setData` something of which one lemma
(`SetDataKeeps`) says what becomes of row, write and what was meant.

Model-checked only:

* liveness under fairness: `RemovedNodesLeave`, `CloseEndsNetwork`, `SigTermEnds`, `CompatibleGetsReady`,
  `IncompatibleIsClosed`, `SyncFinishes`. The prover has no rule for them that the installed backends can
  discharge, and none for ENABLED.

## 5. Disagreements found

| run | code | statement |
|---|---|---|
| `assoc_members` | `P:1617` compares entry `i` instead of `j`: refresh deletes listed members | `docs/MQTT.md:1212` |
| `log_sync_again` | `qtozwlog_p.cpp:175`: the iterator is static, later calls send nothing | comment at `qtozwlog.cpp:153` |
| `mqtt_latest` | `Q:454` publishes before the connection exists, never again | `docs/MQTT.md:76` |
| `codec_topic` | `mqttValues.cpp:135` sets each bit to its own old value in a list that was moved away: the topic of a BitSet does not follow | `docs/MQTT.md:1120` |

Met while modelling and described above without a run: rows numbered by count (§3.2), "ok" without a
result (§3.6), misspelt options (§3.3), `setvalue`'s ranges and positions (§3.8). Also,
`pvt_driverAwakeNodesQueried` emits `driverAllNodesQueried` (`P:2075`), so the status
"driverAwakeNodesQueried" of `docs/MQTT.md:67` is never published, nor is "Ready" (`docs/MQTT.md:60`,
§3.5). The simple client opens editors for Decimals, Buttons, Strings and Raws and drops what is
entered (§3.8); no document speaks of it, so that there is no run.

## 6. Not modelled

* Data races (the log written on one thread and read on another, the library's structures): every
  access is one atomic step.
* The fields of JSON documents other than Value, the numbers in the statistics, wording and logging.
* Controller-command reports and the flag that says a value is polled; neither changes state modelled
  here.
* Views' row notifications. Some are wrong by one (`qtozwvalueidmodel_p.cpp:116`, `:120`).
* Proxy models, pods, the database copy and the windows of the example client (`PROJECT.json` has the
  reason for each).

## 7. Plan

Done: all modules of §2, with the refinements and the proofs of §4.

To model, if anything is added: node documents in `MqttPublisher`, with the inverted test at `Q:731` and
the old device's MetaData; and a composition of `OZWManager`'s queue with `MqttPublisher`'s documents, for
the null dereference at `Q:683`.
