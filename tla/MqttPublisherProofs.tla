------------------------- MODULE MqttPublisherProofs -------------------------
(***************************************************************************)
(* Proofs about MqttPublisher, for any network, any values and groups, any *)
(* instances and classes they are shared by, and any number of starts.     *)
(*                                                                         *)
(* What the broker holds is compared with the rows of the manager, but     *)
(* what the publisher sends and clears follows its own documents.  The     *)
(* invariant therefore relates documents and rows (RowInv), and the groups *)
(* the publisher remembers and the messages at the broker (GroupInv).      *)
(***************************************************************************)
EXTENDS MqttPublisher, TLAPS

\* A value with a row has a document, and the document of a plain value holds
\* what its row holds unless a client edited the row.
RowInv ==
    \A v \in Values : valueRow[v] # None =>
      /\ m_values[v] # None
      /\ v \notin BitSets \cup edited => m_values[v] = valueRow[v]

\* The publisher remembers each group that is shown, but for old messages.
GroupInv ==
    Connected => \A n \in Nodes, g \in Groups :
      retained[AssociationTopic(n, g)] # None =>
        g \in m_assoications[n] \/ AssociationTopic(n, g) \in toClean

\* Only a process that runs has a connection.
RunInv == ~ running => client = "disconnected"

PublisherInv == TypeOK /\ NoGhosts /\ ShownIsLatest /\ StatusIsHonest /\ RowInv /\ GroupInv /\ RunInv

\* What OnlyCleaningHides says of a step.
HidesByCleaning ==
    \A t \in Topics : retained[t] # None /\ retained'[t] = None /\ t \in Live' => t \in toClean \ toClean'

-----------------------------------------------------------------------------
(* Topics: no two of different kinds, nor of different things, are equal.  *)

LEMMA TopicsApart ==
    /\ \A n, m : NodeTopic(n) = NodeTopic(m) => n = m
    /\ \A v, w : ValueTopic(v) = ValueTopic(w) => v = w
    /\ \A n, m, g, h : AssociationTopic(n, g) = AssociationTopic(m, h) => n = m /\ g = h
    /\ \A n, m, g : NodeTopic(n) # AssociationTopic(m, g)
    /\ \A n, v : NodeTopic(n) \notin {ValueTopic(v), ClassTopic(v), InstanceTopic(v)}
    /\ \A n, g, v : AssociationTopic(n, g) \notin {ValueTopic(v), ClassTopic(v), InstanceTopic(v)}
    /\ \A v, w : ValueTopic(v) \notin {ClassTopic(w), InstanceTopic(w)}
    /\ \A v, w : ClassTopic(v) # InstanceTopic(w)
BY DEF NodeTopic, ValueTopic, AssociationTopic, ClassTopic, InstanceTopic

LEMMA TopicsAre ==
    /\ \A n \in Nodes : NodeTopic(n) \in Topics
    /\ \A n \in Nodes, g \in Groups : AssociationTopic(n, g) \in Topics
    /\ \A v \in Values : ValueTopic(v) \in Topics /\ ClassTopic(v) \in Topics /\ InstanceTopic(v) \in Topics
BY DEF Topics

LEMMA TopicsOnly ==
    ASSUME NEW t \in Topics
    PROVE  \/ \E n \in Nodes : t = NodeTopic(n)
           \/ \E n \in Nodes, g \in Groups : t = AssociationTopic(n, g)
           \/ \E v \in Values : t \in {ValueTopic(v), ClassTopic(v), InstanceTopic(v)}
BY DEF Topics

\* What lives, by kind of topic.
LEMMA LiveAre ==
    \A t : t \in Live <=>
      \/ \E n \in nodes : t = NodeTopic(n)
      \/ \E n \in nodes, g \in Groups : t = AssociationTopic(n, g)
      \/ \E v \in Values : valueRow[v] # None /\ t \in {ValueTopic(v), ClassTopic(v), InstanceTopic(v)}
BY DEF Live

LEMMA LiveAreThen ==
    \A t : t \in Live' <=>
      \/ \E n \in nodes' : t = NodeTopic(n)
      \/ \E n \in nodes', g \in Groups : t = AssociationTopic(n, g)
      \/ \E v \in Values : valueRow'[v] # None /\ t \in {ValueTopic(v), ClassTopic(v), InstanceTopic(v)}
BY DEF Live

-----------------------------------------------------------------------------
(* Publishing.                                                             *)

LEMMA PublishDoes ==
    ASSUME DOMAIN retained = Topics, NEW messages, Publish(messages)
    PROVE  /\ DOMAIN retained' = Topics
           /\ \A t \in Topics : retained'[t] =
                IF Connected /\ t \in DOMAIN messages THEN messages[t] ELSE retained[t]
BY DEF Publish

LEMMA ClearDoes ==
    ASSUME DOMAIN retained = Topics, NEW topics, Clear(topics)
    PROVE  /\ DOMAIN retained' = Topics
           /\ \A t \in Topics : retained'[t] = IF Connected /\ t \in topics THEN None ELSE retained[t]
BY DEF Publish, Clear

LEMMA PublishTextDoes ==
    ASSUME DOMAIN retained = Topics, NEW topic, PublishText(topic)
    PROVE  /\ DOMAIN retained' = Topics
           /\ \A t \in Topics : retained'[t] = IF Connected /\ t = topic THEN "text" ELSE retained[t]
BY DEF Publish, PublishText

LEMMA PublishValueDoes ==
    ASSUME DOMAIN retained = Topics, NEW v, NEW d, PublishValue(v, d)
    PROVE  /\ DOMAIN retained' = Topics
           /\ \A t \in Topics : retained'[t] = IF Connected /\ t = ValueTopic(v) THEN d ELSE retained[t]
BY DEF Publish, PublishValue

\* A value that the publisher encodes is a value, and of a plain one what it holds.
LEMMA EncodedIs ==
    ASSUME NEW v \in Values, NEW d \in Data
    PROVE  /\ Encoded(v, d) \in Data \cup {"emptied"}
           /\ Encoded(v, d) # None
           /\ v \notin BitSets => Encoded(v, d) = d
BY ConstantsAssumption DEF Encoded

-----------------------------------------------------------------------------
(* Slots that show: topics of what lives now, and nothing goes.            *)

LEMMA ShowingKeeps ==
    ASSUME PublisherInv, NEW shown,
           client' = client, toClean' = toClean,
           nodes \subseteq nodes',
           \A v \in Values : valueRow[v] # None => valueRow'[v] # None,
           \A n \in Nodes : m_assoications[n] \subseteq m_assoications'[n],
           \A t \in Topics : retained'[t] = retained[t] \/ (t \in shown /\ retained'[t] # None),
           \A t \in shown : t \in Live',
           \A n \in Nodes, g \in Groups : AssociationTopic(n, g) \in shown => g \in m_assoications'[n]
    PROVE  NoGhosts' /\ GroupInv' /\ HidesByCleaning
<1>1. \A t \in Live : t \in Live'
  BY LiveAre, LiveAreThen
<1>2. NoGhosts'
  BY <1>1 DEF PublisherInv, NoGhosts, Connected
<1>3. GroupInv'
  BY TopicsAre DEF PublisherInv, GroupInv, Connected
<1>4. HidesByCleaning
  BY DEF HidesByCleaning
<1>5. QED
  BY <1>2, <1>3, <1>4

\* Nothing of nodes, values and groups is published.
LEMMA QuietKeeps ==
    ASSUME PublisherInv,
           UNCHANGED <<client, toClean, nodes, valueRow, edited, m_values, m_assoications, retained>>
    PROVE  NoGhosts' /\ ShownIsLatest' /\ RowInv' /\ GroupInv' /\ HidesByCleaning
<1>1. NoGhosts' /\ GroupInv' /\ HidesByCleaning
  <2> DEFINE shown == {}
  <2>1. /\ \A t \in Topics : retained'[t] = retained[t] \/ (t \in shown /\ retained'[t] # None)
        /\ \A t \in shown : t \in Live'
        /\ \A n \in Nodes, g \in Groups : AssociationTopic(n, g) \in shown => g \in m_assoications'[n]
    OBVIOUS
  <2> HIDE DEF shown
  <2>2. QED
    BY <2>1, ShowingKeeps
<1>2. ShownIsLatest'
  BY DEF PublisherInv, ShownIsLatest, Connected
<1>3. RowInv'
  BY DEF PublisherInv, RowInv
<1>4. QED
  BY <1>1, <1>2, <1>3

LEMMA NodeAddedKeeps ==
    ASSUME PublisherInv, NEW n \in Nodes, nodeAdded(n)
    PROVE  TypeOK' /\ NoGhosts' /\ ShownIsLatest' /\ RowInv' /\ GroupInv' /\ HidesByCleaning
<1>1. /\ DOMAIN retained' = Topics
      /\ \A t \in Topics : retained'[t] = IF Connected /\ t = NodeTopic(n) THEN "text" ELSE retained[t]
  BY PublishTextDoes DEF nodeAdded, PublisherInv, TypeOK
<1>2. TypeOK'
  <2>1. \A m \in Nodes : retained'[NodeTopic(m)] \in {None, "text"}
    BY <1>1, TopicsAre DEF PublisherInv, TypeOK
  <2>2. \A v \in Values : retained'[ValueTopic(v)] = retained[ValueTopic(v)]
    BY <1>1, TopicsAre, TopicsApart
  <2>3. QED
    BY <1>1, <2>1, <2>2 DEF PublisherInv, TypeOK, nodeAdded, processVars
<1>3. NoGhosts' /\ GroupInv' /\ HidesByCleaning
  <2>1. NodeTopic(n) \in Live'
    BY LiveAreThen DEF nodeAdded
  <2>2. \A t \in Topics : retained'[t] = retained[t] \/ (t \in {NodeTopic(n)} /\ retained'[t] # None)
    BY <1>1, ConstantsAssumption
  <2>3. \A m \in Nodes, g \in Groups : AssociationTopic(m, g) \notin {NodeTopic(n)}
    BY TopicsApart
  <2>4. /\ UNCHANGED <<client, toClean, valueRow, m_assoications>>
        /\ nodes \subseteq nodes'
    BY DEF nodeAdded, processVars
  <2>5. \A t \in {NodeTopic(n)} : t \in Live'
    BY <2>1
  <2> HIDE DEF nodeAdded
  <2>6. QED
    BY <2>2, <2>3, <2>4, <2>5, ShowingKeeps
<1>4. ShownIsLatest'
  BY <1>1, TopicsAre, TopicsApart DEF PublisherInv, ShownIsLatest, Connected, nodeAdded, processVars
<1>5. RowInv'
  BY DEF PublisherInv, RowInv, nodeAdded
<1>6. QED
  BY <1>2, <1>3, <1>4, <1>5

LEMMA NodeGroupChangedKeeps ==
    ASSUME PublisherInv, NEW n \in Nodes, NEW g \in Groups, nodeGroupChanged(n, g)
    PROVE  TypeOK' /\ NoGhosts' /\ ShownIsLatest' /\ RowInv' /\ GroupInv' /\ HidesByCleaning
<1>1. /\ DOMAIN retained' = Topics
      /\ \A t \in Topics : retained'[t] = IF Connected /\ t = AssociationTopic(n, g) THEN "text" ELSE retained[t]
  BY PublishTextDoes DEF nodeGroupChanged, PublisherInv, TypeOK
<1>2. TypeOK'
  <2>1. \A m \in Nodes : retained'[NodeTopic(m)] = retained[NodeTopic(m)]
    BY <1>1, TopicsAre, TopicsApart
  <2>2. \A v \in Values : retained'[ValueTopic(v)] = retained[ValueTopic(v)]
    BY <1>1, TopicsAre, TopicsApart
  <2>3. m_assoications' \in [Nodes -> SUBSET Groups]
    BY DEF PublisherInv, TypeOK, nodeGroupChanged
  <2>4. QED
    BY <1>1, <2>1, <2>2, <2>3 DEF PublisherInv, TypeOK, nodeGroupChanged, processVars, managerVars
<1>3. NoGhosts' /\ GroupInv' /\ HidesByCleaning
  <2>1. AssociationTopic(n, g) \in Live'
    BY LiveAreThen DEF nodeGroupChanged, managerVars
  <2>2. \A t \in Topics : retained'[t] = retained[t] \/ (t \in {AssociationTopic(n, g)} /\ retained'[t] # None)
    BY <1>1, ConstantsAssumption
  <2>3. /\ UNCHANGED <<client, toClean, valueRow, nodes>>
        /\ m_assoications' = [m_assoications EXCEPT ![n] = @ \cup {g}]
    BY DEF nodeGroupChanged, processVars, managerVars
  <2>4. \A m \in Nodes, h \in Groups : AssociationTopic(m, h) \in {AssociationTopic(n, g)} => h \in m_assoications'[m]
    BY <2>3, TopicsApart DEF PublisherInv, TypeOK
  <2>5. \A m \in Nodes : m_assoications[m] \subseteq m_assoications'[m]
    BY <2>3 DEF PublisherInv, TypeOK
  <2>6. \A t \in {AssociationTopic(n, g)} : t \in Live'
    BY <2>1
  <2>7. QED
    BY <2>2, <2>3, <2>4, <2>5, <2>6, ShowingKeeps
<1>4. ShownIsLatest'
  BY <1>1, TopicsAre, TopicsApart DEF PublisherInv, ShownIsLatest, Connected, nodeGroupChanged, processVars, managerVars
<1>5. RowInv'
  BY DEF PublisherInv, RowInv, nodeGroupChanged, managerVars
<1>6. QED
  BY <1>2, <1>3, <1>4, <1>5

-----------------------------------------------------------------------------
(* Slots of values: the row, the document and the message of one value.    *)

\* A value is told: its row and its document hold it, and it is published
\* unless the document, and so the message, held it before.
LEMMA ValueToldKeeps ==
    ASSUME PublisherInv, NEW v \in Values, NEW d \in Data,
           valueRow' = [valueRow EXCEPT ![v] = d],
           edited' = edited \ {v},
           m_values' = [m_values EXCEPT ![v] = Encoded(v, d)],
           UNCHANGED <<driver, nodes, m_assoications, m_ozwstatus, processVars, retainedStatus>>,
           DOMAIN retained' = Topics,
           \A t \in Topics : \/ retained'[t] = retained[t]
                             \/ t = ValueTopic(v) /\ retained'[t] = Encoded(v, d)
                             \/ t \in {InstanceTopic(v), ClassTopic(v)} /\ retained'[t] = "text",
           \/ Connected => retained'[ValueTopic(v)] = Encoded(v, d)
           \/ valueRow[v] # None /\ m_values[v] \in {d, "emptied"}
    PROVE  TypeOK' /\ NoGhosts' /\ ShownIsLatest' /\ RowInv' /\ GroupInv' /\ HidesByCleaning
<1>1. TypeOK'
  <2>1. \A n \in Nodes : retained'[NodeTopic(n)] = retained[NodeTopic(n)]
    BY TopicsAre, TopicsApart
  <2>2. \A w \in Values : retained'[ValueTopic(w)] \in Data \cup {None, "emptied"}
    BY TopicsAre, TopicsApart, EncodedIs DEF PublisherInv, TypeOK
  <2>3. \A w \in Values : w \notin BitSets => m_values'[w] # "emptied"
    BY EncodedIs, ConstantsAssumption DEF PublisherInv, TypeOK
  <2>6. m_values' \in [Values -> Data \cup {None, "emptied"}]
    BY EncodedIs DEF PublisherInv, TypeOK
  <2>4. /\ valueRow' \in [Values -> Data \cup {None}]
        /\ edited' \subseteq {w \in Values \ BitSets : valueRow'[w] # None}
    BY ConstantsAssumption DEF PublisherInv, TypeOK
  <2>5. QED
    BY <2>1, <2>2, <2>3, <2>4, <2>6 DEF PublisherInv, TypeOK, processVars
<1>2. NoGhosts' /\ GroupInv' /\ HidesByCleaning
  <2> DEFINE shown == {ValueTopic(v), InstanceTopic(v), ClassTopic(v)}
  <2>1. valueRow'[v] # None /\ \A w \in Values \ {v} : valueRow'[w] = valueRow[w]
    BY ConstantsAssumption DEF PublisherInv, TypeOK
  <2>2. \A t \in shown : t \in Live'
    BY <2>1, LiveAreThen
  <2>3. \A t \in Topics : retained'[t] = retained[t] \/ (t \in shown /\ retained'[t] # None)
    BY EncodedIs, ConstantsAssumption
  <2>4. \A n \in Nodes, g \in Groups : AssociationTopic(n, g) \notin shown
    BY TopicsApart
  <2>5. UNCHANGED <<client, toClean, nodes, m_assoications>>
    BY DEF processVars
  <2>6. \A w \in Values : valueRow[w] # None => valueRow'[w] # None
    BY <2>1
  <2> HIDE DEF shown
  <2>7. QED
    BY <2>2, <2>3, <2>4, <2>5, <2>6, ShowingKeeps
<1>3. ShownIsLatest'
  <2> SUFFICES ASSUME Connected', NEW w \in Values \ BitSets,
                      retained'[ValueTopic(w)] # None, ValueTopic(w) \notin toClean'
               PROVE  retained'[ValueTopic(w)] = IF w \in edited' THEN m_values'[w] ELSE valueRow'[w]
    BY DEF ShownIsLatest
  <2>1. Connected /\ toClean' = toClean
    BY DEF Connected, processVars
  <2>2. CASE w = v /\ retained'[ValueTopic(v)] = Encoded(v, d)
    BY <2>2, EncodedIs DEF PublisherInv, TypeOK
  <2>3. CASE w = v /\ valueRow[v] # None /\ m_values[v] \in {d, "emptied"} /\ retained'[ValueTopic(v)] = retained[ValueTopic(v)]
    <3>1. m_values[v] = d
      BY <2>3, ConstantsAssumption DEF PublisherInv, TypeOK
    <3>2. retained[ValueTopic(v)] = IF v \in edited THEN m_values[v] ELSE valueRow[v]
      BY <2>1, <2>3 DEF PublisherInv, ShownIsLatest
    <3>3. v \notin edited => m_values[v] = valueRow[v]
      BY <2>3 DEF PublisherInv, RowInv
    <3>4. valueRow'[v] = d /\ v \notin edited'
      BY DEF PublisherInv, TypeOK
    <3>5. QED
      BY <2>3, <3>1, <3>2, <3>3, <3>4
  <2>4. CASE w # v
    <3>1. retained'[ValueTopic(w)] = retained[ValueTopic(w)]
      BY <2>4, TopicsAre, TopicsApart
    <3>2. valueRow'[w] = valueRow[w] /\ m_values'[w] = m_values[w] /\ (w \in edited' <=> w \in edited)
      BY <2>4 DEF PublisherInv, TypeOK
    <3>3. QED
      BY <2>1, <3>1, <3>2 DEF PublisherInv, ShownIsLatest
  <2>5. retained'[ValueTopic(v)] = Encoded(v, d) \/ retained'[ValueTopic(v)] = retained[ValueTopic(v)]
    BY TopicsAre, TopicsApart
  <2>6. QED
    BY <2>1, <2>2, <2>3, <2>4, <2>5
<1>4. RowInv'
  <2> SUFFICES ASSUME NEW w \in Values, valueRow'[w] # None
               PROVE  /\ m_values'[w] # None
                      /\ w \notin BitSets \cup edited' => m_values'[w] = valueRow'[w]
    BY DEF RowInv
  <2>1. CASE w = v
    BY <2>1, EncodedIs DEF PublisherInv, TypeOK
  <2>2. CASE w # v
    <3>1. valueRow'[w] = valueRow[w] /\ m_values'[w] = m_values[w] /\ (w \in edited' <=> w \in edited)
      BY <2>2 DEF PublisherInv, TypeOK
    <3>2. QED
      BY <3>1 DEF PublisherInv, RowInv
  <2>3. QED
    BY <2>1, <2>2
<1>5. QED
  BY <1>1, <1>2, <1>3, <1>4

LEMMA ValueAddedKeeps ==
    ASSUME PublisherInv, NEW v \in Values, NEW d \in Data, valueAdded(v, d)
    PROVE  TypeOK' /\ NoGhosts' /\ ShownIsLatest' /\ RowInv' /\ GroupInv' /\ HidesByCleaning
<1> DEFINE messages == [t \in {InstanceTopic(v), ClassTopic(v), ValueTopic(v)} |->
                           IF t = ValueTopic(v) THEN Encoded(v, d) ELSE "text"]
<1>1. Publish(messages)
  BY DEF valueAdded
<1>2. /\ DOMAIN messages = {InstanceTopic(v), ClassTopic(v), ValueTopic(v)}
      /\ messages[ValueTopic(v)] = Encoded(v, d)
      /\ messages[InstanceTopic(v)] = "text" /\ messages[ClassTopic(v)] = "text"
  BY TopicsApart
<1> HIDE DEF messages
<1>3. /\ DOMAIN retained' = Topics
      /\ \A t \in Topics : retained'[t] = IF Connected /\ t \in DOMAIN messages THEN messages[t] ELSE retained[t]
  BY <1>1, PublishDoes DEF PublisherInv, TypeOK
<1>4. \A t \in Topics : \/ retained'[t] = retained[t]
                        \/ t = ValueTopic(v) /\ retained'[t] = Encoded(v, d)
                        \/ t \in {InstanceTopic(v), ClassTopic(v)} /\ retained'[t] = "text"
  BY <1>2, <1>3
<1>5. Connected => retained'[ValueTopic(v)] = Encoded(v, d)
  BY <1>2, <1>3, TopicsAre
<1>6. /\ valueRow' = [valueRow EXCEPT ![v] = d]
      /\ edited' = edited \ {v}
      /\ m_values' = [m_values EXCEPT ![v] = Encoded(v, d)]
      /\ UNCHANGED <<driver, nodes, m_assoications, m_ozwstatus, processVars, retainedStatus>>
  BY DEF valueAdded
<1>7. QED
  BY <1>3, <1>4, <1>5, <1>6, ValueToldKeeps

\* The value was published, or its document shows that it need not be.
LEMMA ValueChangedKeeps ==
    ASSUME PublisherInv, NEW v \in Values, NEW d \in Data, valueChanged(v, d) \/ valueRefreshed(v, d)
    PROVE  TypeOK' /\ NoGhosts' /\ ShownIsLatest' /\ RowInv' /\ GroupInv' /\ HidesByCleaning
<1>1. /\ valueRow[v] # None
      /\ valueRow' = [valueRow EXCEPT ![v] = d]
      /\ edited' = edited \ {v}
      /\ m_values' = [m_values EXCEPT ![v] = Encoded(v, d)]
      /\ UNCHANGED <<driver, nodes, m_assoications, m_ozwstatus, processVars, retainedStatus>>
  BY DEF valueChanged, valueRefreshed
<1>2. CASE PublishValue(v, Encoded(v, d))
  <2>1. /\ DOMAIN retained' = Topics
        /\ \A t \in Topics : retained'[t] = IF Connected /\ t = ValueTopic(v) THEN Encoded(v, d) ELSE retained[t]
    BY <1>2, PublishValueDoes DEF PublisherInv, TypeOK
  <2>2. \A t \in Topics : retained'[t] = retained[t] \/ (t = ValueTopic(v) /\ retained'[t] = Encoded(v, d))
    BY <2>1
  <2>3. Connected => retained'[ValueTopic(v)] = Encoded(v, d)
    BY <2>1, TopicsAre
  <2>4. QED
    BY <1>1, <2>1, <2>2, <2>3, ValueToldKeeps
<1>3. CASE ~ EncodeChanges(v, d) /\ UNCHANGED retained
  <2>1. m_values[v] \in {d, "emptied"}
    BY <1>3 DEF EncodeChanges
  <2>2. DOMAIN retained' = Topics /\ \A t \in Topics : retained'[t] = retained[t]
    BY <1>3 DEF PublisherInv, TypeOK
  <2>3. QED
    BY <1>1, <2>1, <2>2, ValueToldKeeps
<1>4. PublishValue(v, Encoded(v, d)) \/ (~ EncodeChanges(v, d) /\ UNCHANGED retained)
  BY DEF valueChanged, valueRefreshed
<1>5. QED
  BY <1>2, <1>3, <1>4

LEMMA SetDataKeeps ==
    ASSUME PublisherInv, NEW v \in Values, NEW d \in Data, setData(v, d)
    PROVE  TypeOK' /\ NoGhosts' /\ ShownIsLatest' /\ RowInv' /\ GroupInv' /\ HidesByCleaning
<1>1. /\ v \notin BitSets /\ valueRow[v] # None
      /\ valueRow' = [valueRow EXCEPT ![v] = d]
      /\ edited' = edited \cup {v}
      /\ UNCHANGED <<driver, nodes, m_values, m_assoications, m_ozwstatus>>
      /\ UNCHANGED <<running, client, toClean, starts, retained, retainedStatus>>
  BY DEF setData, documents, processVars
<1>2. /\ valueRow'[v] = d /\ d # None
      /\ \A w \in Values \ {v} : valueRow'[w] = valueRow[w]
  BY <1>1, ConstantsAssumption DEF PublisherInv, TypeOK
<1>3. TypeOK'
  BY <1>1, <1>2, ConstantsAssumption DEF PublisherInv, TypeOK
<1>4. NoGhosts' /\ GroupInv' /\ HidesByCleaning
  <2> DEFINE shown == {}
  <2>1. /\ \A t \in Topics : retained'[t] = retained[t] \/ (t \in shown /\ retained'[t] # None)
        /\ \A t \in shown : t \in Live'
        /\ \A n \in Nodes, g \in Groups : AssociationTopic(n, g) \in shown => g \in m_assoications'[n]
        /\ \A w \in Values : valueRow[w] # None => valueRow'[w] # None
    BY <1>1, <1>2
  <2> HIDE DEF shown
  <2>2. QED
    BY <1>1, <2>1, ShowingKeeps
<1>5. ShownIsLatest'
  <2> SUFFICES ASSUME Connected', NEW w \in Values \ BitSets,
                      retained'[ValueTopic(w)] # None, ValueTopic(w) \notin toClean'
               PROVE  retained'[ValueTopic(w)] = IF w \in edited' THEN m_values'[w] ELSE valueRow'[w]
    BY DEF ShownIsLatest
  <2>1. retained[ValueTopic(w)] = IF w \in edited THEN m_values[w] ELSE valueRow[w]
    BY <1>1 DEF PublisherInv, ShownIsLatest, Connected
  <2>2. w = v /\ v \notin edited => m_values[v] = valueRow[v]
    BY <1>1 DEF PublisherInv, RowInv
  <2>3. QED
    BY <1>1, <1>2, <2>1, <2>2
<1>6. RowInv'
  BY <1>1, <1>2 DEF PublisherInv, RowInv
<1>7. QED
  BY <1>3, <1>4, <1>5, <1>6

-----------------------------------------------------------------------------
(* Slots that take away: nodes and values, with their topics.              *)

\* A class or an instance topic is cleared only with the last value under it,
\* which has its document: rows and documents agree on what is left.
LEMMA RemovedWithIs ==
    ASSUME PublisherInv, NEW gone \in SUBSET Values, NEW t \in RemovedWith(gone)
    PROVE  /\ \E v \in gone : t \in {ValueTopic(v), ClassTopic(v), InstanceTopic(v)}
           /\ \A w \in Values \ gone : valueRow[w] # None =>
                t \notin {ValueTopic(w), ClassTopic(w), InstanceTopic(w)}
<1> DEFINE left == {w \in Values \ gone : m_values[w] # None /\ valueRow[w] # None}
<1>1. \A w \in Values \ gone : valueRow[w] # None => w \in left
  BY DEF PublisherInv, RowInv
<1>2. t \in {ValueTopic(v) : v \in gone}
        \cup ({ClassTopic(v) : v \in gone} \ {ClassTopic(w) : w \in left})
        \cup ({InstanceTopic(v) : v \in gone} \ {InstanceTopic(w) : w \in left})
  BY DEF RemovedWith
<1> HIDE DEF left
<1>3. CASE t \in {ValueTopic(v) : v \in gone}
  BY <1>3, TopicsApart
<1>4. CASE t \in {ClassTopic(v) : v \in gone} \ {ClassTopic(w) : w \in left}
  BY <1>1, <1>4, TopicsApart
<1>5. CASE t \in {InstanceTopic(v) : v \in gone} \ {InstanceTopic(w) : w \in left}
  BY <1>1, <1>5, TopicsApart
<1>6. QED
  BY <1>2, <1>3, <1>4, <1>5

\* ... and it is cleared with the last.
LEMMA RemovedWithLast ==
    ASSUME NEW gone \in SUBSET Values, NEW v \in gone
    PROVE  /\ ValueTopic(v) \in RemovedWith(gone)
           /\ ClassTopic(v) \notin RemovedWith(gone) =>
                \E w \in Values \ gone : valueRow[w] # None /\ ClassTopic(w) = ClassTopic(v)
           /\ InstanceTopic(v) \notin RemovedWith(gone) =>
                \E w \in Values \ gone : valueRow[w] # None /\ InstanceTopic(w) = InstanceTopic(v)
BY DEF RemovedWith

\* What the removal of the values gone and the nodes ns does.
Removes(gone, ns) ==
    /\ DropValues(gone)
    /\ nodes' = nodes \ ns
    /\ \A n \in Nodes : m_assoications'[n] = IF n \in ns THEN {} ELSE m_assoications[n]
    /\ m_assoications' \in [Nodes -> SUBSET Groups]
    /\ Clear(RemovedWith(gone) \cup UNION {{NodeTopic(n)} \cup {AssociationTopic(n, g) : g \in m_assoications[n]} : n \in ns})
    /\ UNCHANGED <<running, client, toClean, starts>>

LEMMA RemovesDoes ==
    ASSUME PublisherInv, NEW gone \in SUBSET Values, NEW ns \in SUBSET Nodes, Removes(gone, ns)
    PROVE  /\ DOMAIN retained' = Topics
           /\ \A t \in Topics : retained'[t] # None => retained'[t] = retained[t]
           /\ \A t \in Topics : retained'[t] # retained[t] =>
                \/ t \in RemovedWith(gone)
                \/ \E n \in ns : t = NodeTopic(n)
                \/ \E n \in ns, g \in Groups : t = AssociationTopic(n, g)
           /\ Connected =>
                /\ \A t \in Topics \cap RemovedWith(gone) : retained'[t] = None
                /\ \A n \in ns : retained'[NodeTopic(n)] = None
                /\ \A n \in ns : \A g \in m_assoications[n] : retained'[AssociationTopic(n, g)] = None
<1> DEFINE groupsOf(n) == {AssociationTopic(n, g) : g \in m_assoications[n]}
           cleared == RemovedWith(gone) \cup UNION {{NodeTopic(n)} \cup groupsOf(n) : n \in ns}
<1>1. DOMAIN retained' = Topics
      /\ \A t \in Topics : retained'[t] = IF Connected /\ t \in cleared THEN None ELSE retained[t]
  <2>1. Clear(cleared)
    BY DEF Removes
  <2> HIDE DEF cleared
  <2>2. QED
    BY <2>1, ClearDoes DEF PublisherInv, TypeOK
<1>2. \A n \in ns : m_assoications[n] \subseteq Groups
  BY DEF PublisherInv, TypeOK
<1>3. \A t \in cleared : \/ t \in RemovedWith(gone)
                         \/ \E n \in ns : t = NodeTopic(n)
                         \/ \E n \in ns, g \in Groups : t = AssociationTopic(n, g)
  BY <1>2
<1>4. /\ \A t \in RemovedWith(gone) : t \in cleared
      /\ \A n \in ns : NodeTopic(n) \in cleared
      /\ \A n \in ns : \A g \in m_assoications[n] : AssociationTopic(n, g) \in cleared
  OBVIOUS
<1> HIDE DEF cleared
<1>5. \A n \in ns : \A g \in m_assoications[n] : AssociationTopic(n, g) \in Topics
  BY <1>2, TopicsAre
<1>6. \A n \in ns : NodeTopic(n) \in Topics
  BY TopicsAre
<1>7. QED
  BY <1>1, <1>3, <1>4, <1>5, <1>6

LEMMA RemovedLive ==
    ASSUME PublisherInv, NEW gone \in SUBSET Values, NEW ns \in SUBSET Nodes, Removes(gone, ns)
    PROVE  HidesByCleaning
<1> SUFFICES ASSUME NEW t \in Topics, retained[t] # None, retained'[t] = None, t \in Live'
             PROVE  FALSE
  BY DEF HidesByCleaning
<1>1. \/ t \in RemovedWith(gone)
      \/ \E n \in ns : t = NodeTopic(n)
      \/ \E n \in ns, g \in Groups : t = AssociationTopic(n, g)
  BY RemovesDoes
<1>2. /\ nodes' = nodes \ ns
      /\ \A v \in Values : valueRow'[v] # None => v \notin gone /\ valueRow[v] # None
  BY DEF Removes, DropValues, PublisherInv, TypeOK
<1>3. \/ \E n \in nodes' : t = NodeTopic(n)
      \/ \E n \in nodes', g \in Groups : t = AssociationTopic(n, g)
      \/ \E v \in Values \ gone : valueRow[v] # None /\ t \in {ValueTopic(v), ClassTopic(v), InstanceTopic(v)}
  BY <1>2, LiveAreThen
<1>4. CASE t \in RemovedWith(gone)
  BY <1>3, <1>4, RemovedWithIs, TopicsApart
<1>5. CASE \E n \in ns : t = NodeTopic(n)
  BY <1>2, <1>3, <1>5, TopicsApart
<1>6. CASE \E n \in ns, g \in Groups : t = AssociationTopic(n, g)
  BY <1>2, <1>3, <1>6, TopicsApart
<1>7. QED
  BY <1>1, <1>4, <1>5, <1>6

\* Whatever was shown of what is gone is cleared, but for old messages.
LEMMA RemovedGhosts ==
    ASSUME PublisherInv, NEW gone \in SUBSET Values, NEW ns \in SUBSET Nodes, Removes(gone, ns)
    PROVE  NoGhosts'
<1> SUFFICES ASSUME Connected', NEW t \in Topics, retained'[t] # None, t \notin toClean'
             PROVE  t \in Live'
  BY DEF NoGhosts
<1>1. Connected /\ toClean' = toClean /\ nodes' = nodes \ ns
  BY DEF Connected, Removes
<1>2. /\ retained[t] # None
      /\ t \notin RemovedWith(gone)
      /\ \A n \in ns : t # NodeTopic(n)
      /\ \A n \in ns : \A g \in m_assoications[n] : t # AssociationTopic(n, g)
  BY <1>1, RemovesDoes
<1>3. t \in Live
  BY <1>1, <1>2 DEF PublisherInv, NoGhosts
<1>4. \A w \in Values \ gone : valueRow[w] # None => valueRow'[w] # None
  BY DEF Removes, DropValues
<1>5. CASE \E n \in nodes : t = NodeTopic(n)
  BY <1>1, <1>2, <1>5, LiveAreThen
<1>6. CASE \E n \in nodes, g \in Groups : t = AssociationTopic(n, g)
  <2>1. PICK n \in nodes, g \in Groups : t = AssociationTopic(n, g)
    BY <1>6
  <2>2. g \in m_assoications[n]
    BY <1>1, <1>2, <2>1 DEF PublisherInv, GroupInv, TypeOK
  <2>3. n \in nodes'
    BY <1>1, <1>2, <2>1, <2>2
  <2>4. QED
    BY <2>1, <2>3, LiveAreThen
<1>7. CASE \E v \in Values : valueRow[v] # None /\ t \in {ValueTopic(v), ClassTopic(v), InstanceTopic(v)}
  <2>1. PICK v \in Values : valueRow[v] # None /\ t \in {ValueTopic(v), ClassTopic(v), InstanceTopic(v)}
    BY <1>7
  <2>2. CASE v \notin gone
    BY <1>4, <2>1, <2>2, LiveAreThen
  <2>3. CASE v \in gone
    <3>1. \E w \in Values \ gone : valueRow[w] # None /\ t \in {ClassTopic(w), InstanceTopic(w)}
      BY <1>2, <2>1, <2>3, RemovedWithLast
    <3>2. QED
      BY <1>4, <3>1, LiveAreThen
  <2>4. QED
    BY <2>2, <2>3
<1>8. QED
  BY <1>3, <1>5, <1>6, <1>7, LiveAre

LEMMA RemovedRest ==
    ASSUME PublisherInv, NEW gone \in SUBSET Values, NEW ns \in SUBSET Nodes, Removes(gone, ns),
           driver' \in {"open", "ready", "down"}, m_ozwstatus' \in Statuses,
           retainedStatus' \in Statuses \cup {None, "Offline"}
    PROVE  TypeOK' /\ ShownIsLatest' /\ RowInv' /\ GroupInv'
<1>1. /\ m_values' = [v \in Values |-> IF v \in gone THEN None ELSE m_values[v]]
      /\ valueRow' = [v \in Values |-> IF v \in gone THEN None ELSE valueRow[v]]
      /\ edited' = edited \ gone
      /\ nodes' = nodes \ ns
      /\ UNCHANGED <<running, client, toClean, starts>>
  BY DEF Removes, DropValues
<1>2. /\ DOMAIN retained' = Topics
      /\ \A t \in Topics : retained'[t] # None => retained'[t] = retained[t]
  BY RemovesDoes
<1>3. TypeOK'
  <2>1. /\ \A n \in Nodes : retained'[NodeTopic(n)] \in {None, "text"}
        /\ \A v \in Values : retained'[ValueTopic(v)] \in Data \cup {None, "emptied"}
    BY <1>2, TopicsAre DEF PublisherInv, TypeOK
  <2>2. /\ valueRow' \in [Values -> Data \cup {None}]
        /\ edited' \subseteq {v \in Values \ BitSets : valueRow'[v] # None}
    BY <1>1 DEF PublisherInv, TypeOK
  <2>3. /\ m_values' \in [Values -> Data \cup {None, "emptied"}]
        /\ \A v \in Values \ BitSets : m_values'[v] # "emptied"
    BY <1>1, ConstantsAssumption DEF PublisherInv, TypeOK
  <2>4. m_assoications' \in [Nodes -> SUBSET Groups]
    BY DEF Removes
  <2>5. QED
    BY <1>1, <1>2, <2>1, <2>2, <2>3, <2>4 DEF PublisherInv, TypeOK
<1>4. ShownIsLatest'
  <2> SUFFICES ASSUME Connected', NEW v \in Values \ BitSets,
                      retained'[ValueTopic(v)] # None, ValueTopic(v) \notin toClean'
               PROVE  retained'[ValueTopic(v)] = IF v \in edited' THEN m_values'[v] ELSE valueRow'[v]
    BY DEF ShownIsLatest
  <2>1. Connected
    BY <1>1 DEF Connected
  <2>2. v \notin gone
    BY <2>1, RemovesDoes, RemovedWithLast, TopicsAre
  <2>3. retained'[ValueTopic(v)] = retained[ValueTopic(v)]
    BY <1>2, TopicsAre
  <2>4. QED
    BY <1>1, <2>1, <2>2, <2>3 DEF PublisherInv, ShownIsLatest
<1>5. RowInv'
  BY <1>1 DEF PublisherInv, RowInv
<1>6. GroupInv'
  <2> SUFFICES ASSUME Connected', NEW n \in Nodes, NEW g \in Groups,
                      retained'[AssociationTopic(n, g)] # None, AssociationTopic(n, g) \notin toClean'
               PROVE  g \in m_assoications'[n]
    BY DEF GroupInv
  <2>1. Connected /\ AssociationTopic(n, g) \notin toClean /\ retained[AssociationTopic(n, g)] # None
    BY <1>1, <1>2, TopicsAre DEF Connected
  <2>2. g \in m_assoications[n]
    BY <2>1 DEF PublisherInv, GroupInv
  <2>3. n \notin ns
    BY <2>1, <2>2, RemovesDoes
  <2>4. QED
    BY <2>2, <2>3 DEF Removes
<1>7. QED
  BY <1>3, <1>4, <1>5, <1>6

LEMMA RemovingKeeps ==
    ASSUME PublisherInv,
           (\E v \in Values : valueRemoved(v)) \/ (\E n \in Nodes : nodeRemoved(n)) \/ (\E t \in DownTypes : driverDown(t))
    PROVE  TypeOK' /\ NoGhosts' /\ ShownIsLatest' /\ RowInv' /\ GroupInv' /\ HidesByCleaning
<1> DEFINE Kept == TypeOK' /\ NoGhosts' /\ ShownIsLatest' /\ RowInv' /\ GroupInv' /\ HidesByCleaning
<1>1. ASSUME NEW v \in Values, valueRemoved(v)
      PROVE  Kept
  <2>1. Removes({v}, {})
    <3>1. RemovedWith({v}) = RemovedWith({v}) \cup UNION {{NodeTopic(n)} \cup {AssociationTopic(n, g) : g \in m_assoications[n]} : n \in {}}
      OBVIOUS
    <3>2. QED
      BY <1>1, <3>1 DEF Removes, valueRemoved, processVars, PublisherInv, TypeOK
  <2>2. /\ driver' \in {"open", "ready", "down"} /\ m_ozwstatus' \in Statuses
        /\ retainedStatus' \in Statuses \cup {None, "Offline"}
    BY <1>1 DEF valueRemoved, PublisherInv, TypeOK
  <2>3. QED
    BY <2>1, <2>2, RemovedLive, RemovedGhosts, RemovedRest
<1>2. ASSUME NEW ns \in SUBSET Nodes, DropNodes(ns), UNCHANGED processVars,
             driver' \in {"open", "ready", "down"}, m_ozwstatus' \in Statuses,
             retainedStatus' \in Statuses \cup {None, "Offline"}
      PROVE  Kept
  <2> DEFINE gone == {v \in Values : valueRow[v] # None /\ NodeOf[v] \in ns}
  <2>1. Removes(gone, ns)
    BY <1>2 DEF Removes, DropNodes, processVars, PublisherInv, TypeOK
  <2>2. gone \in SUBSET Values
    OBVIOUS
  <2> HIDE DEF gone
  <2>3. QED
    BY <1>2, <2>1, <2>2, RemovedLive, RemovedGhosts, RemovedRest
<1>3. ASSUME NEW n \in Nodes, nodeRemoved(n)
      PROVE  Kept
  <2>1. /\ DropNodes({n}) /\ UNCHANGED processVars
        /\ driver' \in {"open", "ready", "down"} /\ m_ozwstatus' \in Statuses
        /\ retainedStatus' \in Statuses \cup {None, "Offline"}
    BY <1>3 DEF nodeRemoved, PublisherInv, TypeOK
  <2>2. QED
    BY <1>2, <2>1
<1>4. ASSUME NEW t \in DownTypes, driverDown(t)
      PROVE  Kept
  <2>1. /\ DropNodes(nodes) /\ UNCHANGED processVars
        /\ driver' \in {"open", "ready", "down"} /\ m_ozwstatus' \in Statuses
        /\ retainedStatus' \in Statuses \cup {None, "Offline"}
        /\ nodes \in SUBSET Nodes
    BY <1>4 DEF driverDown, sendStatusUpdate, Statuses, PublisherInv, TypeOK
  <2>2. QED
    BY <1>2, <2>1
<1>5. QED
  BY <1>1, <1>3, <1>4

-----------------------------------------------------------------------------
(* The process and its connection.                                         *)

\* With the connection, what is shown is old until it is cleaned; without it,
\* nothing is promised.
LEMMA ConnectionKeeps ==
    ASSUME PublisherInv, start \/ connected \/ disconnected \/ exit
    PROVE  TypeOK' /\ NoGhosts' /\ ShownIsLatest' /\ RowInv' /\ GroupInv' /\ HidesByCleaning
<1>1. CASE start
  <2>1. ~ Connected'
    BY <1>1 DEF start, Connected
  <2>2. starts' \in 0..MaxStarts
    BY <1>1, ConstantsAssumption DEF start, PublisherInv, TypeOK
  <2>3. TypeOK'
    BY <1>1, <2>2 DEF start, sendStatusUpdate, documents, Statuses, PublisherInv, TypeOK
  <2>4. RowInv'
    BY <1>1 DEF start, documents, PublisherInv, RowInv
  <2>5. HidesByCleaning
    BY <1>1 DEF start, HidesByCleaning
  <2>6. QED
    BY <2>1, <2>3, <2>4, <2>5 DEF NoGhosts, ShownIsLatest, GroupInv
<1>2. CASE connected
  <2>1. /\ toClean' = {t \in Topics : retained[t] # None} /\ client' = "connected"
        /\ UNCHANGED <<driver, nodes, valueRow, edited, running, m_values, m_assoications>>
        /\ UNCHANGED <<m_ozwstatus, retained, retainedStatus, starts>>
    BY <1>2 DEF connected, managerVars, documents
  <2>2. TypeOK'
    BY <2>1 DEF PublisherInv, TypeOK
  <2>3. NoGhosts' /\ ShownIsLatest' /\ GroupInv'
    BY <2>1, TopicsAre DEF NoGhosts, ShownIsLatest, GroupInv
  <2>4. RowInv' /\ HidesByCleaning
    BY <2>1 DEF PublisherInv, RowInv, HidesByCleaning
  <2>5. QED
    BY <2>2, <2>3, <2>4
<1>3. CASE disconnected \/ exit
  <2>1. client' = "disconnected" /\ retained' = retained
    BY <1>3 DEF disconnected, exit
  <2>2. ~ Connected'
    BY <2>1 DEF Connected
  <2>3. TypeOK'
    <3>1. CASE disconnected
      BY <3>1 DEF disconnected, managerVars, documents, PublisherInv, TypeOK
    <3>2. CASE exit
      BY <3>2, ConstantsAssumption DEF exit, PublisherInv, TypeOK
    <3>3. QED
      BY <1>3, <3>1, <3>2
  <2>4. RowInv'
    BY <1>3 DEF disconnected, exit, managerVars, documents, PublisherInv, RowInv
  <2>5. HidesByCleaning
    BY <2>1 DEF HidesByCleaning
  <2>6. QED
    BY <2>2, <2>3, <2>4, <2>5 DEF NoGhosts, ShownIsLatest, GroupInv
<1>4. QED
  BY <1>1, <1>2, <1>3

\* An old message is cleaned: its topic shows nothing from then on.
LEMMA CleanTopicsKeeps ==
    ASSUME PublisherInv, NEW old \in Topics, cleanTopics(old)
    PROVE  TypeOK' /\ NoGhosts' /\ ShownIsLatest' /\ RowInv' /\ GroupInv' /\ HidesByCleaning
<1>1. /\ DOMAIN retained' = Topics
      /\ \A t \in Topics : retained'[t] = IF Connected /\ t \in {old} THEN None ELSE retained[t]
  BY ClearDoes DEF cleanTopics, PublisherInv, TypeOK
<1>2. /\ old \in toClean /\ toClean' = toClean \ {old}
      /\ UNCHANGED <<driver, nodes, valueRow, edited, running, client, m_values, m_assoications>>
      /\ UNCHANGED <<m_ozwstatus, retainedStatus, starts>>
  BY DEF cleanTopics, managerVars, documents
<1>3. TypeOK'
  <2>1. /\ \A n \in Nodes : retained'[NodeTopic(n)] \in {None, "text"}
        /\ \A v \in Values : retained'[ValueTopic(v)] \in Data \cup {None, "emptied"}
    BY <1>1, TopicsAre DEF PublisherInv, TypeOK
  <2>2. QED
    BY <1>1, <1>2, <2>1 DEF PublisherInv, TypeOK
<1>4. NoGhosts'
  <2>1. \A t \in Live : t \in Live'
    BY <1>2, LiveAre, LiveAreThen
  <2>2. QED
    BY <1>1, <1>2, <2>1 DEF PublisherInv, NoGhosts, Connected
<1>5. ShownIsLatest' /\ GroupInv'
  BY <1>1, <1>2, TopicsAre DEF PublisherInv, ShownIsLatest, GroupInv, Connected
<1>6. RowInv'
  BY <1>2 DEF PublisherInv, RowInv
<1>7. HidesByCleaning
  BY <1>1, <1>2 DEF HidesByCleaning
<1>8. QED
  BY <1>3, <1>4, <1>5, <1>6, <1>7

\* The status follows the connection: published with it, taken back with it.
LEMMA StatusKeeps == StatusIsHonest /\ RunInv /\ [Next]_vars => StatusIsHonest' /\ RunInv'
<1> SUFFICES ASSUME StatusIsHonest, RunInv, [Next]_vars
             PROVE  StatusIsHonest' /\ RunInv'
  OBVIOUS
<1>1. CASE \/ manufacturerSpecificDBReady \/ driverReady \/ driverQueried \/ open
           \/ \E t \in DownTypes : driverDown(t)
  BY <1>1 DEF managerVars, manufacturerSpecificDBReady, driverReady, driverQueried, open, driverDown, sendStatusUpdate,
              processVars, StatusIsHonest, RunInv, Connected
<1>2. CASE start \/ connected \/ disconnected \/ exit
  BY <1>2 DEF start, connected, disconnected, exit, sendStatusUpdate, StatusIsHonest, RunInv, Connected
<1>3. CASE \/ \E t \in Topics : cleanTopics(t)
           \/ \E n \in Nodes, g \in Groups : nodeGroupChanged(n, g)
           \/ \E n \in Nodes : nodeAdded(n) \/ nodeRemoved(n)
  BY <1>3 DEF cleanTopics, nodeGroupChanged, nodeAdded, nodeRemoved, processVars, StatusIsHonest, RunInv, Connected
<1>4. CASE \/ \E v \in Values, d \in Data : valueAdded(v, d) \/ valueChanged(v, d) \/ valueRefreshed(v, d) \/ setData(v, d)
           \/ \E v \in Values : valueRemoved(v)
           \/ UNCHANGED vars
  BY <1>4 DEF valueAdded, valueChanged, valueRefreshed, setData, valueRemoved, vars, processVars, StatusIsHonest, RunInv, Connected
<1>5. QED
  BY <1>1, <1>2, <1>3, <1>4 DEF Next

LEMMA PublisherInit == Init => PublisherInv
<1> SUFFICES ASSUME Init
             PROVE  PublisherInv
  OBVIOUS
<1>1. TypeOK
  <2>1. /\ \A n \in Nodes : retained[NodeTopic(n)] = None
        /\ \A v \in Values : retained[ValueTopic(v)] = None
    BY TopicsAre DEF Init
  <2>2. starts \in 0..MaxStarts
    BY ConstantsAssumption DEF Init
  <2>3. \A v \in Values \ BitSets : m_values[v] # "emptied"
    BY ConstantsAssumption DEF Init
  <2>4. QED
    BY <2>1, <2>2, <2>3 DEF Init, TypeOK, Statuses
<1>2. NoGhosts /\ ShownIsLatest /\ GroupInv
  BY DEF Init, NoGhosts, ShownIsLatest, GroupInv, Connected
<1>3. StatusIsHonest /\ RowInv /\ RunInv
  BY DEF Init, StatusIsHonest, RowInv, RunInv
<1>4. QED
  BY <1>1, <1>2, <1>3 DEF PublisherInv

LEMMA PublisherStep == PublisherInv /\ [Next]_vars => PublisherInv' /\ HidesByCleaning
<1> SUFFICES ASSUME PublisherInv, [Next]_vars
             PROVE  PublisherInv' /\ HidesByCleaning
  OBVIOUS
<1> DEFINE Kept == TypeOK' /\ NoGhosts' /\ ShownIsLatest' /\ RowInv' /\ GroupInv' /\ HidesByCleaning
<1>1. CASE manufacturerSpecificDBReady \/ driverReady \/ driverQueried \/ open
  <2>1. UNCHANGED <<running, client, toClean, starts, nodes, valueRow, edited, m_values, m_assoications, retained>>
    BY <1>1 DEF manufacturerSpecificDBReady, driverReady, driverQueried, open, managerVars, documents, processVars
  <2>2. TypeOK'
    <3>1. m_ozwstatus' \in Statuses /\ driver' \in {"open", "ready", "down"}
      BY <1>1 DEF manufacturerSpecificDBReady, driverReady, driverQueried, open, sendStatusUpdate, Statuses,
                  managerVars, PublisherInv, TypeOK
    <3>2. retainedStatus' \in Statuses \cup {None, "Offline"}
      BY <1>1 DEF manufacturerSpecificDBReady, driverReady, driverQueried, open, sendStatusUpdate, Statuses,
                  PublisherInv, TypeOK
    <3>3. QED
      BY <2>1, <3>1, <3>2 DEF PublisherInv, TypeOK
  <2>3. Kept
    BY <2>1, <2>2, QuietKeeps
  <2>4. QED
    BY <2>3, StatusKeeps DEF PublisherInv
<1>2. CASE UNCHANGED vars
  <2>1. UNCHANGED <<running, client, toClean, starts, nodes, valueRow, edited, m_values, m_assoications, retained>>
    BY <1>2 DEF vars, managerVars, documents, processVars
  <2>2. TypeOK'
    BY <1>2 DEF vars, managerVars, documents, processVars, PublisherInv, TypeOK
  <2>3. QED
    BY <2>1, <2>2, QuietKeeps, StatusKeeps DEF PublisherInv
<1>3. ASSUME NEW n \in Nodes, NEW g \in Groups, nodeGroupChanged(n, g)
      PROVE  Kept
  BY <1>3, NodeGroupChangedKeeps
<1>4. ASSUME NEW n \in Nodes, nodeAdded(n)
      PROVE  Kept
  BY <1>4, NodeAddedKeeps
<1>5. ASSUME NEW v \in Values, NEW d \in Data, valueAdded(v, d)
      PROVE  Kept
  BY <1>5, ValueAddedKeeps
<1>6. ASSUME NEW v \in Values, NEW d \in Data, valueChanged(v, d) \/ valueRefreshed(v, d)
      PROVE  Kept
  BY <1>6, ValueChangedKeeps
<1>7. ASSUME NEW v \in Values, NEW d \in Data, setData(v, d)
      PROVE  Kept
  BY <1>7, SetDataKeeps
<1>8. ASSUME NEW t \in Topics, cleanTopics(t)
      PROVE  Kept
  BY <1>8, CleanTopicsKeeps
<1>9. CASE (\E v \in Values : valueRemoved(v)) \/ (\E n \in Nodes : nodeRemoved(n)) \/ (\E t \in DownTypes : driverDown(t))
  <2>1. Kept
    BY <1>9, RemovingKeeps
  <2>2. QED
    BY <2>1, StatusKeeps DEF PublisherInv
<1>10. CASE start \/ connected \/ disconnected \/ exit
  <2>1. Kept
    BY <1>10, ConnectionKeeps
  <2>2. QED
    BY <2>1, StatusKeeps DEF PublisherInv
<1>11. StatusIsHonest' /\ RunInv'
  BY StatusKeeps DEF PublisherInv
<1>12. Kept => PublisherInv' /\ HidesByCleaning
  BY <1>11 DEF PublisherInv
<1> HIDE DEF Kept
<1>13. QED
  BY <1>1, <1>2, <1>3, <1>4, <1>5, <1>6, <1>7, <1>8, <1>9, <1>10, <1>12 DEF Next

-----------------------------------------------------------------------------
(* What the broker shows, for ever.                                        *)

\* The inductive invariant of the publisher and the broker.
THEOREM PublisherInductive == Spec => []PublisherInv
<1>1. QED
  BY PublisherInit, PublisherStep, PTL DEF Spec

\* Rows, documents and retained messages are of their types; only a BitSet's
\* list is ever published emptied by encodeValue.
THEOREM PublisherTypes == Spec => []TypeOK
<1>1. PublisherInv => TypeOK
  BY DEF PublisherInv
<1>2. QED
  BY <1>1, PublisherInductive, PTL

\* valueRemoved, nodeRemoved and the reset of a driver leave no topic behind of
\* what is gone, however values share instances and classes, and the daemon
\* that starts next cleans what its predecessor left.
THEOREM NoGhostsAlways == Spec => []NoGhosts
<1>1. PublisherInv => NoGhosts
  BY DEF PublisherInv
<1>2. QED
  BY <1>1, PublisherInductive, PTL

\* valueChanged leaves out a message only when the broker shows the same.
THEOREM ShownIsLatestAlways == Spec => []ShownIsLatest
<1>1. PublisherInv => ShownIsLatest
  BY DEF PublisherInv
<1>2. QED
  BY <1>1, PublisherInductive, PTL

\* The status topic never shows the status of a daemon that is not connected.
THEOREM StatusIsHonestAlways == Spec => []StatusIsHonest
<1>1. PublisherInv => StatusIsHonest
  BY DEF PublisherInv
<1>2. QED
  BY <1>1, PublisherInductive, PTL

\* No removal takes away the topic of a node or a value that stays.
THEOREM OnlyCleaningHidesAlways == Spec => OnlyCleaningHides
<1>1. PublisherInv /\ [Next]_vars => [HidesByCleaning]_vars
  BY PublisherStep
<1>2. Spec => [][HidesByCleaning]_vars
  BY <1>1, PublisherInductive, PTL DEF Spec
<1>3. QED
  BY <1>2 DEF OnlyCleaningHides, HidesByCleaning

=============================================================================
