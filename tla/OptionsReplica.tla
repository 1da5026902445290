--------------------------- MODULE OptionsReplica ---------------------------
(***************************************************************************)
(* RemoteClient implements Replica: the options of the client are a copy   *)
(* of the daemon's properties.  Of the frames on their way, the options    *)
(* part sets every option and a change sets one, unless the connection     *)
(* ends before they arrive.                                                *)
(***************************************************************************)
EXTENDS RemoteClient

PartAt(q, i, p) == chan[q][i].cmd = "binary" /\ chan[q][i].arg = p

ChangeAt(i, o) == chan["client"][i].cmd = "changed" /\ chan["client"][i].arg.name = o

\* The i-th frame comes before the client hears of an end of the connection.
Reaches(i) == socket["client"] = "open" /\ \A j \in 1..i : chan["client"][j].cmd # "close"

\* The frames that set o, and to what.
Touching(o) ==
    {i \in 1..Len(chan["client"]) : Reaches(i) /\ (ChangeAt(i, o) \/ PartAt("client", i, "options"))}
Sets(i, o) == IF ChangeAt(i, o) THEN chan["client"][i].arg.value ELSE packed[o]

\* The last of 1..i that is in S; 0 if none is.
LastIn(S, i) == CHOOSE j \in 0..i : (j # 0 => j \in S) /\ \A k \in (j + 1)..i : k \notin S

\* The client's options after the first i frames.
ShownAfter(i) ==
    [o \in Options |-> LET j == LastIn(Touching(o), i) IN IF j = 0 THEN shown[o] ELSE Sets(j, o)]

OnTheWay == [i \in 1..Len(chan["client"]) |-> ShownAfter(i)]

\* The daemon sends changes, and what it sends arrives.
Follows ==
    /\ "options" \in listens
    /\ socket["client"] = "open"
    /\ \A i \in 1..Len(chan["client"]) : chan["client"][i].cmd # "close"

Shared == INSTANCE Replica
            WITH Nothing <- NoProperties, source <- property, told <- Follows, lag <- OnTheWay, copy <- shown

\* ReplicaSpec: whoever sets the daemon's properties, and wherever between the
\* list of objects, the parts and other frames the changes come, the client's
\* options are in each session each state of the properties from the one packed
\* into the options part on, in order and none left out, until the connection
\* ends; then they stay what they are.  A new session begins with none.
ReplicaSpec == Shared!Spec
=============================================================================
