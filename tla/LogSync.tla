------------------------------ MODULE LogSync ------------------------------
(***************************************************************************)
(* The log: the daemon's QTOZWLog_Internal, which keeps the last lines the *)
(* library wrote, and the copy of it in every remote QTOZWLog, which gets  *)
(* new lines as they are written and older ones when it asks for them.     *)
(*                                                                         *)
(* A line is its number in the order of writing.  Qt sends every signal of *)
(* the daemon's object to every client, in order on each connection.       *)
(***************************************************************************)
EXTENDS Integers, Sequences, SequencesExt, FiniteSetsExt

CONSTANTS
    Clients,    \* remote managers, ready
    Batch,      \* lines sent at a time; 100 in the code
    SourceMax,  \* m_maxLogLength of the daemon at first
    ClientMax,  \* m_maxLogLength of a client at first
    Sizes,      \* sizes an application may ask for
    Lines,      \* bound: lines written
    Syncs       \* bound: calls of syncroniseLogs

SOURCE == "source"

ASSUME LogSyncAssumption ==
    /\ SOURCE \notin Clients
    /\ Batch \in Nat \ {0} /\ SourceMax \in Nat \ {0} /\ ClientMax \in Nat \ {0}
    /\ Sizes \subseteq Nat \ {0}
    /\ Lines \in Nat /\ Syncs \in Nat

Ends == {SOURCE} \cup Clients

VARIABLES
    log,       \* m_logData of the daemon and of each client
    max,       \* m_maxLogLength of each
    written,   \* number of lines written
    posted,    \* lines that wait in the daemon's main thread to be sent
    iter,      \* what the static iterator of sendSyncLogsBatch has before it
    started,   \* its flag
    connects,  \* how often sendSyncLogsBatch is connected to the timer
    timer,     \* m_syncLogTrigger is running
    chan,      \* signals on the way to each client
    asking,    \* clients whose call is on the way
    syncs,     \* ghost: calls served
    snap,      \* ghost: the log when the last call was served
    news,      \* ghost: per client, the new lines since its log was cleared
    olds,      \* ghost: per client, how many older lines since its log was cleared
    done,      \* ghost: per client, the last call it was told the end of
    resized    \* ghost: clients whose size was changed

source == <<written, posted, iter, started, connects, timer>>
ghosts == <<news, olds, done, resized>>
vars == <<log, max, source, chan, asking, syncs, snap, ghosts>>

New(line) == [kind |-> "new", line |-> line]
Old(line) == [kind |-> "old", line |-> line]
Finished(sync) == [kind |-> "finished", sync |-> sync]

Init ==
    /\ log = [e \in Ends |-> <<>>]
    /\ max = [e \in Ends |-> IF e = SOURCE THEN SourceMax ELSE ClientMax]
    /\ written = 0
    /\ posted = <<>> /\ iter = <<>> /\ started = FALSE /\ connects = 0 /\ timer = FALSE
    /\ chan = [c \in Clients |-> <<>>]
    /\ asking = {}
    /\ syncs = 0 /\ snap = <<>>
    /\ news = [c \in Clients |-> <<>>] /\ olds = [c \in Clients |-> 0]
    /\ done = [c \in Clients |-> 0] /\ resized = {}

-----------------------------------------------------------------------------
(* The buffers.                                                            *)

\* Fault: the buffer is full one line too late.
PushBackLate(e, line) ==
    Append(IF Len(log[e]) > max[e] THEN Tail(log[e]) ELSE log[e], line)

\* Write and insertLogLine: the oldest line makes room.
PushBack(e, line) ==
    Append(IF Len(log[e]) >= max[e] THEN Tail(log[e]) ELSE log[e], line)

\* Fault: older lines are appended.
PushFrontAtBack(e, line) ==
    IF Len(log[e]) >= max[e] THEN log[e] ELSE Append(log[e], line)

\* syncLogMessages: an older line is dropped when there is no room.
PushFront(e, line) ==
    IF Len(log[e]) >= max[e] THEN log[e] ELSE <<line>> \o log[e]

Emit(signals) == chan' = [c \in Clients |-> chan[c] \o signals]

\* setLogBufSize: a smaller size removes the difference of the sizes, not of
\* the size and the number of lines.
setLogBufSize(e, size) ==
    /\ size # max[e]
    /\ LET pop == Min({max[e] - size, Len(log[e])}) IN
       log' = IF size < max[e]
              THEN [log EXCEPT ![e] = SubSeq(@, pop + 1, Len(@))] ELSE log
    /\ max' = [max EXCEPT ![e] = size]
    /\ resized' = resized \cup {e}
    /\ UNCHANGED <<source, chan, asking, syncs, snap, news, olds, done>>

-----------------------------------------------------------------------------
(* The daemon.                                                             *)

batches == <<iter, started, connects, timer, syncs, snap>>

Writes ==
    /\ written < Lines
    /\ written' = written + 1
    /\ log' = [log EXCEPT ![SOURCE] = PushBack(SOURCE, written + 1)]

\* Fault: what is sent is the entry before it was filled in.
LineToSendStale == written

LineToSend == written + 1

\* Write on the library's thread: Qt posts the line to the main thread.
WriteOzw ==
    /\ Writes
    /\ posted' = Append(posted, LineToSend)
    /\ UNCHANGED <<max, batches, chan, asking, ghosts>>

\* The posted line is sent to the clients.
newLogLine ==
    /\ posted # <<>>
    /\ posted' = Tail(posted)
    /\ Emit(<<New(Head(posted))>>)
    /\ UNCHANGED <<log, max, written, batches, asking, ghosts>>

\* Write in a call of the main thread: the line is sent at once, before those
\* that were posted.
WriteMain ==
    /\ Writes
    /\ Emit(<<New(LineToSend)>>)
    /\ UNCHANGED <<max, posted, batches, asking, ghosts>>

\* What k calls of sendSyncLogsBatch send of it, from its end; they finish when
\* one finds less than a batch.
Sent(it, k) == Min({k * Batch, Len(it)})
Finishes(it, k) == Len(it) < k * Batch
Left(it, k) == SubSeq(it, 1, Len(it) - Sent(it, k))
Signals(it, k, sync) ==
    [i \in 1..Sent(it, k) |-> Old(it[Len(it) + 1 - i])]
      \o IF Finishes(it, k) THEN <<Finished(sync)>> ELSE <<>>

\* syncroniseLogs of the daemon, called by c.  The static iterator keeps the
\* copy of the log it was made with in the first call.  The timer is started
\* whatever the first batch did, and connected once more.
syncroniseLogs(c) ==
    /\ c \in asking
    /\ asking' = asking \ {c}
    /\ syncs' = syncs + 1
    /\ snap' = log[SOURCE]
    /\ LET it == IF started THEN iter ELSE log[SOURCE] IN
         /\ iter' = Left(it, 1)
         /\ Emit(Signals(it, 1, syncs + 1))
    /\ started' = TRUE
    /\ connects' = connects + 1
    /\ timer' = TRUE
    /\ UNCHANGED <<log, max, written, posted, ghosts>>

\* Fault: the timer fires once.
RunsOnce(finishes) == FALSE

\* The timer runs until a call finishes.
RunsOn(finishes) == ~finishes

\* The timer calls sendSyncLogsBatch as often as it is connected.
Timeout ==
    /\ timer
    /\ iter' = Left(iter, connects)
    /\ Emit(Signals(iter, connects, syncs))
    /\ timer' = RunsOn(Finishes(iter, connects))
    /\ UNCHANGED <<log, max, written, posted, started, connects, asking, syncs, snap, ghosts>>

-----------------------------------------------------------------------------
(* A client.                                                               *)

\* Its syncroniseLogs: the copy is emptied, the daemon is asked.
ask(c) ==
    /\ c \notin asking
    /\ syncs + Cardinality(asking) < Syncs
    /\ asking' = asking \cup {c}
    /\ log' = [log EXCEPT ![c] = <<>>]
    /\ news' = [news EXCEPT ![c] = <<>>]
    /\ olds' = [olds EXCEPT ![c] = 0]
    /\ UNCHANGED <<max, written, posted, batches, chan, done, resized>>

Receives(c, kind) ==
    /\ chan[c] # <<>>
    /\ Head(chan[c]).kind = kind
    /\ chan' = [chan EXCEPT ![c] = Tail(@)]
    /\ UNCHANGED <<max, written, posted, batches, asking, resized>>

insertLogLine(c) ==
    /\ Receives(c, "new")
    /\ log' = [log EXCEPT ![c] = PushBack(c, Head(chan[c]).line)]
    /\ news' = [news EXCEPT ![c] = Append(@, Head(chan[c]).line)]
    /\ UNCHANGED <<olds, done>>

syncLogMessages(c) ==
    /\ Receives(c, "old")
    /\ log' = [log EXCEPT ![c] = PushFront(c, Head(chan[c]).line)]
    /\ olds' = [olds EXCEPT ![c] = @ + 1]
    /\ UNCHANGED <<news, done>>

\* The application is told.
syncStatus(c) ==
    /\ Receives(c, "finished")
    /\ done' = [done EXCEPT ![c] = Head(chan[c]).sync]
    /\ UNCHANGED <<log, news, olds>>

Next ==
    \/ WriteOzw \/ WriteMain \/ newLogLine \/ Timeout
    \/ \E c \in Clients :
         \/ ask(c) \/ syncroniseLogs(c)
         \/ insertLogLine(c) \/ syncLogMessages(c) \/ syncStatus(c)
    \/ \E e \in Ends, size \in Sizes : setLogBufSize(e, size)

Spec == Init /\ [][Next]_vars

\* The event loops run, and so does the timer.
Fairness ==
    /\ WF_vars(newLogLine) /\ WF_vars(Timeout)
    /\ \A c \in Clients :
         /\ WF_vars(syncroniseLogs(c))
         /\ WF_vars(insertLogLine(c) \/ syncLogMessages(c) \/ syncStatus(c))

LiveSpec == Spec /\ Fairness

-----------------------------------------------------------------------------
(* Properties.                                                             *)

Line == 1..Lines
Signal == [kind : {"new", "old"}, line : Line] \cup [kind : {"finished"}, sync : 0..Syncs]

\* Type invariant.
TypeOK ==
    /\ \A e \in Ends : \A i \in 1..Len(log[e]) : log[e][i] \in Line
    /\ max \in [Ends -> Nat \ {0}]
    /\ written \in 0..Lines
    /\ \A i \in 1..Len(posted) : posted[i] \in Line
    /\ \A i \in 1..Len(iter) : iter[i] \in Line
    /\ started \in BOOLEAN /\ timer \in BOOLEAN
    /\ connects \in 0..Syncs /\ syncs \in 0..Syncs
    /\ \A c \in Clients : \A i \in 1..Len(chan[c]) : chan[c][i] \in Signal
    /\ asking \subseteq Clients /\ resized \subseteq Ends

\* No buffer holds more lines than its size, though sizes shrink and lines come
\* from two directions at any time.
LogBounded == \A e \in Ends : Len(log[e]) <= max[e]

\* While only one call was made, lines written meanwhile come in between the
\* batches: still a client's log is at all times the newest lines, as many as
\* it may hold, of what it got of the daemon's log followed by the new lines,
\* both in order; and it got all of it when it is told the end.
FirstSyncExact ==
    \A c \in Clients \ resized :
      syncs + Cardinality(asking) <= 1 =>
        LET all == SubSeq(snap, Len(snap) - olds[c] + 1, Len(snap)) \o news[c] IN
        /\ IsSuffix(log[c], all)
        /\ Len(log[c]) = Min({max[c], Len(all)})
        /\ done[c] = 1 => olds[c] = Len(snap)

\* "reset our Local Copy and ask the Source to send us the Log Entries": a client
\* with room for all of it that is told the end of its call has the lines the
\* daemon's log had when it was served.
SyncSendsLog ==
    \A c \in Clients \ resized :
      asking = {} /\ syncs > 0 /\ done[c] = syncs /\ Lines <= max[c] =>
        ToSet(snap) \subseteq ToSet(log[c])

\* Every call is served and its end is told.
SyncFinishes == \A c \in Clients : c \in asking ~> (c \notin asking /\ done[c] = syncs)
=============================================================================
