------------------------- MODULE RemoteClientProofs -------------------------
(***************************************************************************)
(* Proofs about RemoteLink and RemoteClient, for any keys and versions,    *)
(* any parts, options and values, and any number of sessions and uses.     *)
(*                                                                         *)
(* What the two ends may hold for true depends on the frames on their way, *)
(* so the invariant says of each frame what both ends' state is while it   *)
(* travels.  Most steps take one frame from the head of one channel and    *)
(* add a few to the end of the other: the first lemmas say what becomes of *)
(* each frame then.  The last part proves that the client's options are a  *)
(* copy of the daemon's properties, as Replica states it.                  *)
(***************************************************************************)
EXTENDS OptionsReplica, SequenceTheorems, WellFoundedInduction, TLAPS

-----------------------------------------------------------------------------
(* Channels.                                                               *)

IsSequence(s) == \E S : s \in Seq(S)

Chans ==
    /\ DOMAIN chan = Sides
    /\ \A q \in Sides : IsSequence(chan[q])

\* The frames on the way to q, by number.
On(q) == 1..Len(chan[q])

\* What a step does to the channel of q: d frames leave, the new ones come.
Moves(q, d, new) ==
    /\ Len(chan'[q]) = Len(chan[q]) - d + Len(new)
    /\ \A i \in 1..(Len(chan[q]) - d) : chan'[q][i] = chan[q][i + d]
    /\ \A i \in 1..Len(new) : chan'[q][Len(chan[q]) - d + i] = new[i]

LEMMA SequenceHas ==
    ASSUME NEW s, IsSequence(s)
    PROVE  /\ Len(s) \in Nat
           /\ s # <<>> => Len(s) > 0 /\ Head(s) = s[1]
BY LenProperties, EmptySeq DEF IsSequence

LEMMA TailHas ==
    ASSUME NEW s, IsSequence(s), s # <<>>
    PROVE  /\ IsSequence(Tail(s))
           /\ Len(Tail(s)) = Len(s) - 1
           /\ \A i \in 1..(Len(s) - 1) : Tail(s)[i] = s[i + 1]
<1>1. PICK S : s \in Seq(S)
  BY DEF IsSequence
<1>2. QED
  BY <1>1, HeadTailProperties DEF IsSequence

LEMMA ConcatHas ==
    ASSUME NEW s, IsSequence(s), NEW t, IsSequence(t)
    PROVE  /\ IsSequence(s \o t)
           /\ Len(s \o t) = Len(s) + Len(t)
           /\ \A i \in 1..Len(s) : (s \o t)[i] = s[i]
           /\ \A i \in 1..Len(t) : (s \o t)[Len(s) + i] = t[i]
<1>1. PICK S : s \in Seq(S)
  BY DEF IsSequence
<1>2. PICK T : t \in Seq(T)
  BY DEF IsSequence
<1>3. s \in Seq(S \cup T) /\ t \in Seq(S \cup T)
  BY <1>1, <1>2, SeqMonotonic
<1>4. /\ s \o t \in Seq(S \cup T)
      /\ Len(s \o t) = Len(s) + Len(t)
      /\ \A i \in 1..Len(s) + Len(t) : (s \o t)[i] = IF i <= Len(s) THEN s[i] ELSE t[i - Len(s)]
  BY <1>3, ConcatProperties
<1>5. Len(s) \in Nat /\ Len(t) \in Nat
  BY SequenceHas
<1>6. \A i \in 1..Len(t) : (s \o t)[Len(s) + i] = t[i]
  <2> TAKE i \in 1..Len(t)
  <2> DEFINE j == Len(s) + i
  <2>1. j \in 1..Len(s) + Len(t) /\ ~ (j <= Len(s)) /\ j - Len(s) = i
    BY <1>5
  <2> HIDE DEF j
  <2>2. (s \o t)[j] = t[i]
    BY <1>4, <2>1
  <2>3. QED
    BY <2>2 DEF j
<1>7. QED
  BY <1>4, <1>5, <1>6 DEF IsSequence

LEMMA AppendHas ==
    ASSUME NEW s, IsSequence(s), NEW f
    PROVE  /\ IsSequence(Append(s, f))
           /\ Len(Append(s, f)) = Len(s) + 1
           /\ \A i \in 1..Len(s) : Append(s, f)[i] = s[i]
           /\ Append(s, f)[Len(s) + 1] = f
<1>1. PICK S : s \in Seq(S)
  BY DEF IsSequence
<1>2. s \in Seq(S \cup {f}) /\ f \in S \cup {f}
  BY <1>1, SeqMonotonic
<1>3. QED
  BY <1>2, AppendProperties DEF IsSequence

LEMMA FewAre ==
    /\ IsSequence(<<>>) /\ Len(<<>>) = 0
    /\ \A f : IsSequence(<<f>>) /\ Len(<<f>>) = 1 /\ <<f>>[1] = f
    /\ \A f, g : IsSequence(<<f, g>>) /\ Len(<<f, g>>) = 2 /\ <<f, g>>[1] = f /\ <<f, g>>[2] = g
<1>1. IsSequence(<<>>) /\ Len(<<>>) = 0
  BY EmptySeq DEF IsSequence
<1>2. \A f : <<f>> \in Seq({f}) /\ Len(<<f>>) = 1 /\ <<f>>[1] = f
  OBVIOUS
<1>3. \A f, g : <<f, g>> \in Seq({f, g}) /\ Len(<<f, g>>) = 2 /\ <<f, g>>[1] = f /\ <<f, g>>[2] = g
  OBVIOUS
<1>4. QED
  BY <1>1, <1>2, <1>3 DEF IsSequence

\* A frame that is there after the step was there before or is new.
LEMMA MovedFrame ==
    ASSUME NEW q \in Sides, Chans, NEW d \in {0, 1}, d <= Len(chan[q]),
           NEW new, IsSequence(new), Moves(q, d, new), NEW i \in 1..Len(chan'[q])
    PROVE  \/ i + d \in On(q) /\ i + d > d /\ chan'[q][i] = chan[q][i + d]
           \/ \E k \in 1..Len(new) : i = Len(chan[q]) - d + k /\ chan'[q][i] = new[k]
<1>1. Len(chan[q]) \in Nat /\ Len(new) \in Nat
  BY SequenceHas DEF Chans
<1>2. CASE i \in 1..(Len(chan[q]) - d)
  BY <1>1, <1>2 DEF Moves, On
<1>3. CASE i > Len(chan[q]) - d
  <2> DEFINE k == i - (Len(chan[q]) - d)
  <2>0. Len(chan'[q]) = Len(chan[q]) - d + Len(new)
    BY DEF Moves
  <2>1. k \in 1..Len(new) /\ i = Len(chan[q]) - d + k
    <3>1. PICK l \in Nat : l = Len(chan[q])
      BY <1>1
    <3>2. PICK n \in Nat : n = Len(new)
      BY <1>1
    <3>3. i \in 1..(l - d + n) /\ i > l - d
      BY <1>3, <2>0, <3>1, <3>2
    <3>4. i - (l - d) \in 1..n /\ i = l - d + (i - (l - d))
      BY <3>3
    <3>5. QED
      BY <3>1, <3>2, <3>4
  <2> HIDE DEF k
  <2>2. chan'[q][i] = new[k]
    BY <2>1 DEF Moves
  <2>3. QED
    BY <2>1, <2>2
<1>4. QED
  BY <1>1, <1>2, <1>3

\* ... and what was there, but for the head, still is.
LEMMA StayingFrame ==
    ASSUME NEW q \in Sides, Chans, NEW d \in {0, 1}, d <= Len(chan[q]),
           NEW new, IsSequence(new), Moves(q, d, new)
    PROVE  /\ \A i \in On(q) : i > d => i - d \in 1..Len(chan'[q]) /\ chan'[q][i - d] = chan[q][i]
           /\ \A k \in 1..Len(new) : /\ Len(chan[q]) - d + k \in 1..Len(chan'[q])
                                     /\ chan'[q][Len(chan[q]) - d + k] = new[k]
<1>1. Len(chan[q]) \in Nat /\ Len(new) \in Nat
  BY SequenceHas DEF Chans
<1>2. ASSUME NEW i \in On(q), i > d
      PROVE  i - d \in 1..Len(chan'[q]) /\ chan'[q][i - d] = chan[q][i]
  <2> DEFINE j == i - d
  <2>1. j \in 1..(Len(chan[q]) - d) /\ j + d = i
    BY <1>1, <1>2 DEF On
  <2>2. j \in 1..Len(chan'[q])
    BY <1>1, <2>1 DEF Moves
  <2> HIDE DEF j
  <2>3. chan'[q][j] = chan[q][i]
    BY <2>1 DEF Moves
  <2>4. QED
    BY <2>2, <2>3 DEF j
<1>3. QED
  BY <1>1, <1>2 DEF Moves

LEMMA Peers ==
    /\ Sides = {"client", "server"}
    /\ Peer("client") = "server" /\ Peer("server") = "client"
    /\ \A s \in Sides : Peer(s) \in Sides /\ Peer(s) # s
BY DEF Sides, Peer

LEMMA UntouchedMoves ==
    ASSUME NEW q, Len(chan[q]) \in Nat, chan'[q] = chan[q]
    PROVE  Moves(q, 0, <<>>)
<1>1. Len(chan'[q]) = Len(chan[q]) - 0 + Len(<<>>)
  BY FewAre
<1>2. \A i \in 1..(Len(chan[q]) - 0) : chan'[q][i] = chan[q][i + 0]
  OBVIOUS
<1>3. QED
  BY <1>1, <1>2, FewAre DEF Moves

LEMMA SendsMoves ==
    ASSUME Chans, NEW s \in Sides, chan[s] # <<>>, NEW frames, IsSequence(frames), Sends(s, frames)
    PROVE  /\ Chans'
           /\ Moves(s, 1, <<>>)
           /\ Moves(Peer(s), 0, IF socket[Peer(s)] = "closed" THEN <<>> ELSE frames)
<1>1. /\ DOMAIN chan' = Sides
      /\ chan'[s] = Tail(chan[s])
      /\ chan'[Peer(s)] = IF socket[Peer(s)] = "closed" THEN chan[Peer(s)] ELSE chan[Peer(s)] \o frames
  BY Peers DEF Sends, Chans
<1>2. /\ IsSequence(Tail(chan[s])) /\ Len(Tail(chan[s])) = Len(chan[s]) - 1
      /\ \A i \in 1..(Len(chan[s]) - 1) : Tail(chan[s])[i] = chan[s][i + 1]
  BY TailHas DEF Chans
<1>3. /\ IsSequence(chan[Peer(s)] \o frames)
      /\ Len(chan[Peer(s)] \o frames) = Len(chan[Peer(s)]) + Len(frames)
      /\ \A i \in 1..Len(chan[Peer(s)]) : (chan[Peer(s)] \o frames)[i] = chan[Peer(s)][i]
      /\ \A i \in 1..Len(frames) : (chan[Peer(s)] \o frames)[Len(chan[Peer(s)]) + i] = frames[i]
  BY ConcatHas, Peers DEF Chans
<1>4. Len(chan[s]) \in Nat /\ Len(chan[Peer(s)]) \in Nat
  BY SequenceHas, Peers DEF Chans
<1>5. Moves(s, 1, <<>>)
  BY <1>1, <1>2, <1>4, FewAre DEF Moves
<1>6. Moves(Peer(s), 0, IF socket[Peer(s)] = "closed" THEN <<>> ELSE frames)
  <2>1. CASE socket[Peer(s)] = "closed"
    BY <1>1, <1>4, <2>1, FewAre DEF Moves
  <2>2. CASE socket[Peer(s)] # "closed"
    BY <1>1, <1>3, <1>4, <2>2 DEF Moves
  <2>3. QED
    BY <2>1, <2>2
<1>7. Chans'
  <2>1. IsSequence(chan'[s]) /\ IsSequence(chan'[Peer(s)])
    BY <1>1, <1>2, <1>3, Peers DEF Chans
  <2>2. QED
    BY <1>1, <2>1, Peers DEF Chans
<1>8. QED
  BY <1>5, <1>6, <1>7

\* The frames a step adds to the channel of s and takes none.
LEMMA AddsMoves ==
    ASSUME Chans, NEW s \in Sides, NEW frames, IsSequence(frames),
           chan' = [chan EXCEPT ![s] = IF socket[s] = "closed" THEN @ ELSE @ \o frames]
    PROVE  /\ Chans'
           /\ Moves(Peer(s), 0, <<>>)
           /\ Moves(s, 0, IF socket[s] = "closed" THEN <<>> ELSE frames)
<1>1. /\ DOMAIN chan' = Sides
      /\ chan'[Peer(s)] = chan[Peer(s)]
      /\ chan'[s] = IF socket[s] = "closed" THEN chan[s] ELSE chan[s] \o frames
  BY Peers DEF Chans
<1>2. /\ IsSequence(chan[s] \o frames)
      /\ Len(chan[s] \o frames) = Len(chan[s]) + Len(frames)
      /\ \A i \in 1..Len(chan[s]) : (chan[s] \o frames)[i] = chan[s][i]
      /\ \A i \in 1..Len(frames) : (chan[s] \o frames)[Len(chan[s]) + i] = frames[i]
  BY ConcatHas DEF Chans
<1>3. Len(chan[s]) \in Nat /\ Len(chan[Peer(s)]) \in Nat
  BY SequenceHas, Peers DEF Chans
<1>4. Moves(Peer(s), 0, <<>>)
  BY <1>1, <1>3, UntouchedMoves
<1>5. Moves(s, 0, IF socket[s] = "closed" THEN <<>> ELSE frames)
  <2>1. CASE socket[s] = "closed"
    BY <1>1, <1>3, <2>1, FewAre DEF Moves
  <2>2. CASE socket[s] # "closed"
    BY <1>1, <1>2, <1>3, <2>2 DEF Moves
  <2>3. QED
    BY <2>1, <2>2
<1>6. Chans'
  <2>1. IsSequence(chan'[s]) /\ IsSequence(chan'[Peer(s)])
    BY <1>1, <1>2, Peers DEF Chans
  <2>2. QED
    BY <1>1, <2>1, Peers DEF Chans
<1>7. QED
  BY <1>4, <1>5, <1>6

LEMMA PostMoves ==
    ASSUME Chans, NEW s \in Sides, NEW f, Post(s, f)
    PROVE  /\ Chans'
           /\ Moves(Peer(s), 0, <<>>)
           /\ Moves(s, 0, IF socket[s] = "closed" THEN <<>> ELSE <<f>>)
<1>1. /\ DOMAIN chan' = Sides
      /\ chan'[Peer(s)] = chan[Peer(s)]
      /\ chan'[s] = IF socket[s] = "closed" THEN chan[s] ELSE Append(chan[s], f)
  BY Peers DEF Chans, Post
<1>2. /\ IsSequence(Append(chan[s], f)) /\ Len(Append(chan[s], f)) = Len(chan[s]) + 1
      /\ \A i \in 1..Len(chan[s]) : Append(chan[s], f)[i] = chan[s][i]
      /\ Append(chan[s], f)[Len(chan[s]) + 1] = f
  BY AppendHas DEF Chans
<1>3. Len(chan[s]) \in Nat /\ Len(chan[Peer(s)]) \in Nat
  BY SequenceHas, Peers DEF Chans
<1>4. Moves(Peer(s), 0, <<>>)
  BY <1>1, <1>3, UntouchedMoves
<1>5. Moves(s, 0, IF socket[s] = "closed" THEN <<>> ELSE <<f>>)
  <2>1. CASE socket[s] = "closed"
    BY <1>1, <1>3, <2>1, FewAre DEF Moves
  <2>2. CASE socket[s] # "closed"
    <3>1. Len(chan'[s]) = Len(chan[s]) - 0 + Len(<<f>>)
      BY <1>1, <1>2, <1>3, <2>2, FewAre
    <3>2. \A i \in 1..(Len(chan[s]) - 0) : chan'[s][i] = chan[s][i + 0]
      BY <1>1, <1>2, <1>3, <2>2
    <3>3. \A i \in 1..Len(<<f>>) : i = 1
      BY FewAre
    <3>4. \A i \in 1..Len(<<f>>) : chan'[s][Len(chan[s]) - 0 + i] = <<f>>[i]
      BY <1>1, <1>2, <1>3, <2>2, <3>3, FewAre
    <3>5. QED
      BY <2>2, <3>1, <3>2, <3>4 DEF Moves
  <2>3. QED
    BY <2>1, <2>2
<1>6. Chans'
  <2>1. IsSequence(chan'[s]) /\ IsSequence(chan'[Peer(s)])
    BY <1>1, <1>2, Peers DEF Chans
  <2>2. QED
    BY <1>1, <2>1, Peers DEF Chans
<1>7. QED
  BY <1>4, <1>5, <1>6

-----------------------------------------------------------------------------
(* What frames leave and come, in the two forms the steps use.             *)

\* The head of the channel of q leaves it.
Taken(q) == Moves(q, 1, <<>>)

\* End q is sent these frames, unless it is closed.
Given(q, frames) == Moves(q, 0, IF socket[q] = "closed" THEN <<>> ELSE frames)

LEMMA TakenFrames ==
    ASSUME Chans, NEW q \in Sides, chan[q] # <<>>, Taken(q)
    PROVE  /\ 1 \in On(q) /\ Head(chan[q]) = chan[q][1]
           /\ \A i \in 1..Len(chan'[q]) : i + 1 \in On(q) /\ i + 1 > 1 /\ chan'[q][i] = chan[q][i + 1]
           /\ \A i \in On(q) : i > 1 => i - 1 \in 1..Len(chan'[q]) /\ chan'[q][i - 1] = chan[q][i]
<1>1. Len(chan[q]) \in Nat /\ Len(chan[q]) > 0 /\ Head(chan[q]) = chan[q][1]
  BY SequenceHas DEF Chans
<1>2. \A i \in 1..Len(chan'[q]) : i + 1 \in On(q) /\ i + 1 > 1 /\ chan'[q][i] = chan[q][i + 1]
  BY <1>1, MovedFrame, FewAre DEF Taken
<1>3. \A i \in On(q) : i > 1 => i - 1 \in 1..Len(chan'[q]) /\ chan'[q][i - 1] = chan[q][i]
  BY <1>1, StayingFrame, FewAre DEF Taken
<1>4. QED
  BY <1>1, <1>2, <1>3 DEF On

LEMMA GivenFrames ==
    ASSUME Chans, NEW q \in Sides, NEW frames, IsSequence(frames), Given(q, frames)
    PROVE  /\ \A i \in 1..Len(chan'[q]) :
                \/ i \in On(q) /\ chan'[q][i] = chan[q][i]
                \/ \E k \in 1..Len(frames) : i = Len(chan[q]) + k /\ chan'[q][i] = frames[k]
           /\ \A i \in On(q) : i \in 1..Len(chan'[q]) /\ chan'[q][i] = chan[q][i]
           /\ socket[q] # "closed" => \A k \in 1..Len(frames) :
                Len(chan[q]) + k \in 1..Len(chan'[q]) /\ chan'[q][Len(chan[q]) + k] = frames[k]
<1> DEFINE new == IF socket[q] = "closed" THEN <<>> ELSE frames
<1>1. IsSequence(new) /\ Moves(q, 0, new) /\ 0 \in {0, 1} /\ 0 <= Len(chan[q]) /\ Len(chan[q]) \in Nat
  BY FewAre, SequenceHas DEF Given, Chans
<1>2. /\ new = <<>> \/ new = frames
      /\ socket[q] # "closed" => new = frames
  OBVIOUS
<1> HIDE DEF new
<1>3. \A i \in 1..Len(chan'[q]) :
        \/ i + 0 \in On(q) /\ chan'[q][i] = chan[q][i + 0]
        \/ \E k \in 1..Len(new) : i = Len(chan[q]) - 0 + k /\ chan'[q][i] = new[k]
  BY <1>1, MovedFrame
<1>4. /\ \A i \in On(q) : i > 0 => i - 0 \in 1..Len(chan'[q]) /\ chan'[q][i - 0] = chan[q][i]
      /\ \A k \in 1..Len(new) : /\ Len(chan[q]) - 0 + k \in 1..Len(chan'[q])
                                /\ chan'[q][Len(chan[q]) - 0 + k] = new[k]
  BY <1>1, StayingFrame
<1>5. \A i \in 1..Len(chan'[q]) :
        \/ i \in On(q) /\ chan'[q][i] = chan[q][i]
        \/ \E k \in 1..Len(frames) : i = Len(chan[q]) + k /\ chan'[q][i] = frames[k]
  <2> TAKE i \in 1..Len(chan'[q])
  <2>1. CASE i + 0 \in On(q) /\ chan'[q][i] = chan[q][i + 0]
    <3>1. i + 0 = i
      OBVIOUS
    <3>2. QED
      BY <2>1, <3>1
  <2>2. ASSUME NEW k \in 1..Len(new), i = Len(chan[q]) - 0 + k, chan'[q][i] = new[k]
        PROVE  \E j \in 1..Len(frames) : i = Len(chan[q]) + j /\ chan'[q][i] = frames[j]
    <3>1. new # <<>>
      BY <2>2, FewAre
    <3>2. new = frames
      BY <1>2, <3>1
    <3>3. i = Len(chan[q]) + k
      BY <1>1, <2>2
    <3>4. QED
      BY <2>2, <3>2, <3>3
  <2>3. QED
    BY <1>3, <2>1, <2>2
<1>6. \A i \in On(q) : i \in 1..Len(chan'[q]) /\ chan'[q][i] = chan[q][i]
  BY <1>1, <1>4 DEF On
<1>7. socket[q] # "closed" => \A k \in 1..Len(frames) :
        Len(chan[q]) + k \in 1..Len(chan'[q]) /\ chan'[q][Len(chan[q]) + k] = frames[k]
  BY <1>1, <1>2, <1>4
<1>8. QED
  BY <1>5, <1>6, <1>7

-----------------------------------------------------------------------------
(* The invariant of the link.                                              *)

Handshake == {"PROTOCOL", "AUTH", "START"}

\* What the state is while a frame travels to the client ...
FitsClient(f) ==
    /\ f.cmd \in {"PROTOCOL", "AUTH", "START", "ERROR", "close", "binary", "changed", "reply", "signal"}
    /\ f.cmd = "PROTOCOL" => f.arg = ServerVersion /\ stage["client"] = "None" /\ stage["server"] = "Protocol"
    /\ f.cmd = "AUTH" => f.arg = <<>> /\ stage["client"] = "Authenticate" /\ stage["server"] = "Authenticate"
    /\ f.cmd = "START" => stage["client"] = "Authenticate" /\ stage["server"] = "Authenticated"
    /\ f.cmd = "ERROR" => f.arg # Violation.arg
    /\ f.cmd = "binary" => f.arg \in Parts \cup {"objects"} /\ stage["server"] = "Authenticated"

\* ... and to the daemon.
FitsServer(f) ==
    /\ f.cmd \in {"PROTOCOL", "AUTH", "ERROR", "close", "binary", "set", "invoke"}
    /\ f.cmd = "PROTOCOL" => /\ f.arg = "OK" /\ clientVersion = ServerVersion
                             /\ stage["client"] = "Authenticate" /\ stage["server"] = "Protocol"
    /\ f.cmd = "AUTH" => f.arg = clientKey /\ stage["client"] = "Authenticate" /\ stage["server"] = "Authenticate"
    /\ f.cmd = "ERROR" => f.arg # Violation.arg
    /\ f.cmd = "binary" => f.arg = "acquire" /\ stage["client"] = "Authenticated"

FramesFit ==
    /\ \A i \in On("client") : FitsClient(chan["client"][i])
    /\ \A i \in On("server") : FitsServer(chan["server"][i])

StagesFit ==
    /\ \/ stage["client"] = "None" /\ stage["server"] \in {"None", "Protocol"}
       \/ stage["client"] = "Authenticate" /\ stage["server"] \in {"Protocol", "Authenticate", "Authenticated"}
       \/ stage["client"] = "Authenticated" /\ stage["server"] = "Authenticated"
    /\ stage["server"] = "Authenticate" => clientVersion = ServerVersion
    /\ stage["server"] = "Authenticated" => Compatible

\* The ends take turns: one frame of the handshake travels at a time.
NoHandshake(q) == \A i \in On(q) : chan[q][i].cmd \notin Handshake
OneHandshake ==
    /\ \A q \in Sides : \A i, j \in On(q) :
         chan[q][i].cmd \in Handshake /\ chan[q][j].cmd \in Handshake => i = j
    /\ NoHandshake("client") \/ NoHandshake("server")

\* START is ahead of the binary frames.
StartFirst ==
    \A i \in On("client") : chan["client"][i].cmd = "binary" =>
      stage["client"] = "Authenticated" \/ \E j \in On("client") : j < i /\ chan["client"][j].cmd = "START"

LinkInv ==
    /\ LinkTypeOK /\ Chans /\ FramesFit /\ StagesFit /\ OneHandshake /\ StartFirst
    /\ owed # {} => stage["client"] = "Authenticated"
    /\ ~ lost

-----------------------------------------------------------------------------
(* Once connected, the programs send each other data; the link goes on.    *)

DataFor(q) == IF q = "client" THEN {"changed", "reply", "signal"} ELSE {"set", "invoke"}

\* The frames of the link stay in their order; d data frames leave at the head.
KeepsLinkFrames(q, d) ==
    /\ \A i \in 1..Len(chan'[q]) :
         \/ chan'[q][i].cmd \in DataFor(q)
         \/ i + d \in On(q) /\ chan'[q][i] = chan[q][i + d]
    /\ \A i \in On(q) :
         \/ chan[q][i].cmd \in DataFor(q)
         \/ i > d /\ i - d \in 1..Len(chan'[q]) /\ chan'[q][i - d] = chan[q][i]

DataStep ==
    /\ Chans'
    /\ UNCHANGED <<linkVars, wired>>
    /\ \A q \in Sides : \E d \in {0, 1} : KeepsLinkFrames(q, d)

LEMMA TakenKeeps ==
    ASSUME Chans, NEW q \in Sides, chan[q] # <<>>, Head(chan[q]).cmd \in DataFor(q), Taken(q)
    PROVE  KeepsLinkFrames(q, 1)
<1>1. \A i \in On(q) : i = 1 \/ i > 1
  BY DEF On
<1>2. chan[q][1].cmd \in DataFor(q)
  BY TakenFrames
<1>3. QED
  BY <1>1, <1>2, TakenFrames DEF KeepsLinkFrames

LEMMA GivenKeeps ==
    ASSUME Chans, NEW q \in Sides, NEW frames, IsSequence(frames), Given(q, frames),
           \A k \in 1..Len(frames) : frames[k].cmd \in DataFor(q)
    PROVE  KeepsLinkFrames(q, 0)
<1>1. \A i \in 1..Len(chan'[q]) : chan'[q][i].cmd \in DataFor(q) \/ (i + 0 \in On(q) /\ chan'[q][i] = chan[q][i + 0])
  <2> TAKE i \in 1..Len(chan'[q])
  <2>1. i + 0 = i
    OBVIOUS
  <2>2. \/ i \in On(q) /\ chan'[q][i] = chan[q][i]
        \/ \E k \in 1..Len(frames) : i = Len(chan[q]) + k /\ chan'[q][i] = frames[k]
    BY GivenFrames
  <2>3. QED
    BY <2>1, <2>2
<1>2. \A i \in On(q) : i > 0 /\ i - 0 \in 1..Len(chan'[q]) /\ chan'[q][i - 0] = chan[q][i]
  BY GivenFrames DEF On
<1>3. QED
  BY <1>1, <1>2 DEF KeepsLinkFrames

LEMMA UntouchedGiven ==
    ASSUME Chans, NEW q \in Sides, chan'[q] = chan[q]
    PROVE  Given(q, <<>>)
BY UntouchedMoves, SequenceHas DEF Given, Chans

\* A step that takes the head of s and sends frames back, ...
LEMMA AnswerIs ==
    ASSUME Chans, NEW s \in Sides, Arrives(s), NEW frames, IsSequence(frames), Sends(s, frames)
    PROVE  Chans' /\ chan[s] # <<>> /\ Taken(s) /\ Given(Peer(s), frames)
BY SendsMoves DEF Arrives, Taken, Given

\* ... and one that only adds frames for s.
LEMMA AddsIs ==
    ASSUME Chans, NEW s \in Sides, NEW frames, IsSequence(frames),
           chan' = [chan EXCEPT ![s] = IF socket[s] = "closed" THEN @ ELSE @ \o frames]
    PROVE  Chans' /\ Given(Peer(s), <<>>) /\ Given(s, frames)
<1>1. Given(Peer(s), <<>>)
  BY AddsMoves DEF Given
<1>2. QED
  BY <1>1, AddsMoves DEF Given

LEMMA PostIs ==
    ASSUME Chans, NEW s \in Sides, NEW f, Post(s, f)
    PROVE  Chans' /\ Given(Peer(s), <<>>) /\ Given(s, <<f>>)
<1>1. Given(Peer(s), <<>>)
  BY PostMoves DEF Given
<1>2. QED
  BY <1>1, PostMoves DEF Given

LEMMA FewData ==
    ASSUME NEW q \in Sides
    PROVE  /\ \A k \in 1..Len(<<>>) : <<>>[k].cmd \in DataFor(q)
           /\ \A f : f.cmd \in DataFor(q) => \A k \in 1..Len(<<f>>) : <<f>>[k].cmd \in DataFor(q)
<1>1. \A k \in 1..Len(<<>>) : <<>>[k].cmd \in DataFor(q)
  BY FewAre
<1>2. ASSUME NEW f, f.cmd \in DataFor(q), NEW k \in 1..Len(<<f>>)
      PROVE  <<f>>[k].cmd \in DataFor(q)
  <2>1. k = 1
    BY FewAre
  <2>2. QED
    BY <1>2, <2>1, FewAre
<1>3. QED
  BY <1>1, <1>2

\* A step that answers a data frame with at most one other is a data step.
LEMMA AnswersData ==
    ASSUME Chans, NEW s \in Sides, NEW cmd \in DataFor(s), Takes(s, cmd),
           NEW frames, IsSequence(frames), Sends(s, frames),
           \A k \in 1..Len(frames) : frames[k].cmd \in DataFor(Peer(s)),
           UNCHANGED <<linkVars, wired>>
    PROVE  DataStep
<1>1. Chans' /\ chan[s] # <<>> /\ Taken(s) /\ Given(Peer(s), frames)
  BY AnswerIs DEF Takes
<1>2. KeepsLinkFrames(s, 1) /\ KeepsLinkFrames(Peer(s), 0)
  BY <1>1, TakenKeeps, GivenKeeps, Peers DEF Takes
<1>3. QED
  BY <1>1, <1>2, Peers DEF DataStep

LEMMA AddsData ==
    ASSUME Chans, NEW s \in Sides, NEW frames, IsSequence(frames), Chans', Given(Peer(s), <<>>), Given(s, frames),
           \A k \in 1..Len(frames) : frames[k].cmd \in DataFor(s),
           UNCHANGED <<linkVars, wired>>
    PROVE  DataStep
<1>1. KeepsLinkFrames(s, 0)
  BY GivenKeeps
<1>2. KeepsLinkFrames(Peer(s), 0)
  BY GivenKeeps, FewAre, FewData, Peers
<1>3. QED
  BY <1>1, <1>2, Peers DEF DataStep

LEMMA ToldAre ==
    /\ \A p, f : Told(p, f) = <<>> \/ Told(p, f) = <<f>>
    /\ \A o, d : \/ Changed(o, d) = <<>>
                 \/ Changed(o, d) = <<Frame("changed", [name |-> o, value |-> d])>>
BY DEF Told, Changed

LEMMA DataSteps ==
    ASSUME Chans,
           \/ ClientChanged \/ ClientReply \/ ClientSignal \/ ServerSet \/ ServerInvoke \/ returns
           \/ \E o \in Options : \E d \in DataOf[o] : daemonSets(o, d) \/ clientSets(o, d)
           \/ \E k \in Kinds : call(k)
           \/ networkTurns
    PROVE  DataStep
<1> USE DEF DataFor, Frame
<1>1. CASE ClientChanged \/ ClientReply \/ ClientSignal
  <2>1. PICK cmd \in {"changed", "reply", "signal"} : Takes("client", cmd) /\ Sends("client", <<>>)
    BY <1>1 DEF ClientChanged, ClientReply, ClientSignal
  <2>2. UNCHANGED <<linkVars, wired>>
    BY <1>1 DEF ClientChanged, ClientReply, ClientSignal, signalVars
  <2>3. QED
    BY <2>1, <2>2, AnswersData, FewAre, FewData, Peers
<1>2. CASE ServerSet
  <2> DEFINE a == Head(chan["server"]).arg
             frames == Changed(a.name, a.value)
  <2>1. Takes("server", "set") /\ Sends("server", frames) /\ UNCHANGED <<linkVars, wired>>
    BY <1>2 DEF ServerSet, signalVars
  <2>2. IsSequence(frames) /\ \A k \in 1..Len(frames) : frames[k].cmd \in DataFor("client")
    BY ToldAre, FewAre, FewData, Peers
  <2> HIDE DEF frames
  <2>3. QED
    BY <2>1, <2>2, AnswersData, Peers
<1>3. CASE ServerInvoke
  <2>1. PICK f : f.cmd = "reply" /\ Sends("server", <<f>>)
    BY <1>3 DEF ServerInvoke
  <2>2. Takes("server", "invoke") /\ UNCHANGED <<linkVars, wired>>
    BY <1>3 DEF ServerInvoke, signalVars
  <2>3. IsSequence(<<f>>) /\ \A k \in 1..Len(<<f>>) : <<f>>[k].cmd \in DataFor("client")
    BY <2>1, FewAre, FewData, Peers
  <2>4. QED
    BY <2>1, <2>2, <2>3, AnswersData, Peers
<1>4. CASE returns
  <2>1. UNCHANGED chan /\ UNCHANGED <<linkVars, wired>>
    BY <1>4 DEF returns, signalVars
  <2>2. Chans' /\ \A q \in Sides : Given(q, <<>>)
    BY <2>1, UntouchedGiven DEF Chans
  <2>3. QED
    BY <2>1, <2>2, AddsData, FewAre, FewData, Peers
<1>5. ASSUME NEW o \in Options, NEW d \in DataOf[o], daemonSets(o, d)
      PROVE  DataStep
  <2> DEFINE frames == Changed(o, d)
  <2>1. IsSequence(frames) /\ \A k \in 1..Len(frames) : frames[k].cmd \in DataFor("client")
    BY ToldAre, FewAre, FewData, Peers
  <2>2. /\ chan' = [chan EXCEPT !["client"] = IF socket["client"] = "closed" THEN @ ELSE @ \o frames]
        /\ UNCHANGED <<linkVars, wired>>
    BY <1>5 DEF daemonSets, signalVars
  <2> HIDE DEF frames
  <2>3. QED
    BY <2>1, <2>2, AddsIs, AddsData, Peers
<1>6. CASE networkTurns
  <2> DEFINE frames == Told("manager", Frame("signal", started'))
  <2>1. IsSequence(frames) /\ \A k \in 1..Len(frames) : frames[k].cmd \in DataFor("client")
    BY ToldAre, FewAre, FewData, Peers
  <2>2. /\ chan' = [chan EXCEPT !["client"] = IF socket["client"] = "closed" THEN @ ELSE @ \o frames]
        /\ UNCHANGED <<linkVars, wired>>
    BY <1>6 DEF networkTurns, signalVars
  <2> HIDE DEF frames
  <2>3. QED
    BY <2>1, <2>2, AddsIs, AddsData, Peers
<1>7. ASSUME \/ \E o \in Options : \E d \in DataOf[o] : clientSets(o, d)
             \/ \E k \in Kinds : call(k)
      PROVE  DataStep
  <2>1. \E cmd \in {"set", "invoke"} : \E arg : Post("server", Frame(cmd, arg))
    BY <1>7 DEF clientSets, call
  <2> PICK cmd \in {"set", "invoke"} : \E arg : Post("server", Frame(cmd, arg))
    BY <2>1
  <2> PICK arg : Post("server", Frame(cmd, arg))
    OBVIOUS
  <2> DEFINE f == Frame(cmd, arg)
  <2>2. UNCHANGED <<linkVars, wired>>
    BY <1>7 DEF clientSets, call, signalVars
  <2>3. IsSequence(<<f>>) /\ \A k \in 1..Len(<<f>>) : <<f>>[k].cmd \in DataFor("server")
    BY FewAre, FewData, Peers
  <2> HIDE DEF f
  <2>4. Post("server", f)
    BY DEF f
  <2>5. QED
    BY <2>2, <2>3, <2>4, PostIs, AddsData, Peers
<1>8. QED
  BY <1>1, <1>2, <1>3, <1>4, <1>5, <1>6, <1>7

LEMMA DataFits ==
    ASSUME NEW q \in Sides, NEW f, f.cmd \in DataFor(q)
    PROVE  /\ f.cmd \notin Handshake \cup {"ERROR", "close", "binary"}
           /\ q = "client" => FitsClient(f)
           /\ q = "server" => FitsServer(f)
BY DEF DataFor, Handshake, FitsClient, FitsServer

LEMMA DataKeepsLink ==
    ASSUME LinkInv, DataStep
    PROVE  LinkInv'
<1>1. UNCHANGED <<serverKey, clientKey, clientVersion, stage, attempts, socket, got, ready, received, owed, session, lost, dropped>>
  BY DEF DataStep, linkVars, config, replica
<1>2. LinkTypeOK' /\ Chans' /\ StagesFit' /\ (owed' # {} => stage'["client"] = "Authenticated") /\ ~ lost'
  BY <1>1 DEF LinkInv, LinkTypeOK, StagesFit, Compatible, DataStep
<1>3. /\ \A f : FitsClient(f)' <=> FitsClient(f)
      /\ \A f : FitsServer(f)' <=> FitsServer(f)
  BY <1>1 DEF FitsClient, FitsServer
<1>4. FramesFit'
  <2>1. ASSUME NEW i \in 1..Len(chan'["client"])
        PROVE  FitsClient(chan'["client"][i])
    <3>1. PICK d \in {0, 1} : KeepsLinkFrames("client", d)
      BY Peers DEF DataStep
    <3>2. QED
      BY <3>1, DataFits, Peers DEF KeepsLinkFrames, LinkInv, FramesFit
  <2>2. ASSUME NEW i \in 1..Len(chan'["server"])
        PROVE  FitsServer(chan'["server"][i])
    <3>1. PICK d \in {0, 1} : KeepsLinkFrames("server", d)
      BY Peers DEF DataStep
    <3>2. QED
      BY <3>1, DataFits, Peers DEF KeepsLinkFrames, LinkInv, FramesFit
  <2>3. QED
    BY <1>1, <2>1, <2>2 DEF FramesFit, On, FitsClient, FitsServer
<1>5. OneHandshake'
  <2>1. ASSUME NEW q \in Sides
        PROVE  /\ NoHandshake(q) => NoHandshake(q)'
               /\ \A i, j \in 1..Len(chan'[q]) :
                    chan'[q][i].cmd \in Handshake /\ chan'[q][j].cmd \in Handshake => i = j
    <3>1. PICK d \in {0, 1} : KeepsLinkFrames(q, d)
      BY DEF DataStep
    <3>2. \A i \in 1..Len(chan'[q]) : chan'[q][i].cmd \in Handshake =>
            i + d \in On(q) /\ chan'[q][i] = chan[q][i + d]
      BY <3>1, DataFits DEF KeepsLinkFrames
    <3>3. NoHandshake(q) => NoHandshake(q)'
      BY <3>2 DEF NoHandshake, On
    <3>4. ASSUME NEW i \in 1..Len(chan'[q]), NEW j \in 1..Len(chan'[q]),
                 chan'[q][i].cmd \in Handshake, chan'[q][j].cmd \in Handshake
          PROVE  i = j
      <4>1. i + d = j + d
        BY <3>2, <3>4 DEF LinkInv, OneHandshake
      <4>2. QED
        BY <4>1
    <3>5. QED
      BY <3>3, <3>4
  <2>2. QED
    BY <2>1, Peers DEF LinkInv, OneHandshake, On
<1>6. StartFirst'
  <2> SUFFICES ASSUME NEW i \in 1..Len(chan'["client"]), chan'["client"][i].cmd = "binary", stage["client"] # "Authenticated"
               PROVE  \E j \in 1..Len(chan'["client"]) : j < i /\ chan'["client"][j].cmd = "START"
    BY <1>1 DEF StartFirst, On
  <2>1. PICK d \in {0, 1} : KeepsLinkFrames("client", d)
    BY Peers DEF DataStep
  <2>2. i + d \in On("client") /\ chan["client"][i + d].cmd = "binary"
    BY <2>1, DataFits, Peers DEF KeepsLinkFrames
  <2>3. PICK j \in On("client") : j < i + d /\ chan["client"][j].cmd = "START"
    BY <2>2 DEF LinkInv, StartFirst
  <2>4. j > d /\ j - d \in 1..Len(chan'["client"]) /\ chan'["client"][j - d] = chan["client"][j]
    BY <2>1, <2>3, DataFits, Peers DEF KeepsLinkFrames, Handshake
  <2>5. j - d < i
    BY <2>3 DEF On
  <2>6. QED
    BY <2>3, <2>4, <2>5
<1>7. QED
  BY <1>2, <1>4, <1>5, <1>6 DEF LinkInv

-----------------------------------------------------------------------------
(* The messages of the handshake, as they can come.                        *)

LEMMA Appended ==
    /\ \A f : Append(<<>>, f) = <<f>>
    /\ \A f, g : Append(<<f>>, g) = <<f, g>>
<1>1. ASSUME NEW f
      PROVE  Append(<<>>, f) = <<f>>
  <2>1. <<>> \in Seq({f}) /\ <<f>> \in Seq({f}) /\ Len(<<>>) = 0 /\ Len(<<f>>) = 1 /\ <<f>>[1] = f
    BY EmptySeq
  <2>2. /\ Append(<<>>, f) \in Seq({f}) /\ Len(Append(<<>>, f)) = 1
        /\ Append(<<>>, f)[1] = f
    BY <2>1, AppendProperties
  <2>3. \A i \in 1..1 : Append(<<>>, f)[i] = <<f>>[i]
    BY <2>1, <2>2
  <2>4. QED
    BY <2>1, <2>2, <2>3, SeqEqual
<1>2. ASSUME NEW f, NEW g
      PROVE  Append(<<f>>, g) = <<f, g>>
  <2> DEFINE S == {f, g}
  <2>1. <<f>> \in Seq(S) /\ <<f, g>> \in Seq(S) /\ Len(<<f>>) = 1 /\ Len(<<f, g>>) = 2
    OBVIOUS
  <2>2. <<f>>[1] = f /\ <<f, g>>[1] = f /\ <<f, g>>[2] = g
    OBVIOUS
  <2>3. /\ Append(<<f>>, g) \in Seq(S) /\ Len(Append(<<f>>, g)) = 2
        /\ Append(<<f>>, g)[1] = f /\ Append(<<f>>, g)[2] = g
    BY <2>1, <2>2, AppendProperties
  <2>4. \A i \in 1..2 : Append(<<f>>, g)[i] = <<f, g>>[i]
    BY <2>2, <2>3
  <2>5. QED
    BY <2>1, <2>3, <2>4, SeqEqual
<1>3. QED
  BY <1>1, <1>2

\* End s does this with its head: its next stage, whether it closes, what it answers.
Processes(s, st, closes, frames) ==
    /\ stage' = [stage EXCEPT ![s] = st]
    /\ socket' = [socket EXCEPT ![s] = IF closes THEN "closing" ELSE @]
    /\ Given(Peer(s), frames)

LEMMA AppliesDoes ==
    ASSUME Chans, NEW s \in Sides, Arrives(s),
           NEW st, NEW frames, NEW signal, NEW closes \in BOOLEAN, NEW all, IsSequence(all),
           all = IF closes THEN Append(frames, CLOSE) ELSE frames,
           Applies(s, Does(st, frames, signal, closes))
    PROVE  Chans' /\ chan[s] # <<>> /\ Taken(s) /\ Processes(s, st, closes, all)
<1> DEFINE does == Does(st, frames, signal, closes)
<1>1. does.stage = st /\ does.send = frames /\ does.close = closes
  BY DEF Does
<1> HIDE DEF does
<1>2. /\ stage' = [stage EXCEPT ![s] = does.stage]
      /\ socket' = [socket EXCEPT ![s] = IF does.close THEN "closing" ELSE @]
      /\ Sends(s, IF does.close THEN Append(does.send, CLOSE) ELSE does.send)
  BY DEF Applies, does
<1>3. Sends(s, all)
  BY <1>1, <1>2
<1>4. QED
  BY <1>1, <1>2, <1>3, AnswerIs DEF Processes

\* The message that is next, what the stages are then, and that no other travels.
LEMMA HeadIs ==
    ASSUME LinkInv, NEW s \in Sides, Arrives(s)
    PROVE  /\ 1 \in On(s) /\ Head(chan[s]) = chan[s][1]
           /\ s = "client" => FitsClient(Head(chan[s]))
           /\ s = "server" => FitsServer(Head(chan[s]))
           /\ Head(chan[s]).cmd \in Handshake =>
                /\ NoHandshake(Peer(s))
                /\ \A i \in On(s) : i > 1 => chan[s][i].cmd \notin Handshake
<1>1. 1 \in On(s) /\ Head(chan[s]) = chan[s][1]
  BY SequenceHas DEF Arrives, LinkInv, Chans, On
<1>2. QED
  BY <1>1, Peers DEF LinkInv, FramesFit, OneHandshake, NoHandshake

LEMMA ClientTextIs ==
    ASSUME LinkInv, ClientText
    PROVE  /\ Arrives("client") /\ Chans' /\ chan["client"] # <<>> /\ Taken("client")
           /\ UNCHANGED <<config, attempts, got, received, owed, session, lost, dropped>>
           /\ LET f == Head(chan["client"]) IN
              \/ /\ f.cmd = "PROTOCOL" /\ clientVersion = ServerVersion /\ ready' = ready
                 /\ Processes("client", "Authenticate", FALSE, <<Frame("PROTOCOL", "OK")>>)
              \/ /\ f.cmd = "PROTOCOL" /\ ready' = FALSE
                 /\ Processes("client", "Authenticate", TRUE, <<Frame("ERROR", "Incompatible Protocol Version"), CLOSE>>)
              \/ /\ f.cmd = "AUTH" /\ ready' = ready
                 /\ Processes("client", "Authenticate", FALSE, <<Frame("AUTH", clientKey)>>)
              \/ /\ f.cmd = "START" /\ ready' = ready
                 /\ Processes("client", "Authenticated", FALSE, <<>>)
              \/ /\ f.cmd = "ERROR" /\ ready' = FALSE
                 /\ Processes("client", stage["client"], TRUE, <<CLOSE>>)
<1> DEFINE f == Head(chan["client"])
           does == ClientProcesses(stage["client"], f)
<1>1. /\ Text("client") /\ Arrives("client")
      /\ Applies("client", does)
      /\ ready' = (ready /\ does.signal # "authError")
      /\ UNCHANGED <<config, attempts, got, received, owed, session, lost, dropped>>
  BY DEF ClientText, Text
<1>2. f.cmd \in {"PROTOCOL", "AUTH", "START", "ERROR"} /\ FitsClient(f)
  BY <1>1, HeadIs, Peers DEF Text
<1>3. ready \in BOOLEAN /\ Chans
  BY DEF LinkInv, LinkTypeOK
<1> HIDE DEF f
<1> USE Peers, FewAre, Appended
<1>4. CASE f.cmd = "PROTOCOL" /\ f.arg = clientVersion
  <2>1. does = Does("Authenticate", <<Frame("PROTOCOL", "OK")>>, "none", FALSE)
    BY <1>2, <1>4 DEF ClientProcesses, FitsClient
  <2>2. does.signal = "none" /\ clientVersion = ServerVersion
    BY <1>2, <1>4, <2>1 DEF Does, FitsClient
  <2> HIDE DEF does
  <2>3. Chans' /\ chan["client"] # <<>> /\ Taken("client") /\ Processes("client", "Authenticate", FALSE, <<Frame("PROTOCOL", "OK")>>)
    BY <1>1, <1>3, <2>1, AppliesDoes
  <2>4. QED
    BY <1>1, <1>3, <1>4, <2>2, <2>3 DEF f
<1>5. CASE f.cmd = "PROTOCOL" /\ f.arg # clientVersion
  <2> DEFINE frames == <<Frame("ERROR", "Incompatible Protocol Version")>>
             all == <<Frame("ERROR", "Incompatible Protocol Version"), CLOSE>>
  <2>1. does = Does("Authenticate", frames, "authError", TRUE)
    BY <1>2, <1>5 DEF ClientProcesses, FitsClient, Rejects
  <2>3. all = Append(frames, CLOSE) /\ IsSequence(all)
    OBVIOUS
  <2> HIDE DEF does, frames, all
  <2>2. does.signal = "authError"
    BY <2>1 DEF Does
  <2>4. Chans' /\ chan["client"] # <<>> /\ Taken("client") /\ Processes("client", "Authenticate", TRUE, all)
    BY <1>1, <1>3, <2>1, <2>3, AppliesDoes
  <2>5. QED
    BY <1>1, <1>3, <1>5, <2>2, <2>4 DEF f, all
<1>6. CASE f.cmd = "AUTH"
  <2>1. does = Does("Authenticate", <<Frame("AUTH", clientKey)>>, "none", FALSE)
    BY <1>2, <1>6 DEF ClientProcesses, FitsClient
  <2>2. does.signal = "none"
    BY <2>1 DEF Does
  <2> HIDE DEF does
  <2>3. Chans' /\ chan["client"] # <<>> /\ Taken("client") /\ Processes("client", "Authenticate", FALSE, <<Frame("AUTH", clientKey)>>)
    BY <1>1, <1>3, <2>1, AppliesDoes
  <2>4. QED
    BY <1>1, <1>3, <1>6, <2>2, <2>3 DEF f
<1>7. CASE f.cmd = "START"
  <2>1. does = Does("Authenticated", <<>>, "authenticated", FALSE)
    BY <1>2, <1>7 DEF ClientProcesses, FitsClient
  <2> HIDE DEF does
  <2>2. does.signal = "authenticated"
    BY <2>1 DEF Does
  <2>3. Chans' /\ chan["client"] # <<>> /\ Taken("client") /\ Processes("client", "Authenticated", FALSE, <<>>)
    BY <1>1, <1>3, <2>1, AppliesDoes
  <2>4. QED
    BY <1>1, <1>3, <1>7, <2>2, <2>3 DEF f
<1>8. CASE f.cmd = "ERROR"
  <2>1. does = Does(stage["client"], <<>>, "authError", TRUE)
    BY <1>8 DEF ClientProcesses
  <2>2. does.signal = "authError"
    BY <2>1 DEF Does
  <2> HIDE DEF does
  <2>3. Chans' /\ chan["client"] # <<>> /\ Taken("client") /\ Processes("client", stage["client"], TRUE, <<CLOSE>>)
    BY <1>1, <1>3, <2>1, AppliesDoes
  <2>4. QED
    BY <1>1, <1>3, <1>8, <2>2, <2>3 DEF f
<1>9. QED
  BY <1>2, <1>4, <1>5, <1>6, <1>7, <1>8

LEMMA ServerTextIs ==
    ASSUME LinkInv, ServerText
    PROVE  /\ Arrives("server") /\ Chans' /\ chan["server"] # <<>> /\ Taken("server")
           /\ UNCHANGED <<config, replica, owed, session, lost, dropped>>
           /\ attempts' \in 0..2
           /\ LET f == Head(chan["server"]) IN
              \/ /\ f.cmd = "PROTOCOL"
                 /\ Processes("server", "Authenticate", FALSE, <<Frame("AUTH", <<>>)>>)
              \/ /\ f.cmd = "AUTH" /\ Compatible
                 /\ Processes("server", "Authenticated", FALSE, StartAndHostSide)
              \/ /\ f.cmd = "AUTH"
                 /\ Processes("server", "Authenticate", FALSE, <<Frame("AUTH", <<>>)>>)
              \/ /\ f.cmd = "AUTH"
                 /\ Processes("server", "Authenticate", TRUE, <<Frame("ERROR", "Too Many Authentication Attempts"), CLOSE>>)
              \/ /\ f.cmd = "ERROR"
                 /\ Processes("server", stage["server"], TRUE, <<CLOSE>>)
<1> DEFINE f == Head(chan["server"])
           does == ServerProcesses(stage["server"], f)
<1>1. /\ Text("server") /\ Arrives("server")
      /\ Applies("server", does)
      /\ attempts' = IF f.cmd = "AUTH" /\ ~Accepts(f.arg) /\ MoreAttempts THEN NextAttempts ELSE attempts
      /\ UNCHANGED <<config, replica, owed, session, lost, dropped>>
  BY DEF ServerText, Text
<1>2. f.cmd \in {"PROTOCOL", "AUTH", "ERROR"} /\ FitsServer(f)
  BY <1>1, HeadIs, Peers DEF Text, FitsServer
<1>3. attempts' \in 0..2 /\ Chans
  BY <1>1 DEF LinkInv, LinkTypeOK, MoreAttempts, NextAttempts
<1> HIDE DEF f
<1> USE Peers, FewAre, Appended
<1>4. CASE f.cmd = "PROTOCOL"
  <2>1. does = Does("Authenticate", <<Frame("AUTH", <<>>)>>, "none", FALSE)
    BY <1>2, <1>4 DEF ServerProcesses, FitsServer
  <2> HIDE DEF does
  <2>2. Chans' /\ chan["server"] # <<>> /\ Taken("server") /\ Processes("server", "Authenticate", FALSE, <<Frame("AUTH", <<>>)>>)
    BY <1>1, <1>3, <2>1, AppliesDoes
  <2>3. QED
    BY <1>1, <1>3, <1>4, <2>2 DEF f
<1>5. CASE f.cmd = "AUTH" /\ Accepts(f.arg)
  <2>1. does = Does("Authenticated", StartAndHostSide, "authenticated", FALSE)
    BY <1>2, <1>5 DEF ServerProcesses, FitsServer
  <2>2. IsSequence(StartAndHostSide)
    BY DEF StartAndHostSide
  <2>3. Compatible
    BY <1>2, <1>5 DEF LinkInv, StagesFit, FitsServer, Accepts, FirstWord, Compatible
  <2> HIDE DEF does
  <2>4. Chans' /\ chan["server"] # <<>> /\ Taken("server") /\ Processes("server", "Authenticated", FALSE, StartAndHostSide)
    BY <1>1, <1>3, <2>1, <2>2, AppliesDoes
  <2>5. QED
    BY <1>1, <1>3, <1>5, <2>3, <2>4 DEF f
<1>6. CASE f.cmd = "AUTH" /\ ~Accepts(f.arg) /\ MoreAttempts
  <2>1. does = Does("Authenticate", <<Frame("AUTH", <<>>)>>, "none", FALSE)
    BY <1>2, <1>6 DEF ServerProcesses, FitsServer
  <2> HIDE DEF does
  <2>2. Chans' /\ chan["server"] # <<>> /\ Taken("server") /\ Processes("server", "Authenticate", FALSE, <<Frame("AUTH", <<>>)>>)
    BY <1>1, <1>3, <2>1, AppliesDoes
  <2>3. QED
    BY <1>1, <1>3, <1>6, <2>2 DEF f
<1>7. CASE f.cmd = "AUTH" /\ ~Accepts(f.arg) /\ ~MoreAttempts
  <2> DEFINE frames == <<Frame("ERROR", "Too Many Authentication Attempts")>>
             all == <<Frame("ERROR", "Too Many Authentication Attempts"), CLOSE>>
  <2>1. does = Does("Authenticate", frames, "authError", TRUE)
    BY <1>2, <1>7 DEF ServerProcesses, FitsServer, Rejects
  <2>2. all = Append(frames, CLOSE) /\ IsSequence(all)
    OBVIOUS
  <2> HIDE DEF does, frames, all
  <2>3. Chans' /\ chan["server"] # <<>> /\ Taken("server") /\ Processes("server", "Authenticate", TRUE, all)
    BY <1>1, <1>3, <2>1, <2>2, AppliesDoes
  <2>4. QED
    BY <1>1, <1>3, <1>7, <2>3 DEF f, all
<1>8. CASE f.cmd = "ERROR"
  <2>1. does = Does(stage["server"], <<>>, "authError", TRUE)
    BY <1>8 DEF ServerProcesses
  <2> HIDE DEF does
  <2>2. Chans' /\ chan["server"] # <<>> /\ Taken("server") /\ Processes("server", stage["server"], TRUE, <<CLOSE>>)
    BY <1>1, <1>3, <2>1, AppliesDoes
  <2>3. QED
    BY <1>1, <1>3, <1>8, <2>2 DEF f
<1>9. QED
  BY <1>2, <1>4, <1>5, <1>6, <1>7, <1>8

Fits(q, f) == IF q = "client" THEN FitsClient(f) ELSE FitsServer(f)

\* A step that takes a head and answers it keeps what is said of frames, if the
\* answers fit, the frames that stay still fit, and the handshake goes on only
\* when a message of it was taken.
LEMMA TurnKeeps ==
    ASSUME LinkInv, NEW s \in Sides, NEW frames, IsSequence(frames),
           chan[s] # <<>>, Taken(s), Given(Peer(s), frames),
           \A k \in 1..Len(frames) : Fits(Peer(s), frames[k])',
           \A k, l \in 1..Len(frames) : frames[k].cmd \in Handshake /\ frames[l].cmd \in Handshake => k = l,
           \A k \in 1..Len(frames) : frames[k].cmd \in Handshake => chan[s][1].cmd \in Handshake,
           \A q \in Sides : \A f : Fits(q, f) /\ (f.cmd \in Handshake => chan[s][1].cmd \notin Handshake) => Fits(q, f)'
    PROVE  FramesFit' /\ OneHandshake'
<1> DEFINE p == Peer(s)
<1>0. Chans /\ p \in Sides /\ p # s /\ Sides = {s, p} /\ 1 \in On(s)
  BY Peers, TakenFrames DEF LinkInv
<1>1. \A i \in 1..Len(chan'[s]) : i + 1 \in On(s) /\ i + 1 > 1 /\ chan'[s][i] = chan[s][i + 1]
  BY TakenFrames DEF LinkInv
<1>2. \A i \in 1..Len(chan'[p]) :
        \/ i \in On(p) /\ chan'[p][i] = chan[p][i]
        \/ \E k \in 1..Len(frames) : i = Len(chan[p]) + k /\ chan'[p][i] = frames[k]
  BY <1>0, GivenFrames
<1>3. chan[s][1].cmd \in Handshake =>
        /\ \A i \in On(s) : i > 1 => chan[s][i].cmd \notin Handshake
        /\ \A i \in On(p) : chan[p][i].cmd \notin Handshake
  BY <1>0, Peers DEF LinkInv, OneHandshake, NoHandshake
<1> HIDE DEF p
<1>10. \A q \in Sides : \A i \in On(q) : Fits(q, chan[q][i])
  BY Peers DEF LinkInv, FramesFit, Fits
<1>4. \A f : \A i \in 1..Len(chan'[s]) : f = chan'[s][i] => Fits(s, f)'
  BY <1>0, <1>1, <1>3, <1>10
<1>5. \A f : \A i \in 1..Len(chan'[p]) : f = chan'[p][i] => Fits(p, f)'
  BY <1>0, <1>2, <1>3, <1>10 DEF p
<1>6. FramesFit'
  <2>1. \A q \in Sides : \A f : \A i \in 1..Len(chan'[q]) : f = chan'[q][i] => Fits(q, f)'
    BY <1>0, <1>4, <1>5
  <2>2. /\ \A f : \A i \in 1..Len(chan'["client"]) : f = chan'["client"][i] => FitsClient(f)'
        /\ \A f : \A i \in 1..Len(chan'["server"]) : f = chan'["server"][i] => FitsServer(f)'
    BY <2>1, Peers DEF Fits
  <2>3. QED
    BY <2>2 DEF FramesFit, On, FitsClient, FitsServer
<1>7. \A i, j \in 1..Len(chan'[s]) : chan'[s][i].cmd \in Handshake /\ chan'[s][j].cmd \in Handshake => i = j
  <2> TAKE i, j \in 1..Len(chan'[s])
  <2> HAVE chan'[s][i].cmd \in Handshake /\ chan'[s][j].cmd \in Handshake
  <2>1. i + 1 = j + 1
    BY <1>0, <1>1 DEF LinkInv, OneHandshake
  <2>2. QED
    BY <2>1
<1>8. \A i, j \in 1..Len(chan'[p]) : chan'[p][i].cmd \in Handshake /\ chan'[p][j].cmd \in Handshake => i = j
  <2> TAKE i, j \in 1..Len(chan'[p])
  <2> HAVE chan'[p][i].cmd \in Handshake /\ chan'[p][j].cmd \in Handshake
  <2>1. CASE i \in On(p) /\ chan'[p][i] = chan[p][i] /\ j \in On(p) /\ chan'[p][j] = chan[p][j]
    BY <1>0, <2>1 DEF LinkInv, OneHandshake
  <2>2. CASE \E k \in 1..Len(frames) : i = Len(chan[p]) + k /\ chan'[p][i] = frames[k]
    BY <1>2, <1>3, <2>2
  <2>3. CASE \E k \in 1..Len(frames) : j = Len(chan[p]) + k /\ chan'[p][j] = frames[k]
    BY <1>2, <1>3, <2>3
  <2>4. QED
    BY <1>2, <2>1, <2>2, <2>3
<1>9. (\A i \in 1..Len(chan'[s]) : chan'[s][i].cmd \notin Handshake) \/ (\A i \in 1..Len(chan'[p]) : chan'[p][i].cmd \notin Handshake)
  <2>1. CASE chan[s][1].cmd \in Handshake
    BY <1>1, <1>3, <2>1
  <2>2. CASE chan[s][1].cmd \notin Handshake
    <3>1. \/ \A i \in On(s) : chan[s][i].cmd \notin Handshake
          \/ \A i \in On(p) : chan[p][i].cmd \notin Handshake
      BY <1>0, Peers DEF LinkInv, OneHandshake, NoHandshake
    <3>2. QED
      BY <1>1, <1>2, <2>2, <3>1
  <2>3. QED
    BY <2>1, <2>2
<1>12. OneHandshake'
  <2>1. \A q \in Sides : \A i, j \in 1..Len(chan'[q]) : chan'[q][i].cmd \in Handshake /\ chan'[q][j].cmd \in Handshake => i = j
    BY <1>0, <1>7, <1>8
  <2>2. \/ \A i \in 1..Len(chan'["client"]) : chan'["client"][i].cmd \notin Handshake
        \/ \A i \in 1..Len(chan'["server"]) : chan'["server"][i].cmd \notin Handshake
    BY <1>0, <1>9, Peers DEF p
  <2>3. QED
    BY <2>1, <2>2 DEF OneHandshake, NoHandshake, On
<1>11. QED
  BY <1>6, <1>12

\* The frames of the handshake by name.
ProtocolOK == Frame("PROTOCOL", "OK")
Incompatible == Frame("ERROR", "Incompatible Protocol Version")
TooMany == Frame("ERROR", "Too Many Authentication Attempts")
Start == Frame("START", "")

LEMMA FramesAre ==
    /\ ProtocolOK.cmd = "PROTOCOL" /\ ProtocolOK.arg = "OK"
    /\ Incompatible.cmd = "ERROR" /\ Incompatible.arg # Violation.arg
    /\ TooMany.cmd = "ERROR" /\ TooMany.arg # Violation.arg
    /\ Start.cmd = "START"
    /\ CLOSE.cmd = "close"
    /\ \A cmd, arg : Frame(cmd, arg).cmd = cmd /\ Frame(cmd, arg).arg = arg
    /\ \A p : Binary(p).cmd = "binary" /\ Binary(p).arg = p
<1>1. \A cmd, arg : Frame(cmd, arg).cmd = cmd /\ Frame(cmd, arg).arg = arg
  BY DEF Frame
<1>2. /\ "Incompatible Protocol Version" # "Protocol Violation"
      /\ "Too Many Authentication Attempts" # "Protocol Violation"
  BY Zenon
<1>3. Incompatible.arg # Violation.arg /\ TooMany.arg # Violation.arg
  <2>1. Incompatible.arg = "Incompatible Protocol Version"
    BY <1>1, Zenon DEF Incompatible
  <2>2. TooMany.arg = "Too Many Authentication Attempts"
    BY <1>1, Zenon DEF TooMany
  <2>3. Violation.arg = "Protocol Violation"
    BY <1>1, Zenon DEF Violation
  <2>4. QED
    BY <1>2, <2>1, <2>2, <2>3, Zenon
<1>4. QED
  BY <1>1, <1>3, Zenon DEF ProtocolOK, Incompatible, TooMany, Start, CLOSE, Binary

\* What the client answers to the frame that is next, and how it goes on.
ClientAnswer(f, st, frames) ==
    \/ /\ f.cmd = "PROTOCOL" /\ st = "Authenticate"
       /\ \/ frames = <<ProtocolOK>> /\ clientVersion = ServerVersion
          \/ frames = <<Incompatible, CLOSE>>
    \/ f.cmd = "AUTH" /\ st = "Authenticate" /\ frames = <<Frame("AUTH", clientKey)>>
    \/ f.cmd = "START" /\ st = "Authenticated" /\ frames = <<>>
    \/ f.cmd = "ERROR" /\ st = stage["client"] /\ frames = <<CLOSE>>

LEMMA ClientAnswerIs ==
    ASSUME NEW f, NEW st, NEW frames, ClientAnswer(f, st, frames)
    PROVE  /\ IsSequence(frames)
           /\ \/ /\ f.cmd = "PROTOCOL" /\ st = "Authenticate" /\ clientVersion = ServerVersion
                 /\ Len(frames) = 1 /\ frames[1] = ProtocolOK
              \/ /\ f.cmd = "PROTOCOL" /\ st = "Authenticate" /\ Len(frames) = 2
                 /\ frames[1] = Incompatible /\ frames[2] = CLOSE
              \/ /\ f.cmd = "AUTH" /\ st = "Authenticate"
                 /\ Len(frames) = 1 /\ frames[1] = Frame("AUTH", clientKey)
              \/ f.cmd = "START" /\ st = "Authenticated" /\ Len(frames) = 0
              \/ f.cmd = "ERROR" /\ st = stage["client"] /\ Len(frames) = 1 /\ frames[1] = CLOSE
BY FewAre DEF ClientAnswer

LEMMA ClientTurnKeeps ==
    ASSUME LinkInv, Chans', chan["client"] # <<>>, Taken("client"),
           UNCHANGED <<serverKey, clientKey, clientVersion, attempts, got, received, owed, session, lost, dropped>>,
           ready' \in BOOLEAN,
           NEW f, f = chan["client"][1], FitsClient(f), 1 \in On("client"),
           NEW st, NEW closes \in BOOLEAN, NEW frames,
           Processes("client", st, closes, frames), ClientAnswer(f, st, frames)
    PROVE  LinkInv'
<1>1. /\ Chans' /\ chan["client"] # <<>> /\ Taken("client")
      /\ UNCHANGED <<serverKey, clientKey, clientVersion, attempts, got, received, owed, session, lost, dropped>>
  OBVIOUS
<1>2. 1 \in On("client") /\ f = chan["client"][1] /\ FitsClient(f)
  OBVIOUS
<1>3. /\ IsSequence(frames) /\ Processes("client", st, closes, frames) /\ ready' \in BOOLEAN /\ closes \in BOOLEAN
      /\ \/ /\ f.cmd = "PROTOCOL" /\ st = "Authenticate" /\ clientVersion = ServerVersion
            /\ Len(frames) = 1 /\ frames[1] = ProtocolOK
         \/ /\ f.cmd = "PROTOCOL" /\ st = "Authenticate" /\ Len(frames) = 2
            /\ frames[1] = Incompatible /\ frames[2] = CLOSE
         \/ /\ f.cmd = "AUTH" /\ st = "Authenticate"
            /\ Len(frames) = 1 /\ frames[1] = Frame("AUTH", clientKey)
         \/ f.cmd = "START" /\ st = "Authenticated" /\ Len(frames) = 0
         \/ f.cmd = "ERROR" /\ st = stage["client"] /\ Len(frames) = 1 /\ frames[1] = CLOSE
  BY ClientAnswerIs
<1>4. /\ stage' = [stage EXCEPT !["client"] = st]
      /\ socket' = [socket EXCEPT !["client"] = IF closes THEN "closing" ELSE @]
      /\ Given("server", frames)
  BY <1>3, Peers DEF Processes
<1>5. /\ stage'["client"] = st /\ stage'["server"] = stage["server"]
      /\ stage \in [Sides -> Stages]
  BY <1>4, Peers DEF LinkInv, LinkTypeOK
<1>6. LinkTypeOK' /\ StagesFit' /\ (owed' # {} => stage'["client"] = "Authenticated") /\ ~ lost'
  <2>1. socket' \in [Sides -> {"open", "closing", "closed"}] /\ stage' \in [Sides -> Stages]
    BY <1>3, <1>4, <1>5, Peers DEF LinkInv, LinkTypeOK, Stages
  <2>2. LinkTypeOK'
    BY <1>1, <1>3, <2>1 DEF LinkInv, LinkTypeOK
  <2>3. StagesFit'
    <3>1. (Compatible' <=> Compatible) /\ (clientVersion = ServerVersion <=> clientVersion' = ServerVersion)
      BY <1>1 DEF Compatible
    <3>2. /\ f.cmd = "PROTOCOL" => stage["client"] = "None" /\ stage["server"] = "Protocol"
          /\ f.cmd = "AUTH" => stage["client"] = "Authenticate"
          /\ f.cmd = "START" => stage["client"] = "Authenticate" /\ stage["server"] = "Authenticated"
      BY <1>2 DEF FitsClient
    <3>3. \/ st = "Authenticate" /\ stage["client"] = "None" /\ stage["server"] = "Protocol"
          \/ st = "Authenticate" /\ stage["client"] = "Authenticate"
          \/ st = "Authenticated" /\ stage["server"] = "Authenticated"
          \/ st = stage["client"]
      BY <1>3, <3>2
    <3>4. QED
      BY <1>5, <3>1, <3>3 DEF LinkInv, StagesFit
  <2>4. QED
    BY <1>1, <1>2, <1>3, <1>5, <2>2, <2>3 DEF LinkInv, FitsClient
<1>7. FramesFit' /\ OneHandshake'
  <2>1. \A k \in 1..Len(frames) : Fits("server", frames[k])'
    BY <1>1, <1>2, <1>3, <1>5, FramesAre, Peers DEF Fits, FitsServer, FitsClient, LinkInv, StagesFit
  <2>2. /\ \A k, l \in 1..Len(frames) : frames[k].cmd \in Handshake /\ frames[l].cmd \in Handshake => k = l
        /\ \A k \in 1..Len(frames) : frames[k].cmd \in Handshake => chan["client"][1].cmd \in Handshake
    BY <1>2, <1>3, FramesAre DEF Handshake
  <2>3. \A q \in Sides : \A g : Fits(q, g) /\ (g.cmd \in Handshake => chan["client"][1].cmd \notin Handshake) => Fits(q, g)'
    BY <1>1, <1>2, <1>3, <1>5 DEF Fits, FitsServer, FitsClient, Handshake, LinkInv, StagesFit
  <2>4. QED
    BY <1>1, <1>3, <1>4, <2>1, <2>2, <2>3, TurnKeeps, Peers
<1>8. StartFirst'
  <2> SUFFICES ASSUME NEW i \in 1..Len(chan'["client"]), chan'["client"][i].cmd = "binary", stage'["client"] # "Authenticated"
               PROVE  \E j \in 1..Len(chan'["client"]) : j < i /\ chan'["client"][j].cmd = "START"
    BY DEF StartFirst, On
  <2>1. i + 1 \in On("client") /\ chan'["client"][i] = chan["client"][i + 1]
    BY <1>1, TakenFrames, Peers DEF LinkInv
  <2>2. stage["client"] # "Authenticated" /\ f.cmd # "START"
    BY <1>2, <1>3, <1>5 DEF FitsClient
  <2>3. PICK j \in On("client") : j < i + 1 /\ chan["client"][j].cmd = "START"
    BY <2>1, <2>2 DEF LinkInv, StartFirst
  <2>4. j > 1
    BY <1>2, <2>2, <2>3 DEF On
  <2>5. j - 1 \in 1..Len(chan'["client"]) /\ chan'["client"][j - 1] = chan["client"][j]
    BY <1>1, <2>3, <2>4, TakenFrames, Peers DEF LinkInv
  <2>6. j - 1 < i
    BY <2>3 DEF On
  <2>7. QED
    BY <2>3, <2>5, <2>6
<1>9. QED
  BY <1>1, <1>6, <1>7, <1>8 DEF LinkInv

LEMMA ClientTextKeepsLink ==
    ASSUME LinkInv, ClientText
    PROVE  LinkInv'
<1> DEFINE f == Head(chan["client"])
<1>1. /\ Arrives("client") /\ Chans' /\ chan["client"] # <<>> /\ Taken("client")
      /\ UNCHANGED <<serverKey, clientKey, clientVersion, attempts, got, received, owed, session, lost, dropped>>
  BY ClientTextIs DEF config
<1>2. 1 \in On("client") /\ f = chan["client"][1] /\ FitsClient(f)
  BY <1>1, HeadIs, Peers
<1>3. ready \in BOOLEAN
  BY DEF LinkInv, LinkTypeOK
<1>4. \E st : \E closes \in BOOLEAN : \E frames :
        ready' \in BOOLEAN /\ Processes("client", st, closes, frames) /\ ClientAnswer(f, st, frames)
  <2> HIDE DEF f
  <2>1. \/ /\ f.cmd = "PROTOCOL" /\ clientVersion = ServerVersion /\ ready' = ready
           /\ Processes("client", "Authenticate", FALSE, <<Frame("PROTOCOL", "OK")>>)
        \/ /\ f.cmd = "PROTOCOL" /\ ready' = FALSE
           /\ Processes("client", "Authenticate", TRUE, <<Frame("ERROR", "Incompatible Protocol Version"), CLOSE>>)
        \/ /\ f.cmd = "AUTH" /\ ready' = ready
           /\ Processes("client", "Authenticate", FALSE, <<Frame("AUTH", clientKey)>>)
        \/ /\ f.cmd = "START" /\ ready' = ready
           /\ Processes("client", "Authenticated", FALSE, <<>>)
        \/ /\ f.cmd = "ERROR" /\ ready' = FALSE
           /\ Processes("client", stage["client"], TRUE, <<CLOSE>>)
    BY ClientTextIs DEF f
  <2>2. QED
    BY <1>3, <2>1, Zenon DEF ClientAnswer, ProtocolOK, Incompatible
<1>5. QED
  BY <1>1, <1>2, <1>4, ClientTurnKeeps

\* The daemon's end, likewise.
ServerAnswer(f, st, frames) ==
    \/ f.cmd \in {"PROTOCOL", "AUTH"} /\ st = "Authenticate" /\ frames = <<Frame("AUTH", <<>>)>>
    \/ f.cmd = "AUTH" /\ st = "Authenticated" /\ Compatible /\ frames = <<Start, Binary("objects")>>
    \/ /\ f.cmd = "AUTH" /\ st = "Authenticate"
       /\ frames = <<TooMany, CLOSE>>
    \/ f.cmd = "ERROR" /\ st = stage["server"] /\ frames = <<CLOSE>>

LEMMA ServerAnswerIs ==
    ASSUME NEW f, NEW st, NEW frames, ServerAnswer(f, st, frames)
    PROVE  /\ IsSequence(frames)
           /\ \/ /\ f.cmd \in {"PROTOCOL", "AUTH"} /\ st = "Authenticate"
                 /\ Len(frames) = 1 /\ frames[1] = Frame("AUTH", <<>>)
              \/ /\ f.cmd = "AUTH" /\ st = "Authenticated" /\ Compatible
                 /\ Len(frames) = 2 /\ frames[1] = Start /\ frames[2] = Binary("objects")
              \/ /\ f.cmd = "AUTH" /\ st = "Authenticate" /\ Len(frames) = 2
                 /\ frames[1] = TooMany /\ frames[2] = CLOSE
              \/ f.cmd = "ERROR" /\ st = stage["server"] /\ Len(frames) = 1 /\ frames[1] = CLOSE
BY FewAre DEF ServerAnswer

LEMMA ServerTurnKeeps ==
    ASSUME LinkInv, Chans', chan["server"] # <<>>, Taken("server"),
           UNCHANGED <<serverKey, clientKey, clientVersion, got, ready, received, owed, session, lost, dropped>>,
           attempts' \in 0..2,
           NEW f, f = chan["server"][1], FitsServer(f), 1 \in On("server"),
           NEW st, NEW closes \in BOOLEAN, NEW frames,
           Processes("server", st, closes, frames), ServerAnswer(f, st, frames)
    PROVE  LinkInv'
<1>1. /\ Chans' /\ chan["server"] # <<>> /\ Taken("server") /\ attempts' \in 0..2
      /\ UNCHANGED <<serverKey, clientKey, clientVersion, got, ready, received, owed, session, lost, dropped>>
  OBVIOUS
<1>2. 1 \in On("server") /\ f = chan["server"][1] /\ FitsServer(f)
  OBVIOUS
<1>3. /\ IsSequence(frames) /\ Processes("server", st, closes, frames) /\ closes \in BOOLEAN
      /\ \/ /\ f.cmd \in {"PROTOCOL", "AUTH"} /\ st = "Authenticate"
            /\ Len(frames) = 1 /\ frames[1] = Frame("AUTH", <<>>)
         \/ /\ f.cmd = "AUTH" /\ st = "Authenticated" /\ Compatible
            /\ Len(frames) = 2 /\ frames[1] = Start /\ frames[2] = Binary("objects")
         \/ /\ f.cmd = "AUTH" /\ st = "Authenticate" /\ Len(frames) = 2
            /\ frames[1] = TooMany /\ frames[2] = CLOSE
         \/ f.cmd = "ERROR" /\ st = stage["server"] /\ Len(frames) = 1 /\ frames[1] = CLOSE
  BY ServerAnswerIs
<1>4. /\ stage' = [stage EXCEPT !["server"] = st]
      /\ socket' = [socket EXCEPT !["server"] = IF closes THEN "closing" ELSE @]
      /\ Given("client", frames)
  BY <1>3, Peers DEF Processes
<1>10. Chans /\ IsSequence(frames) /\ Given("client", frames) /\ "client" \in Sides
  BY <1>3, <1>4, Peers DEF LinkInv
<1>5. /\ stage'["server"] = st /\ stage'["client"] = stage["client"]
      /\ stage \in [Sides -> Stages]
  BY <1>4, Peers DEF LinkInv, LinkTypeOK
<1>6. LinkTypeOK' /\ StagesFit' /\ (owed' # {} => stage'["client"] = "Authenticated") /\ ~ lost'
  <2>1. socket' \in [Sides -> {"open", "closing", "closed"}] /\ stage' \in [Sides -> Stages]
    BY <1>3, <1>4, <1>5, Peers DEF LinkInv, LinkTypeOK, Stages
  <2>2. LinkTypeOK'
    BY <1>1, <2>1 DEF LinkInv, LinkTypeOK
  <2>3. StagesFit'
    BY <1>1, <1>2, <1>3, <1>5 DEF LinkInv, StagesFit, FitsServer, Compatible
  <2>4. QED
    BY <1>1, <1>5, <2>2, <2>3 DEF LinkInv
<1>7. FramesFit' /\ OneHandshake'
  <2>1. \A k \in 1..Len(frames) : Fits("client", frames[k])'
    BY <1>1, <1>2, <1>3, <1>5, FramesAre, Peers DEF Fits, FitsServer, FitsClient, Parts
  <2>2. /\ \A k, l \in 1..Len(frames) : frames[k].cmd \in Handshake /\ frames[l].cmd \in Handshake => k = l
        /\ \A k \in 1..Len(frames) : frames[k].cmd \in Handshake => chan["server"][1].cmd \in Handshake
    BY <1>2, <1>3, FramesAre DEF Handshake
  <2>3. \A q \in Sides : \A g : Fits(q, g) /\ (g.cmd \in Handshake => chan["server"][1].cmd \notin Handshake) => Fits(q, g)'
    BY <1>1, <1>2, <1>3, <1>5 DEF Fits, FitsServer, FitsClient, Handshake
  <2>4. QED
    BY <1>1, <1>3, <1>4, <2>1, <2>2, <2>3, TurnKeeps, Peers
<1>8. StartFirst'
  <2> SUFFICES ASSUME NEW i \in 1..Len(chan'["client"]), chan'["client"][i].cmd = "binary", stage'["client"] # "Authenticated"
               PROVE  \E j \in 1..Len(chan'["client"]) : j < i /\ chan'["client"][j].cmd = "START"
    BY DEF StartFirst, On
  <2>1. \/ i \in On("client") /\ chan'["client"][i] = chan["client"][i]
        \/ \E k \in 1..Len(frames) : i = Len(chan["client"]) + k /\ chan'["client"][i] = frames[k]
    BY <1>10, GivenFrames
  <2>2. CASE i \in On("client") /\ chan'["client"][i] = chan["client"][i]
    <3>1. PICK j \in On("client") : j < i /\ chan["client"][j].cmd = "START"
      BY <1>5, <2>2 DEF LinkInv, StartFirst
    <3>2. j \in 1..Len(chan'["client"]) /\ chan'["client"][j] = chan["client"][j]
      BY <1>3, <1>4, GivenFrames, Peers DEF LinkInv
    <3>3. QED
      BY <3>1, <3>2
  <2>3. ASSUME NEW k \in 1..Len(frames), i = Len(chan["client"]) + k, chan'["client"][i] = frames[k]
        PROVE  \E j \in 1..Len(chan'["client"]) : j < i /\ chan'["client"][j].cmd = "START"
    <3>1. k = 2 /\ Len(frames) = 2 /\ frames[1] = Start
      BY <1>3, <2>3, FramesAre
    <3>2. socket["client"] # "closed"
      BY <1>3, <1>4, <2>3, FewAre, SequenceHas, Peers DEF Given, Moves, LinkInv, Chans
    <3>3. Len(chan["client"]) + 1 \in 1..Len(chan'["client"]) /\ chan'["client"][Len(chan["client"]) + 1] = frames[1]
      <4>1. 1 \in 1..Len(frames)
        BY <3>1
      <4>2. \A l \in 1..Len(frames) : /\ Len(chan["client"]) + l \in 1..Len(chan'["client"])
                                      /\ chan'["client"][Len(chan["client"]) + l] = frames[l]
        BY <1>10, <3>2, GivenFrames
      <4>3. QED
        BY <4>1, <4>2
    <3>4. Len(chan["client"]) + 1 < i
      BY <2>3, <3>1, SequenceHas, Peers DEF LinkInv, Chans
    <3>5. QED
      BY <3>1, <3>3, <3>4, FramesAre
  <2>4. QED
    BY <2>1, <2>2, <2>3
<1>9. QED
  BY <1>1, <1>6, <1>7, <1>8 DEF LinkInv

LEMMA ServerTextKeepsLink ==
    ASSUME LinkInv, ServerText
    PROVE  LinkInv'
<1> DEFINE f == Head(chan["server"])
<1>1. /\ Arrives("server") /\ Chans' /\ chan["server"] # <<>> /\ Taken("server")
      /\ UNCHANGED <<serverKey, clientKey, clientVersion, got, ready, received, owed, session, lost, dropped>>
      /\ attempts' \in 0..2
  BY ServerTextIs DEF config, replica
<1>2. 1 \in On("server") /\ f = chan["server"][1] /\ FitsServer(f)
  BY <1>1, HeadIs, Peers
<1>4. \E st : \E closes \in BOOLEAN : \E frames :
        Processes("server", st, closes, frames) /\ ServerAnswer(f, st, frames)
  <2> HIDE DEF f
  <2>1. \/ f.cmd = "PROTOCOL" /\ Processes("server", "Authenticate", FALSE, <<Frame("AUTH", <<>>)>>)
        \/ f.cmd = "AUTH" /\ Compatible /\ Processes("server", "Authenticated", FALSE, StartAndHostSide)
        \/ f.cmd = "AUTH" /\ Processes("server", "Authenticate", FALSE, <<Frame("AUTH", <<>>)>>)
        \/ /\ f.cmd = "AUTH"
           /\ Processes("server", "Authenticate", TRUE, <<Frame("ERROR", "Too Many Authentication Attempts"), CLOSE>>)
        \/ f.cmd = "ERROR" /\ Processes("server", stage["server"], TRUE, <<CLOSE>>)
    BY ServerTextIs DEF f
  <2>2. QED
    BY <2>1, Zenon DEF ServerAnswer, StartAndHostSide, Start, TooMany
<1>5. QED
  BY <1>1, <1>2, <1>4, ServerTurnKeeps

-----------------------------------------------------------------------------
(* Binary frames, and the connection's beginning and end.                  *)

SameStages == UNCHANGED <<serverKey, clientKey, clientVersion, stage>>

LEMMA SameFits ==
    ASSUME SameStages
    PROVE  /\ \A q \in Sides : \A f : Fits(q, f)' <=> Fits(q, f)
           /\ StagesFit' <=> StagesFit
BY DEF SameStages, Fits, FitsClient, FitsServer, StagesFit, Compatible

\* Frames that are still there, and others that end the connection.
LEMMA EndsKeep ==
    ASSUME LinkInv, SameStages, DOMAIN chan' = Sides,
           \A q \in Sides : chan'[q] = chan[q] \/ chan'[q] = <<>> \/ chan'[q] = <<CLOSE>>
    PROVE  Chans' /\ FramesFit' /\ StagesFit' /\ OneHandshake' /\ StartFirst'
<1>1. Chans' /\ StagesFit'
  <2>1. Chans'
    <3>1. \A q \in Sides : IsSequence(chan[q])
      BY DEF LinkInv, Chans
    <3>2. \A q \in Sides : IsSequence(chan'[q])
      BY <3>1, FewAre
    <3>3. QED
      BY <3>2 DEF Chans
  <2>2. StagesFit'
    BY SameFits DEF LinkInv
  <2>3. QED
    BY <2>1, <2>2
<1>2. ASSUME NEW q \in Sides
      PROVE  \/ chan'[q] = chan[q]
             \/ \A i \in 1..Len(chan'[q]) : i = 1 /\ chan'[q][i] = CLOSE
  <2>1. CASE chan'[q] = <<>>
    BY <2>1, FewAre
  <2>2. CASE chan'[q] = <<CLOSE>>
    <3>1. Len(chan'[q]) = 1 /\ chan'[q][1] = CLOSE
      BY <2>2, FewAre
    <3>2. QED
      BY <3>1
  <2>3. QED
    BY <2>1, <2>2
<1>3. CLOSE.cmd = "close" /\ \A q \in Sides : Fits(q, CLOSE)
  BY FramesAre DEF Fits, FitsClient, FitsServer
<1>4. \A q \in Sides : \A f : \A i \in 1..Len(chan'[q]) : f = chan'[q][i] => Fits(q, f)
  BY <1>2, <1>3, Peers DEF LinkInv, FramesFit, Fits, On
<1>5. FramesFit'
  <2>1. \A q \in Sides : \A f : \A i \in 1..Len(chan'[q]) : f = chan'[q][i] => Fits(q, f)'
    BY <1>4, SameFits
  <2>2. /\ \A f : \A i \in 1..Len(chan'["client"]) : f = chan'["client"][i] => FitsClient(f)'
        /\ \A f : \A i \in 1..Len(chan'["server"]) : f = chan'["server"][i] => FitsServer(f)'
    BY <2>1, Peers DEF Fits
  <2>3. QED
    BY <2>2 DEF FramesFit, On, FitsClient, FitsServer
<1>6. OneHandshake'
  <2>1. \A q \in Sides : \/ chan'[q] = chan[q]
                         \/ \A i \in 1..Len(chan'[q]) : chan'[q][i].cmd \notin Handshake
    BY <1>2, <1>3 DEF Handshake
  <2>2. QED
    BY <2>1, Peers DEF LinkInv, OneHandshake, NoHandshake, On
<1>7. StartFirst'
  <2>1. stage'["client"] = stage["client"]
    BY DEF SameStages
  <2>2. CASE chan'["client"] = chan["client"]
    BY <2>1, <2>2 DEF LinkInv, StartFirst, On
  <2>3. CASE \A i \in 1..Len(chan'["client"]) : i = 1 /\ chan'["client"][i] = CLOSE
    BY <1>3, <2>3 DEF StartFirst, On
  <2>4. QED
    BY <1>2, <2>2, <2>3, Peers
<1>8. QED
  BY <1>1, <1>5, <1>6, <1>7

LEMMA EndKeepsLink ==
    ASSUME LinkInv, Drop \/ \E s \in Sides : Closed(s) \/ GetsClose(s)
    PROVE  LinkInv'
<1>1. SameStages /\ UNCHANGED <<attempts, owed, received, session, lost>>
  BY DEF Drop, Closed, GetsClose, SameStages, config, replica
<1>2. /\ DOMAIN chan' = Sides
      /\ \A q \in Sides : chan'[q] = chan[q] \/ chan'[q] = <<>> \/ chan'[q] = <<CLOSE>>
  BY DEF Drop, Closed, GetsClose, LinkInv, Chans
<1>3. /\ socket' \in [Sides -> {"open", "closing", "closed"}]
      /\ got' \subseteq Parts /\ ready' \in BOOLEAN /\ dropped' \in BOOLEAN
  BY DEF Drop, Closed, GetsClose, Disconnected, replica, LinkInv, LinkTypeOK
<1>4. LinkTypeOK'
  BY <1>1, <1>3 DEF SameStages, LinkInv, LinkTypeOK
<1>5. QED
  BY <1>1, <1>2, <1>4, EndsKeep DEF LinkInv, SameStages

LEMMA ConnectKeepsLink ==
    ASSUME LinkInv, initilizeReplica
    PROVE  LinkInv'
<1> DEFINE f == Frame("PROTOCOL", ServerVersion)
<1>1. /\ stage' = [client |-> "None", server |-> "Protocol"]
      /\ chan' = [client |-> <<f>>, server |-> <<>>]
      /\ owed' = {} /\ lost' = FALSE
      /\ session' = session + 1 /\ session < Sessions
      /\ socket' = [s \in Sides |-> "open"]
      /\ attempts' = 0 /\ received' = {} /\ dropped' = FALSE
      /\ UNCHANGED <<serverKey, clientKey, clientVersion, got, ready>>
  BY DEF initilizeReplica, config
<1> HIDE DEF f
<1>2. /\ DOMAIN chan' = Sides /\ chan'["client"] = <<f>> /\ chan'["server"] = <<>>
      /\ stage' \in [Sides -> Stages] /\ stage'["client"] = "None" /\ stage'["server"] = "Protocol"
  BY <1>1 DEF Sides, Stages
<1>3. f.cmd = "PROTOCOL" /\ f.arg = ServerVersion
  BY FramesAre DEF f
<1>4. /\ Len(chan'["client"]) = 1 /\ chan'["client"][1] = f /\ IsSequence(chan'["client"])
      /\ Len(chan'["server"]) = 0 /\ IsSequence(chan'["server"])
  BY <1>2, FewAre
<1>5. Chans' /\ StagesFit'
  BY <1>2, <1>4, Peers DEF Chans, StagesFit
<1>6. LinkTypeOK'
  <2>1. socket' \in [Sides -> {"open", "closing", "closed"}]
    BY <1>1
  <2>2. session' \in 0..Sessions
    BY <1>1, RemoteLinkAssumption DEF LinkInv, LinkTypeOK
  <2>3. attempts' \in 0..2 /\ owed' \subseteq Parts /\ received' \subseteq Parts /\ lost' \in BOOLEAN /\ dropped' \in BOOLEAN
    <3>1. attempts' = 0 /\ owed' = {} /\ received' = {} /\ lost' = FALSE /\ dropped' = FALSE
      BY <1>1
    <3>2. attempts' \in 0..2 /\ owed' \subseteq Parts /\ received' \subseteq Parts
      BY <3>1
    <3>3. lost' \in BOOLEAN /\ dropped' \in BOOLEAN
      BY <3>1, Zenon
    <3>4. QED
      BY <3>2, <3>3
  <2>4. UNCHANGED <<serverKey, clientKey, clientVersion, got, ready>> /\ stage' \in [Sides -> Stages]
    BY <1>1, <1>2
  <2>5. QED
    BY <2>1, <2>2, <2>3, <2>4 DEF LinkInv, LinkTypeOK
<1>7. \A g : g = f => FitsClient(g)'
  BY <1>2, <1>3 DEF FitsClient
<1>8. FramesFit'
  BY <1>4, <1>7 DEF FramesFit, On, FitsClient, FitsServer
<1>9. OneHandshake' /\ StartFirst'
  BY <1>3, <1>4, Peers DEF OneHandshake, NoHandshake, StartFirst, On
<1>10. QED
  BY <1>1, <1>5, <1>6, <1>8, <1>9 DEF LinkInv

\* A binary frame is taken by an end that listens to it: the client has seen
\* START, which is ahead of it, and the daemon has sent it.
LEMMA BinaryIs ==
    ASSUME LinkInv, NEW s \in Sides, IsBinary(s)
    PROVE  /\ Arrives(s) /\ chan[s] # <<>> /\ chan[s][1].cmd = "binary" /\ Head(chan[s]) = chan[s][1] /\ 1 \in On(s)
           /\ chan[s][1].cmd \notin Handshake
           /\ stage = [q \in Sides |-> "Authenticated"]
           /\ s = "client" => chan[s][1].arg \in Parts \cup {"objects"}
           /\ s = "server" => chan[s][1].arg = "acquire"
<1>1. /\ Arrives(s) /\ chan[s] # <<>> /\ chan[s][1].cmd = "binary" /\ Head(chan[s]) = chan[s][1] /\ 1 \in On(s)
      /\ s = "client" => FitsClient(chan[s][1])
      /\ s = "server" => FitsServer(chan[s][1])
  BY HeadIs DEF IsBinary, Arrives
<1>2. stage["client"] = "Authenticated"
  <2>1. CASE s = "client"
    <3>1. ~ \E j \in On("client") : j < 1
      BY DEF On
    <3>2. QED
      BY <1>1, <2>1, <3>1 DEF LinkInv, StartFirst
  <2>2. CASE s = "server"
    BY <1>1, <2>2 DEF FitsServer
  <2>3. QED
    BY <2>1, <2>2, Peers
<1>3. stage["server"] = "Authenticated"
  BY <1>2 DEF LinkInv, StagesFit
<1>4. stage = [q \in Sides |-> "Authenticated"]
  BY <1>2, <1>3, Peers DEF LinkInv, LinkTypeOK
<1>5. QED
  BY <1>1, <1>4 DEF FitsClient, FitsServer, Handshake

\* Taking a binary frame, perhaps to answer it with another.
LEMMA BinaryKeeps ==
    ASSUME LinkInv, NEW s \in Sides, IsBinary(s), SameStages, NEW frames, Sends(s, frames),
           \/ frames = <<>>
           \/ s = "client" /\ frames = <<Binary("acquire")>>
    PROVE  Chans' /\ FramesFit' /\ StagesFit' /\ OneHandshake' /\ StartFirst'
<1>1. /\ Arrives(s) /\ chan[s] # <<>> /\ chan[s][1].cmd \notin Handshake
      /\ stage = [q \in Sides |-> "Authenticated"]
  BY BinaryIs
<1>2. /\ IsSequence(frames)
      /\ Len(frames) = 0 \/ (s = "client" /\ Len(frames) = 1 /\ frames[1] = Binary("acquire"))
  BY FewAre
<1>3. \A k \in 1..Len(frames) : s = "client" /\ frames[k] = Binary("acquire")
  BY <1>2
<1>4. Chans' /\ Taken(s) /\ Given(Peer(s), frames)
  BY <1>1, <1>2, AnswerIs DEF LinkInv
<1>5. stage'["client"] = "Authenticated"
  BY <1>1, Peers DEF SameStages
<1>6. Fits("server", Binary("acquire"))
  BY <1>1, FramesAre, Peers DEF Fits, FitsServer
<1>7. FramesFit' /\ OneHandshake'
  <2>1. \A q \in Sides : \A f : Fits(q, f)' <=> Fits(q, f)
    BY SameFits
  <2>2. Fits("server", Binary("acquire"))'
    <3>1. \A f : f = Binary("acquire") => Fits("server", f)'
      BY <1>6, <2>1, Peers
    <3>2. QED
      BY <3>1 DEF Binary, Frame
  <2>3. \A k \in 1..Len(frames) : Fits(Peer(s), frames[k])'
    <3>1. \A f : f = Binary("acquire") => Fits("server", f)'
      BY <1>6, <2>1, Peers
    <3>2. QED
      BY <1>3, <3>1, Peers
  <2>4. \A k \in 1..Len(frames) : frames[k].cmd \notin Handshake
    BY <1>3, FramesAre DEF Handshake
  <2>5. QED
    BY <1>1, <1>2, <1>4, <2>1, <2>3, <2>4, TurnKeeps
<1>8. StartFirst'
  BY <1>5 DEF StartFirst
<1>9. QED
  BY <1>4, <1>7, <1>8, SameFits DEF LinkInv

LEMMA ServerBinaryKeepsLink ==
    ASSUME LinkInv, ServerBinary
    PROVE  LinkInv'
<1>1. /\ IsBinary("server") /\ Sends("server", <<>>) /\ stage = [q \in Sides |-> "Authenticated"]
      /\ SameStages /\ UNCHANGED <<attempts, socket, got, ready, received, session, dropped>>
  BY BinaryIs, Peers DEF ServerBinary, SameStages, config, replica
<1>2. owed' = Parts /\ lost' = lost
  BY <1>1, Peers DEF ServerBinary
<1>3. LinkTypeOK'
  BY <1>1, <1>2 DEF SameStages, LinkInv, LinkTypeOK
<1>4. stage'["client"] = "Authenticated"
  BY <1>1, Peers DEF SameStages
<1>5. QED
  BY <1>1, <1>2, <1>3, <1>4, BinaryKeeps, Peers DEF LinkInv

LEMMA ClientBinaryKeepsLink ==
    ASSUME LinkInv, ClientBinary
    PROVE  LinkInv'
<1> DEFINE p == Head(chan["client"]).arg
<1>1. /\ IsBinary("client") /\ stage = [q \in Sides |-> "Authenticated"]
      /\ SameStages /\ UNCHANGED <<attempts, socket, owed, session, dropped>>
  BY BinaryIs, Peers DEF ClientBinary, SameStages, config
<1>2. p \in Parts \cup {"objects"}
  BY <1>1, BinaryIs, Peers
<1>3. /\ lost' = lost
      /\ IF p = "objects"
         THEN Sends("client", <<Binary("acquire")>>) /\ UNCHANGED replica
         ELSE /\ Sends("client", <<>>)
              /\ got' = got \cup {p}
              /\ received' = received \cup {p}
              /\ ready' = (ready \/ checkReplicaReady(got', p))
  BY <1>1, Peers DEF ClientBinary
<1> HIDE DEF p
<1>4. got' \subseteq Parts /\ received' \subseteq Parts /\ ready' \in BOOLEAN
  BY <1>2, <1>3 DEF LinkInv, LinkTypeOK, replica, checkReplicaReady
<1>5. LinkTypeOK'
  BY <1>1, <1>3, <1>4 DEF SameStages, LinkInv, LinkTypeOK
<1>6. Chans' /\ FramesFit' /\ StagesFit' /\ OneHandshake' /\ StartFirst'
  BY <1>1, <1>3, BinaryKeeps, Peers
<1>7. QED
  BY <1>1, <1>3, <1>5, <1>6 DEF LinkInv, SameStages

\* Parts follow START on the same connection.
LEMMA PartKeepsLink ==
    ASSUME LinkInv, NEW p, ServerSendsPart(p)
    PROVE  LinkInv'
<1> DEFINE f == Binary(p)
<1>1. /\ p \in owed /\ owed' = owed \ {p} /\ Post("client", f)
      /\ SameStages /\ UNCHANGED <<attempts, socket, got, ready, received, session, dropped, lost>>
  BY DEF ServerSendsPart, Post, SameStages, config, replica
<1>2. f.cmd = "binary" /\ f.arg = p
  BY FramesAre
<1> HIDE DEF f
<1>3. /\ Chans' /\ Given("server", <<>>) /\ Given("client", <<f>>) /\ Chans
      /\ IsSequence(<<>>) /\ Len(<<>>) = 0 /\ IsSequence(<<f>>) /\ Len(<<f>>) = 1 /\ <<f>>[1] = f
  BY <1>1, PostIs, FewAre, Peers DEF LinkInv
<1>4. /\ \A i \in 1..Len(chan'["client"]) : \/ i \in On("client") /\ chan'["client"][i] = chan["client"][i]
                                            \/ chan'["client"][i] = f
      /\ \A i \in 1..Len(chan'["server"]) : i \in On("server") /\ chan'["server"][i] = chan["server"][i]
  <2>1. \A i \in 1..Len(chan'["client"]) :
          \/ i \in On("client") /\ chan'["client"][i] = chan["client"][i]
          \/ chan'["client"][i] = f
    <3>1. PICK one : one = <<f>>
      OBVIOUS
    <3>2. IsSequence(one) /\ Given("client", one) /\ \A k \in 1..Len(one) : one[k] = f
      BY <1>3, <3>1
    <3>3. \A i \in 1..Len(chan'["client"]) :
            \/ i \in On("client") /\ chan'["client"][i] = chan["client"][i]
            \/ \E k \in 1..Len(one) : i = Len(chan["client"]) + k /\ chan'["client"][i] = one[k]
      BY <1>3, <3>2, GivenFrames, Peers
    <3>4. QED
      BY <3>2, <3>3
  <2>3. \A i \in 1..Len(chan'["server"]) : i \in On("server") /\ chan'["server"][i] = chan["server"][i]
    <3>1. PICK none : none = <<>>
      OBVIOUS
    <3>2. IsSequence(none) /\ Len(none) = 0 /\ Given("server", none)
      BY <1>3, <3>1
    <3>3. \A i \in 1..Len(chan'["server"]) :
            \/ i \in On("server") /\ chan'["server"][i] = chan["server"][i]
            \/ \E k \in 1..Len(none) : i = Len(chan["server"]) + k /\ chan'["server"][i] = none[k]
      BY <1>3, <3>2, GivenFrames, Peers
    <3>4. QED
      BY <3>2, <3>3
  <2>4. QED
    BY <2>1, <2>3
<1>5. stage["client"] = "Authenticated" /\ stage["server"] = "Authenticated" /\ p \in Parts
  BY <1>1 DEF LinkInv, StagesFit, LinkTypeOK
<1>6. Fits("client", f)
  BY <1>2, <1>5 DEF Fits, FitsClient
<1>7. FramesFit'
  <2>1. /\ \A g : \A i \in 1..Len(chan'["client"]) : g = chan'["client"][i] => FitsClient(g)
        /\ \A g : \A i \in 1..Len(chan'["server"]) : g = chan'["server"][i] => FitsServer(g)
    BY <1>4, <1>6 DEF LinkInv, FramesFit, Fits
  <2>2. /\ \A g : FitsClient(g)' <=> FitsClient(g)
        /\ \A g : FitsServer(g)' <=> FitsServer(g)
    BY <1>1 DEF SameStages, FitsClient, FitsServer
  <2>3. QED
    BY <2>1, <2>2 DEF FramesFit, On, FitsClient, FitsServer
<1>8. OneHandshake'
  <2>1. f.cmd \notin Handshake
    BY <1>2 DEF Handshake
  <2>2. \A q \in Sides : \A i \in 1..Len(chan'[q]) : chan'[q][i].cmd \in Handshake =>
          i \in On(q) /\ chan'[q][i] = chan[q][i]
    BY <1>4, <2>1, Peers
  <2>3. \A q \in Sides : NoHandshake(q) => NoHandshake(q)'
    BY <2>2 DEF NoHandshake, On
  <2>4. \A q \in Sides : \A i, j \in 1..Len(chan'[q]) :
          chan'[q][i].cmd \in Handshake /\ chan'[q][j].cmd \in Handshake => i = j
    BY <2>2 DEF LinkInv, OneHandshake
  <2>5. QED
    BY <2>3, <2>4, Peers DEF LinkInv, OneHandshake, On
<1>9. StartFirst' /\ StagesFit' /\ stage'["client"] = "Authenticated"
  BY <1>1, <1>5, SameFits DEF StartFirst, SameStages, LinkInv
<1>10. LinkTypeOK'
  BY <1>1 DEF SameStages, LinkInv, LinkTypeOK
<1>11. QED
  BY <1>1, <1>3, <1>7, <1>8, <1>9, <1>10 DEF LinkInv

-----------------------------------------------------------------------------
(* The link is safe.                                                       *)

LEMMA LinkInit ==
    ASSUME InitClient
    PROVE  LinkInv
<1> USE DEF InitClient, Init
<1>1. Chans /\ \A q \in Sides : chan[q] = <<>> /\ Len(chan[q]) = 0
  BY FewAre DEF Chans
<1>2. FramesFit /\ OneHandshake /\ StartFirst
  BY <1>1, Peers DEF FramesFit, OneHandshake, NoHandshake, StartFirst, On
<1>3. StagesFit
  BY Peers DEF StagesFit
<1>4. LinkTypeOK
  <2>1. stage \in [Sides -> Stages] /\ socket \in [Sides -> {"open", "closing", "closed"}]
    BY DEF Stages
  <2>2. session \in 0..Sessions /\ attempts \in 0..2
    BY RemoteLinkAssumption
  <2>3. owed \subseteq Parts /\ got \subseteq Parts /\ received \subseteq Parts
    OBVIOUS
  <2>4. ready \in BOOLEAN /\ lost \in BOOLEAN /\ dropped \in BOOLEAN
    OBVIOUS
  <2>5. serverKey \in Keys /\ clientKey \in Keys /\ clientVersion \in Versions
    OBVIOUS
  <2>6. QED
    BY <2>1, <2>2, <2>3, <2>4, <2>5 DEF LinkTypeOK
<1>5. QED
  BY <1>1, <1>2, <1>3, <1>4 DEF LinkInv

LEMMA LinkStep ==
    ASSUME LinkInv, NextClient
    PROVE  LinkInv'
<1>1. CASE \/ ClientChanged \/ ClientReply \/ ClientSignal \/ ServerSet \/ ServerInvoke \/ returns
           \/ \E o \in Options : \E d \in DataOf[o] : daemonSets(o, d) \/ clientSets(o, d)
           \/ \E k \in Kinds : call(k)
           \/ networkTurns
  BY <1>1, DataSteps, DataKeepsLink DEF LinkInv
<1>2. CASE ClientText \/ ServerText
  BY <1>2, ClientTextKeepsLink, ServerTextKeepsLink
<1>3. CASE ClientGets \/ ServerBinary
  BY <1>3, ClientBinaryKeepsLink, ServerBinaryKeepsLink DEF ClientGets
<1>4. CASE \E p \in Parts : ServerSends(p)
  BY <1>4, PartKeepsLink DEF ServerSends
<1>5. CASE Connects
  BY <1>5, ConnectKeepsLink DEF Connects
<1>6. CASE Drop \/ \E s \in Sides : Closed(s) \/ GetsClose(s)
  BY <1>6, EndKeepsLink
<1>7. QED
  BY <1>1, <1>2, <1>3, <1>4, <1>5, <1>6, Peers DEF NextClient, ClientTakes, ServerTakes

LEMMA LinkStutters ==
    ASSUME LinkInv, UNCHANGED allVars
    PROVE  LinkInv'
<1>1. /\ UNCHANGED <<serverKey, clientKey, clientVersion, stage, chan>>
      /\ UNCHANGED <<attempts, socket, owed, got, ready, received, session, lost, dropped>>
  BY DEF allVars, vars, config, ends, replica
<1>2. LinkTypeOK'
  BY <1>1 DEF LinkInv, LinkTypeOK
<1>3. QED
  BY <1>1, <1>2, EndsKeep DEF LinkInv, SameStages, Chans

\* The invariant of the link holds forever: the ends take turns, a frame finds
\* both ends in the stages it was sent in, and START travels ahead of all that
\* Qt sends.
THEOREM LinkInductive == SpecClient => []LinkInv
<1>1. InitClient => LinkInv
  BY LinkInit
<1>2. LinkInv /\ [NextClient]_allVars => LinkInv'
  BY LinkStep, LinkStutters
<1>3. QED
  BY <1>1, <1>2, PTL DEF SpecClient

\* Neither end gives the connection to Qt unless both agree on the version and
\* the daemon takes the client's key.
THEOREM OnlyCompatibleAlways == SpecClient => []OnlyCompatible
<1>1. LinkInv => OnlyCompatible
  BY Peers DEF LinkInv, StagesFit, OnlyCompatible
<1>2. QED
  BY <1>1, LinkInductive, PTL

\* No binary frame is lost to an end that is not authenticated yet, and no end
\* takes a message of the other for a violation of the protocol.
THEOREM NothingLostAlways == SpecClient => []NothingLost
<1>1. LinkInv => NothingLost
  BY Peers DEF LinkInv, FramesFit, FitsClient, FitsServer, NothingLost, On
<1>2. QED
  BY <1>1, LinkInductive, PTL

-----------------------------------------------------------------------------
(* Calls and their answers.                                                *)

\* The frames on the way to q, in whatever order.
Frames(q) == {chan[q][i] : i \in On(q)}

LEMMA TakenAre ==
    ASSUME Chans, NEW q \in Sides, chan[q] # <<>>, Taken(q)
    PROVE  Head(chan[q]) \in Frames(q) /\ Frames(q)' \subseteq Frames(q)
<1>1. 1 \in On(q) /\ Head(chan[q]) = chan[q][1]
  BY TakenFrames
<1>2. ASSUME NEW f \in Frames(q)'
      PROVE  f \in Frames(q)
  <2>1. PICK i \in 1..Len(chan'[q]) : f = chan'[q][i]
    BY <1>2 DEF Frames, On
  <2>2. i + 1 \in On(q) /\ f = chan[q][i + 1]
    BY <2>1, TakenFrames
  <2>3. QED
    BY <2>2 DEF Frames
<1>3. QED
  BY <1>1, <1>2 DEF Frames

LEMMA GivenAre ==
    ASSUME Chans, NEW q \in Sides, NEW frames, IsSequence(frames), Given(q, frames)
    PROVE  \A f \in Frames(q)' : f \in Frames(q) \/ \E k \in 1..Len(frames) : f = frames[k]
<1>1. ASSUME NEW f \in Frames(q)'
      PROVE  f \in Frames(q) \/ \E k \in 1..Len(frames) : f = frames[k]
  <2>1. PICK i \in 1..Len(chan'[q]) : f = chan'[q][i]
    BY <1>1 DEF Frames, On
  <2>2. \/ i \in On(q) /\ chan'[q][i] = chan[q][i]
        \/ \E k \in 1..Len(frames) : i = Len(chan[q]) + k /\ chan'[q][i] = frames[k]
    BY GivenFrames
  <2>3. QED
    BY <2>1, <2>2 DEF Frames
<1>2. QED
  BY <1>1

\* The calls that wait.
Waits == ToSet(waiting)

Earlier(c, d) ==
    \/ c.session < d.session
    \/ c.session = d.session /\ c.serial < d.serial

WaitInv ==
    /\ waiting \in Seq(CallType)
    /\ \A i, j \in 1..Len(waiting) : i < j => Earlier(waiting[i], waiting[j])
    /\ \A w \in Waits : w.session <= session /\ (w.session = session => w.serial <= serial)
    /\ executed \subseteq Waits
    /\ serial \in 0..uses /\ uses \in 0..Uses
    /\ session = 0 => ~ ready /\ socket["client"] = "closed"

\* A call on its way is the one of its session that has its number, ...
InvokeFits(c) ==
    /\ c.kind \in Kinds /\ c.session = session /\ c.serial \in 1..serial
    /\ \A w \in Waits : w.session = session /\ w.serial = c.serial => w = c

\* ... an answer on its way is to the call that has its number, ...
ReplyFits(a) ==
    /\ a.serial \in 1..serial
    /\ a.answer # Default =>
         \A w \in Waits : w.session = session /\ w.serial = a.serial => a.answer = w.kind /\ w \in executed

\* ... and one that arrived to the call it is kept for.
Answers(r) ==
    /\ r.call \in Waits
    /\ r.answer # Default => r.answer = r.call.kind /\ r.call \in executed

CallsInv ==
    /\ WaitInv
    /\ \A f \in Frames("server") : f.cmd = "invoke" => InvokeFits(f.arg)
    /\ \A f \in Frames("client") : f.cmd = "reply" => ReplyFits(f.arg)
    /\ \A r \in replies : Answers(r)

LEMMA WaitsAre ==
    ASSUME WaitInv
    PROVE  /\ \A w : w \in Waits <=> \E i \in 1..Len(waiting) : w = waiting[i]
           /\ Waits \subseteq CallType
           /\ Len(waiting) \in Nat
<1>1. waiting \in Seq(CallType)
  BY DEF WaitInv
<1>2. Len(waiting) \in Nat /\ DOMAIN waiting = 1..Len(waiting) /\ waiting \in [1..Len(waiting) -> CallType]
  BY <1>1, LenProperties
<1>3. QED
  BY <1>2 DEF Waits, ToSet

LEMMA CallWaits ==
    ASSUME WaitInv, NEW c \in CallType, waiting' = Append(waiting, c),
           \A w \in Waits : Earlier(w, c)
    PROVE  /\ waiting' \in Seq(CallType)
           /\ Waits' = Waits \cup {c}
           /\ \A i, j \in 1..Len(waiting') : i < j => Earlier(waiting'[i], waiting'[j])
<1>1. waiting \in Seq(CallType)
  BY DEF WaitInv
<1>2. /\ waiting' \in Seq(CallType) /\ Len(waiting') = Len(waiting) + 1
      /\ \A i \in 1..Len(waiting) : waiting'[i] = waiting[i]
      /\ waiting'[Len(waiting) + 1] = c
      /\ Len(waiting) \in Nat
  BY <1>1, AppendProperties, LenProperties
<1>3. DOMAIN waiting' = 1..Len(waiting')
  BY <1>2, LenProperties
<1>4. \A i \in 1..Len(waiting') : i \in 1..Len(waiting) \/ i = Len(waiting) + 1
  BY <1>2
<1>5. Waits' = Waits \cup {c}
  <2>1. Waits' = {waiting'[i] : i \in 1..Len(waiting')}
    BY <1>3 DEF Waits, ToSet
  <2>2. \A w : w \in Waits' <=> w \in Waits \/ w = c
    <3>1. \A w : w \in Waits' => w \in Waits \/ w = c
      BY <1>2, <1>4, <2>1, WaitsAre
    <3>2. \A w : w \in Waits => w \in Waits'
      BY <1>2, <2>1, WaitsAre
    <3>3. c \in Waits'
      BY <1>2, <2>1
    <3>4. QED
      BY <3>1, <3>2, <3>3
  <2>3. QED
    BY <2>2
<1>6. ASSUME NEW i \in 1..Len(waiting'), NEW j \in 1..Len(waiting'), i < j
      PROVE  Earlier(waiting'[i], waiting'[j])
  <2>1. i \in 1..Len(waiting) /\ waiting'[i] = waiting[i] /\ waiting[i] \in Waits
    BY <1>2, <1>6, WaitsAre
  <2>2. CASE j \in 1..Len(waiting)
    BY <1>2, <1>6, <2>1, <2>2 DEF WaitInv
  <2>3. CASE j = Len(waiting) + 1
    BY <1>2, <2>1, <2>3
  <2>4. QED
    BY <1>4, <2>2, <2>3
<1>7. QED
  BY <1>2, <1>5, <1>6

LEMMA ReturnWaits ==
    ASSUME WaitInv, waiting # <<>>, waiting' = Front(waiting),
           NEW c, c = waiting[Len(waiting)]
    PROVE  /\ waiting' \in Seq(CallType)
           /\ c \in Waits
           /\ Waits' = Waits \ {c}
           /\ \A i, j \in 1..Len(waiting') : i < j => Earlier(waiting'[i], waiting'[j])
<1>1. waiting \in Seq(CallType) /\ Len(waiting) \in Nat /\ Len(waiting) > 0
  BY EmptySeq, LenProperties DEF WaitInv
<1> DEFINE n == Len(waiting) - 1
<1>2. /\ waiting' \in Seq(CallType) /\ Len(waiting') = n /\ n \in Nat
      /\ \A i \in 1..n : waiting'[i] = waiting[i]
  <2>1. waiting' = SubSeq(waiting, 1, n)
    BY DEF Front
  <2>2. n \in Nat /\ n <= Len(waiting)
    BY <1>1
  <2>3. /\ SubSeq(waiting, 1, n) \in Seq(CallType)
        /\ Len(SubSeq(waiting, 1, n)) = n
        /\ \A i \in 1..n : SubSeq(waiting, 1, n)[i] = waiting[i]
    <3>1. \A i \in 1..n : waiting[i] \in CallType
      BY <1>1, LenProperties
    <3> HIDE DEF n
    <3>2. QED
      BY <1>1, <2>2, <3>1, SubSeqProperties
  <2>4. QED
    BY <2>1, <2>2, <2>3
<1>3. Len(waiting) \in 1..Len(waiting) /\ Len(waiting) = n + 1
  BY <1>1
<1>4. c \in Waits
  BY <1>3, WaitsAre
<1>5. \A i \in 1..n : i \in 1..Len(waiting) /\ Earlier(waiting[i], c)
  BY <1>1, <1>3 DEF WaitInv
<1> HIDE DEF n
<1>6. \A d \in CallType : ~ Earlier(d, d)
  BY DEF Earlier, CallType
<1>7. \A i \in 1..n : waiting[i] # c
  BY <1>4, <1>5, <1>6, WaitsAre
<1>8. DOMAIN waiting' = 1..n
  BY <1>2, LenProperties
<1>9. Waits' = Waits \ {c}
  <2>1. Waits' = {waiting'[i] : i \in 1..n}
    BY <1>8 DEF Waits, ToSet
  <2>2. \A w : w \in Waits' => w \in Waits /\ w # c
    BY <1>2, <1>5, <1>7, <2>1, WaitsAre
  <2>3. ASSUME NEW w \in Waits, w # c
        PROVE  w \in Waits'
    <3>1. PICK i \in 1..Len(waiting) : w = waiting[i]
      BY WaitsAre
    <3>2. i \in 1..n
      BY <1>1, <1>2, <1>3, <2>3, <3>1
    <3>3. QED
      BY <1>2, <2>1, <3>1, <3>2
  <2>4. QED
    BY <2>2, <2>3
<1>10. \A i, j \in 1..Len(waiting') : i < j => Earlier(waiting'[i], waiting'[j])
  BY <1>2, <1>5 DEF WaitInv
<1>11. QED
  BY <1>2, <1>4, <1>9, <1>10

\* A step that sends none of these frames.
Quiet(cmds) == \A q \in Sides : \A f \in Frames(q)' : f \in Frames(q) \/ f.cmd \notin cmds

LEMMA AnswersQuiet ==
    ASSUME NEW cmds, Chans, NEW s \in Sides, chan[s] # <<>>, Taken(s),
           NEW frames, IsSequence(frames), Given(Peer(s), frames),
           \A k \in 1..Len(frames) : frames[k].cmd \notin cmds
    PROVE  Quiet(cmds)
<1>1. Frames(s)' \subseteq Frames(s)
  BY TakenAre
<1>2. \A f \in Frames(Peer(s))' : f \in Frames(Peer(s)) \/ \E k \in 1..Len(frames) : f = frames[k]
  BY GivenAre, Peers
<1>3. \A f \in Frames(Peer(s))' : f \in Frames(Peer(s)) \/ f.cmd \notin cmds
  BY <1>2
<1>4. Sides = {s, Peer(s)}
  BY Peers
<1>5. QED
  BY <1>1, <1>3, <1>4 DEF Quiet

LEMMA AddsQuiet ==
    ASSUME NEW cmds, Chans, NEW s \in Sides, NEW frames, IsSequence(frames),
           chan' = [chan EXCEPT ![s] = IF socket[s] = "closed" THEN @ ELSE @ \o frames],
           \A k \in 1..Len(frames) : frames[k].cmd \notin cmds
    PROVE  Quiet(cmds)
<1>1. Given(s, frames) /\ chan'[Peer(s)] = chan[Peer(s)]
  BY AddsIs, Peers DEF Chans
<1>2. \A f \in Frames(s)' : f \in Frames(s) \/ \E k \in 1..Len(frames) : f = frames[k]
  BY <1>1, GivenAre
<1>3. Frames(Peer(s))' = Frames(Peer(s))
  BY <1>1 DEF Frames, On
<1>4. Sides = {s, Peer(s)}
  BY Peers
<1>5. QED
  BY <1>2, <1>3, <1>4 DEF Quiet

LEMMA PostQuiet ==
    ASSUME NEW cmds, Chans, NEW s \in Sides, NEW f, Post(s, f)
    PROVE  /\ \A g \in Frames(s)' : g \in Frames(s) \/ g = f
           /\ Frames(Peer(s))' = Frames(Peer(s))
           /\ f.cmd \notin cmds => Quiet(cmds)
<1>1. IsSequence(<<f>>) /\ Given(s, <<f>>) /\ Len(<<f>>) = 1 /\ <<f>>[1] = f
  BY PostIs, FewAre
<1>2. chan'[Peer(s)] = chan[Peer(s)]
  BY Peers DEF Post, Chans
<1>3. \A g \in Frames(s)' : g \in Frames(s) \/ g = f
  <2>1. PICK one : one = <<f>>
    OBVIOUS
  <2>2. IsSequence(one) /\ Given(s, one) /\ \A k \in 1..Len(one) : one[k] = f
    BY <1>1, <2>1
  <2>3. \A g \in Frames(s)' : g \in Frames(s) \/ \E k \in 1..Len(one) : g = one[k]
    BY <2>2, GivenAre
  <2>4. QED
    BY <2>2, <2>3
<1>4. Frames(Peer(s))' = Frames(Peer(s))
  BY <1>2 DEF Frames, On
<1>5. Sides = {s, Peer(s)}
  BY Peers
<1>6. QED
  BY <1>3, <1>4, <1>5 DEF Quiet

LinkCmds == {"PROTOCOL", "AUTH", "START", "ERROR", "close", "binary"}

LEMMA HandshakeQuiet ==
    ASSUME NEW cmds, cmds \cap LinkCmds = {}, LinkInv, ClientText \/ ServerText
    PROVE  Quiet(cmds)
<1>1. CASE ClientText
  <2>1. \E st : \E closes \in BOOLEAN : \E frames : \E f :
          Processes("client", st, closes, frames) /\ ClientAnswer(f, st, frames)
    BY <1>1, ClientTextIs, Zenon DEF ClientAnswer, ProtocolOK, Incompatible
  <2>2. PICK st, closes, frames, f :
          Processes("client", st, closes, frames) /\ ClientAnswer(f, st, frames)
    BY <2>1
  <2>3. Given("server", frames) /\ IsSequence(frames)
    BY <2>2, ClientAnswerIs, Peers DEF Processes
  <2>4. \A k \in 1..Len(frames) : frames[k].cmd \notin cmds
    BY <2>2, ClientAnswerIs, FramesAre DEF LinkCmds
  <2>5. chan["client"] # <<>> /\ Taken("client")
    BY <1>1, ClientTextIs
  <2>6. QED
    BY <2>3, <2>4, <2>5, AnswersQuiet, Peers DEF LinkInv
<1>2. CASE ServerText
  <2>1. \E st : \E closes \in BOOLEAN : \E frames : \E f :
          Processes("server", st, closes, frames) /\ ServerAnswer(f, st, frames)
    BY <1>2, ServerTextIs, Zenon DEF ServerAnswer, StartAndHostSide, Start, TooMany
  <2>2. PICK st, closes, frames, f :
          Processes("server", st, closes, frames) /\ ServerAnswer(f, st, frames)
    BY <2>1
  <2>3. Given("client", frames) /\ IsSequence(frames)
    BY <2>2, ServerAnswerIs, Peers DEF Processes
  <2>4. \A k \in 1..Len(frames) : frames[k].cmd \notin cmds
    BY <2>2, ServerAnswerIs, FramesAre DEF LinkCmds
  <2>5. chan["server"] # <<>> /\ Taken("server")
    BY <1>2, ServerTextIs
  <2>6. QED
    BY <2>3, <2>4, <2>5, AnswersQuiet, Peers DEF LinkInv
<1>3. QED
  BY <1>1, <1>2

LEMMA SendsQuiet ==
    ASSUME NEW cmds, Chans, NEW s \in Sides, Arrives(s), NEW frames, Sends(s, frames),
           frames = <<>> \/ \E f : frames = <<f>> /\ f.cmd \notin cmds
    PROVE  Quiet(cmds)
<1>1. IsSequence(frames) /\ \A k \in 1..Len(frames) : frames[k].cmd \notin cmds
  <2>1. CASE frames = <<>>
    BY <2>1, FewAre
  <2>2. ASSUME NEW f, frames = <<f>>, f.cmd \notin cmds
        PROVE  IsSequence(frames) /\ \A k \in 1..Len(frames) : frames[k].cmd \notin cmds
    <3>1. IsSequence(frames) /\ Len(frames) = 1 /\ frames[1] = f
      BY <2>2, FewAre
    <3>2. QED
      BY <2>2, <3>1
  <2>3. QED
    BY <2>1, <2>2
<1>2. QED
  BY <1>1, AnswerIs, AnswersQuiet

LEMMA EndQuiet ==
    ASSUME NEW cmds, "close" \notin cmds,
           \A q \in Sides : chan'[q] = chan[q] \/ chan'[q] = <<>> \/ chan'[q] = <<CLOSE>>
    PROVE  Quiet(cmds)
<1>1. ASSUME NEW q \in Sides, NEW f \in Frames(q)'
      PROVE  f \in Frames(q) \/ f = CLOSE
  <2>1. PICK i \in 1..Len(chan'[q]) : f = chan'[q][i]
    BY <1>1 DEF Frames, On
  <2>2. CASE chan'[q] = chan[q]
    BY <2>1, <2>2 DEF Frames, On
  <2>3. CASE chan'[q] = <<>>
    BY <2>1, <2>3, FewAre
  <2>4. CASE chan'[q] = <<CLOSE>>
    <3>1. Len(chan'[q]) = 1 /\ chan'[q][1] = CLOSE
      BY <2>4, FewAre
    <3>2. QED
      BY <2>1, <3>1
  <2>5. QED
    BY <2>2, <2>3, <2>4
<1>2. QED
  BY <1>1, FramesAre DEF Quiet

\* The link's own steps and those that only take data.
LEMMA LinkQuiet ==
    ASSUME LinkInv, NEW cmds, cmds \cap LinkCmds = {},
           \/ ClientText \/ ServerText \/ ServerBinary \/ ClientBinary
           \/ \E p : ServerSendsPart(p)
           \/ Drop \/ \E s \in Sides : Closed(s) \/ GetsClose(s)
           \/ ClientChanged \/ ClientReply \/ ClientSignal
           \/ UNCHANGED chan
    PROVE  Quiet(cmds)
<1>0. Chans
  BY DEF LinkInv
<1>1. CASE ClientText \/ ServerText
  BY <1>1, HandshakeQuiet
<1>2. CASE ServerBinary
  <2>1. Arrives("server") /\ Sends("server", <<>>)
    BY <1>2 DEF ServerBinary, IsBinary
  <2>2. QED
    BY <1>0, <2>1, SendsQuiet, Peers
<1>3. CASE ClientBinary
  <2>1. /\ Arrives("client")
        /\ \E frames : Sends("client", frames) /\ (frames = <<>> \/ frames = <<Binary("acquire")>>)
    BY <1>3 DEF ClientBinary, IsBinary
  <2>2. Binary("acquire").cmd \notin cmds
    BY FramesAre DEF LinkCmds
  <2>3. QED
    BY <1>0, <2>1, <2>2, SendsQuiet, Peers
<1>4. ASSUME NEW p, ServerSendsPart(p)
      PROVE  Quiet(cmds)
  <2>1. Post("client", Binary(p))
    BY <1>4 DEF ServerSendsPart, Post
  <2>2. Binary(p).cmd \notin cmds
    BY FramesAre DEF LinkCmds
  <2>3. QED
    BY <1>0, <2>1, <2>2, PostQuiet, Peers
<1>5. CASE Drop \/ \E s \in Sides : Closed(s) \/ GetsClose(s)
  BY <1>5, <1>0, EndQuiet DEF Drop, Closed, GetsClose, Chans, LinkCmds
<1>6. CASE ClientChanged \/ ClientReply \/ ClientSignal
  <2>1. Arrives("client") /\ Sends("client", <<>>)
    BY <1>6 DEF ClientChanged, ClientReply, ClientSignal, Takes
  <2>2. QED
    BY <1>0, <2>1, SendsQuiet, Peers
<1>7. CASE UNCHANGED chan
  BY <1>7 DEF Quiet, Frames, On
<1>8. QED
  BY <1>1, <1>2, <1>3, <1>4, <1>5, <1>6, <1>7

\* The steps that send data, each of one kind.
LEMMA DataQuiet ==
    ASSUME LinkInv, NEW cmds
    PROVE  /\ "changed" \notin cmds =>
                ((ServerSet \/ \E o, d : daemonSets(o, d)) => Quiet(cmds))
           /\ "signal" \notin cmds => (networkTurns => Quiet(cmds))
           /\ "set" \notin cmds => ((\E o, d : clientSets(o, d)) => Quiet(cmds))
           /\ "invoke" \notin cmds => ((\E k : call(k)) => Quiet(cmds))
           /\ "reply" \notin cmds => (ServerInvoke => Quiet(cmds))
<1>0. Chans
  BY DEF LinkInv
<1>7. ASSUME "changed" \notin cmds
      PROVE  \A o, d : Changed(o, d) = <<>> \/ \E f : Changed(o, d) = <<f>> /\ f.cmd \notin cmds
  <2>1. \A arg : Frame("changed", arg).cmd \notin cmds
    BY <1>7, FramesAre
  <2>2. QED
    BY <2>1, ToldAre
<1>8. ASSUME "changed" \notin cmds, ServerSet
      PROVE  Quiet(cmds)
  <2>1. Arrives("server") /\ \E o, d : Sends("server", Changed(o, d))
    BY <1>8 DEF ServerSet, Takes
  <2>2. QED
    BY <1>0, <1>7, <1>8, <2>1, SendsQuiet, Peers
<1>9. ASSUME NEW frames, frames = <<>> \/ \E f : frames = <<f>> /\ f.cmd \notin cmds,
             chan' = [chan EXCEPT !["client"] = IF socket["client"] = "closed" THEN @ ELSE @ \o frames]
      PROVE  Quiet(cmds)
  <2>1. IsSequence(frames) /\ \A k \in 1..Len(frames) : frames[k].cmd \notin cmds
    <3>1. CASE frames = <<>>
      BY <3>1, FewAre
    <3>2. ASSUME NEW f, frames = <<f>>, f.cmd \notin cmds
          PROVE  IsSequence(frames) /\ \A k \in 1..Len(frames) : frames[k].cmd \notin cmds
      <4>1. IsSequence(frames) /\ Len(frames) = 1 /\ frames[1] = f
        BY <3>2, FewAre
      <4>2. QED
        BY <3>2, <4>1
    <3>3. QED
      BY <1>9, <3>1, <3>2
  <2>2. QED
    BY <1>0, <1>9, <2>1, AddsQuiet, Peers
<1>10. ASSUME "signal" \notin cmds, networkTurns
      PROVE  Quiet(cmds)
  <2>1. /\ Told("manager", Frame("signal", started')) = <<>> \/
             Told("manager", Frame("signal", started')) = <<Frame("signal", started')>>
        /\ Frame("signal", started').cmd \notin cmds
    BY <1>10, ToldAre, FramesAre
  <2>2. PICK frames : frames = Told("manager", Frame("signal", started'))
    OBVIOUS
  <2>3. chan' = [chan EXCEPT !["client"] = IF socket["client"] = "closed" THEN @ ELSE @ \o frames]
    BY <1>10, <2>2 DEF networkTurns
  <2>4. QED
    BY <1>9, <2>1, <2>2, <2>3
<1>11. ASSUME "changed" \notin cmds, NEW o, NEW d, daemonSets(o, d)
      PROVE  Quiet(cmds)
  <2>1. chan' = [chan EXCEPT !["client"] = IF socket["client"] = "closed" THEN @ ELSE @ \o Changed(o, d)]
    BY <1>11 DEF daemonSets
  <2>2. QED
    BY <1>7, <1>9, <1>11, <2>1
<1>12. ASSUME "set" \notin cmds, NEW o, NEW d, clientSets(o, d)
      PROVE  Quiet(cmds)
  <2>1. \E f : Post("server", f) /\ f.cmd \notin cmds
    BY <1>12, FramesAre DEF clientSets
  <2>2. QED
    BY <1>0, <2>1, PostQuiet, Peers
<1>13. ASSUME "invoke" \notin cmds, NEW k, call(k)
      PROVE  Quiet(cmds)
  <2>1. \E f : Post("server", f) /\ f.cmd \notin cmds
    BY <1>13, FramesAre DEF call
  <2>2. QED
    BY <1>0, <2>1, PostQuiet, Peers
<1>14. ASSUME "reply" \notin cmds, ServerInvoke
      PROVE  Quiet(cmds)
  <2>1. Arrives("server") /\ \E f : Sends("server", <<f>>) /\ f.cmd \notin cmds
    BY <1>14, FramesAre DEF ServerInvoke, Takes
  <2>2. QED
    BY <1>0, <2>1, SendsQuiet, Peers
<1>15. QED
  BY <1>8, <1>10, <1>11, <1>12, <1>13, <1>14

\* Everything but a call, its execution and a new session.
LEMMA QuietSteps ==
    ASSUME LinkInv,
           \/ ClientText \/ ServerText \/ ServerBinary \/ ClientBinary
           \/ \E p : ServerSendsPart(p)
           \/ Drop \/ \E s \in Sides : Closed(s) \/ GetsClose(s)
           \/ ClientChanged \/ ClientReply \/ ClientSignal \/ ServerSet \/ networkTurns
           \/ \E o \in Options : \E d \in DataOf[o] : daemonSets(o, d) \/ clientSets(o, d)
           \/ UNCHANGED chan
    PROVE  Quiet({"invoke", "reply"})
<1>1. {"invoke", "reply"} \cap LinkCmds = {}
  BY DEF LinkCmds
<1>2. QED
  BY <1>1, LinkQuiet, DataQuiet

Idle == session = 0 => ~ ready /\ socket["client"] = "closed"

LEMMA IdleStays ==
    ASSUME LinkInv, Idle, NextClient \/ UNCHANGED allVars
    PROVE  Idle'
<1>1. CASE session = 0 /\ UNCHANGED <<ready, socket, session>>
  BY <1>1 DEF Idle
<1>2. CASE UNCHANGED <<ready, socket, session>>
  BY <1>2 DEF Idle
<1>3. CASE ClientText \/ ClientBinary \/ Closed("client") \/ GetsClose("client")
  <2>1. socket["client"] # "closed" /\ session' = session
    BY <1>3, Peers DEF ClientText, Text, ClientBinary, IsBinary, Closed, GetsClose, Arrives
  <2>2. QED
    BY <2>1 DEF Idle
<1>4. CASE ServerText
  <2>1. \E st : \E closes \in BOOLEAN : \E frames : Processes("server", st, closes, frames)
    BY <1>4, ServerTextIs
  <2>2. socket'["client"] = socket["client"]
    BY <2>1, Peers DEF Processes, LinkInv, LinkTypeOK
  <2>3. UNCHANGED <<ready, session>>
    BY <1>4 DEF ServerText, replica
  <2>4. QED
    BY <2>2, <2>3 DEF Idle
<1>5. CASE Closed("server") \/ GetsClose("server")
  <2>1. socket'["client"] = socket["client"] /\ session' = session
    BY <1>5, Peers DEF Closed, GetsClose, Disconnected, LinkInv, LinkTypeOK
  <2>2. ready' = ready
    BY <1>5 DEF Closed, GetsClose, Disconnected, LinkInv, LinkTypeOK
  <2>3. QED
    BY <2>1, <2>2 DEF Idle
<1>6. CASE Connects
  <2>1. session' # 0
    BY <1>6 DEF Connects, initilizeReplica, LinkInv, LinkTypeOK
  <2>2. QED
    BY <2>1 DEF Idle
<1>7. CASE Drop \/ ServerBinary \/ \E p \in Parts : ServerSends(p)
  <2>1. UNCHANGED <<ready, socket, session>>
    BY <1>7 DEF Drop, ServerBinary, ServerSends, ServerSendsPart, replica
  <2>2. QED
    BY <2>1, <1>2
<1>8. CASE \/ ClientChanged \/ ClientReply \/ ClientSignal \/ ServerSet \/ ServerInvoke \/ returns
           \/ \E o \in Options : \E d \in DataOf[o] : daemonSets(o, d) \/ clientSets(o, d)
           \/ \E k \in Kinds : call(k)
           \/ networkTurns
  <2>1. UNCHANGED <<ready, socket, session>>
    BY <1>8, DataSteps DEF LinkInv, DataStep, linkVars, replica
  <2>2. QED
    BY <2>1, <1>2
<1>9. CASE UNCHANGED allVars
  BY <1>9, <1>2 DEF allVars, vars, ends, replica
<1>10. QED
  BY <1>3, <1>4, <1>5, <1>6, <1>7, <1>8, <1>9, Peers DEF NextClient, ClientTakes, ServerTakes, ClientGets

LEMMA UsesGrow ==
    ASSUME uses \in 0..Uses, NextClient \/ UNCHANGED allVars
    PROVE  uses' \in 0..Uses /\ uses' >= uses
<1>1. uses' = uses \/ (uses < Uses /\ uses' = uses + 1)
  BY DEF NextClient, ClientTakes, ServerTakes, Connects, ServerSends, ClientGets, ClientChanged, ClientReply,
         ClientSignal, ServerSet, ServerInvoke, returns, daemonSets, clientSets, call, networkTurns, Use,
         clientVars, allVars
<1>2. QED
  BY <1>1, RemoteClientAssumption

\* Steps that leave the calls alone.
LEMMA QuietKeepsCalls ==
    ASSUME LinkInv, CallsInv, Idle', Quiet({"invoke", "reply"}), uses' \in 0..Uses, uses' >= uses,
           UNCHANGED <<waiting, replies, serial, executed, session>>
    PROVE  CallsInv'
<1>1. /\ Waits' = Waits
      /\ \A c : InvokeFits(c)' <=> InvokeFits(c)
      /\ \A a : ReplyFits(a)' <=> ReplyFits(a)
      /\ \A r : Answers(r)' <=> Answers(r)
  BY DEF Waits, InvokeFits, ReplyFits, Answers
<1>2. WaitInv'
  <2>1. serial' \in 0..uses'
    BY DEF CallsInv, WaitInv
  <2>2. (\A c, d : Earlier(c, d)' <=> Earlier(c, d)) /\ CallType' = CallType
    BY DEF Earlier, CallType
  <2>3. (\A i, j \in 1..Len(waiting) : i < j => Earlier(waiting[i], waiting[j]))'
    BY DEF CallsInv, WaitInv, Earlier
  <2>4. QED
    BY <1>1, <2>1, <2>3 DEF CallsInv, WaitInv, Idle
<1>3. \A f \in Frames("server")' : f.cmd = "invoke" => InvokeFits(f.arg)
  BY Peers DEF Quiet, CallsInv
<1>4. \A f \in Frames("client")' : f.cmd = "reply" => ReplyFits(f.arg)
  BY Peers DEF Quiet, CallsInv
<1>5. \A r \in replies' : Answers(r)
  BY DEF CallsInv
<1>6. QED
  BY <1>1, <1>2, <1>3, <1>4, <1>5 DEF CallsInv

LEMMA ConnectKeepsCalls ==
    ASSUME LinkInv, CallsInv, Idle', Connects
    PROVE  CallsInv'
<1>1. /\ session' = session + 1 /\ session \in Nat /\ serial' = 0
      /\ UNCHANGED <<waiting, replies, executed, uses>>
      /\ chan' = [client |-> <<Frame("PROTOCOL", ServerVersion)>>, server |-> <<>>]
  BY DEF Connects, initilizeReplica, LinkInv, LinkTypeOK
<1>2. Waits' = Waits /\ \A r : Answers(r)' <=> Answers(r)
  BY <1>1 DEF Waits, Answers
<1>3. WaitInv'
  <2>1. \A w \in Waits : w.session < session' /\ w.session # session'
    BY <1>1, WaitsAre DEF CallsInv, WaitInv, CallType
  <2>2. (\A i, j \in 1..Len(waiting) : i < j => Earlier(waiting[i], waiting[j]))'
    BY <1>1 DEF CallsInv, WaitInv, Earlier
  <2>3. serial' \in 0..uses' /\ uses' \in 0..Uses
    BY <1>1, RemoteClientAssumption DEF CallsInv, WaitInv
  <2>4. \A w \in Waits : w.session <= session'
    BY <1>1, <2>1, WaitsAre DEF CallsInv, CallType
  <2>5. QED
    BY <1>1, <1>2, <2>1, <2>2, <2>3, <2>4 DEF CallsInv, WaitInv, Idle
<1>4. ASSUME NEW q \in Sides, NEW f \in Frames(q)'
      PROVE  f.cmd = "PROTOCOL"
  <2>1. PICK g : g = Frame("PROTOCOL", ServerVersion)
    OBVIOUS
  <2>2. PICK i \in 1..Len(chan'[q]) : f = chan'[q][i]
    BY <1>4 DEF Frames, On
  <2>3. chan'["client"] = <<g>> /\ chan'["server"] = <<>>
    BY <1>1, <2>1
  <2>4. q = "client" /\ f = g
    <3>1. Len(<<g>>) = 1 /\ <<g>>[1] = g /\ Len(<<>>) = 0
      BY FewAre
    <3>2. QED
      BY <2>2, <2>3, <3>1, Peers
  <2>5. QED
    BY <2>1, <2>4, FramesAre
<1>5. QED
  BY <1>1, <1>2, <1>3, <1>4, Peers DEF CallsInv

\* A new call has a number of its own.
LEMMA CallKeepsCalls ==
    ASSUME LinkInv, CallsInv, Idle', NEW k \in Kinds, call(k)
    PROVE  CallsInv'
<1>0. PICK c : c = Call(k, serial + 1)
  OBVIOUS
<1>1. /\ ready /\ uses < Uses /\ uses' = uses + 1 /\ serial' = serial + 1
      /\ waiting' = Append(waiting, c)
      /\ Post("server", Frame("invoke", c))
      /\ UNCHANGED <<session, replies, executed>>
  BY <1>0 DEF call, Use, linkVars
<1>2. c.kind = k /\ c.session = session /\ c.serial = serial + 1 /\ c \in CallType
  <2>1. session \in 1..Sessions
    BY <1>1, RemoteLinkAssumption DEF CallsInv, WaitInv, LinkInv, LinkTypeOK
  <2>2. serial + 1 \in 1..Uses
    BY <1>1, RemoteClientAssumption DEF CallsInv, WaitInv
  <2>3. QED
    BY <1>0, <2>1, <2>2 DEF Call, CallType
<1>3. WaitInv /\ serial \in Nat /\ \A w \in Waits : Earlier(w, c) /\ (w.session = session => w.serial <= serial)
  <2>1. WaitInv /\ serial \in Nat /\ session \in Nat /\ Waits \subseteq CallType
    <3>1. WaitInv
      BY DEF CallsInv
    <3>2. serial \in Nat
      BY <3>1 DEF WaitInv
    <3>3. session \in Nat
      BY DEF LinkInv, LinkTypeOK
    <3>4. QED
      BY <3>1, <3>2, <3>3, WaitsAre
  <2>2. QED
    <3>1. \A w \in Waits : w.session \in Nat /\ w.serial \in Nat /\ w.session <= session
                            /\ (w.session = session => w.serial <= serial)
      BY <2>1 DEF WaitInv, CallType
    <3>2. QED
      BY <1>2, <2>1, <3>1 DEF Earlier
<1>4. /\ waiting' \in Seq(CallType)
      /\ Waits' = Waits \cup {c}
      /\ \A i, j \in 1..Len(waiting') : i < j => Earlier(waiting'[i], waiting'[j])
  BY <1>1, <1>2, <1>3, CallWaits
<1>5. WaitInv'
  <2>1. \A w \in Waits' : w.session <= session /\ (w.session = session => w.serial <= serial + 1)
    <3>1. session \in Nat /\ serial \in Nat /\ \A w \in Waits : w.session <= session /\ (w.session = session => w.serial <= serial)
      BY <1>3 DEF WaitInv, LinkInv, LinkTypeOK
    <3>2. \A w \in Waits : w.serial \in Nat
      BY <1>3, WaitsAre DEF CallType
    <3>3. QED
      BY <1>2, <1>4, <3>1, <3>2
  <2>2. serial' \in 0..uses' /\ uses' \in 0..Uses
    BY <1>1, RemoteClientAssumption DEF CallsInv, WaitInv
  <2>3. (\A i, j \in 1..Len(waiting) : i < j => Earlier(waiting[i], waiting[j]))'
    BY <1>4 DEF Earlier
  <2>4. QED
    BY <1>1, <1>3, <1>4, <2>1, <2>2, <2>3 DEF WaitInv, Idle
<1>6. \A g \in Frames("server")' : g \in Frames("server") \/ g = Frame("invoke", c)
  BY <1>1, PostQuiet, Peers DEF LinkInv
<1>7. Frames("client")' = Frames("client")
  BY <1>1, PostQuiet, Peers DEF LinkInv
<1>8. InvokeFits(c)'
  BY <1>1, <1>2, <1>3, <1>4 DEF InvokeFits
<1>9. \A b : InvokeFits(b) => InvokeFits(b)'
  BY <1>1, <1>2, <1>3, <1>4 DEF InvokeFits
<1>10. \A a : ReplyFits(a) => ReplyFits(a)'
  BY <1>1, <1>2, <1>3, <1>4 DEF ReplyFits
<1>11. \A r : Answers(r) => Answers(r)'
  BY <1>1, <1>4 DEF Answers
<1>12. \A g \in Frames("server")' : g.cmd = "invoke" => InvokeFits(g.arg)'
  <2>1. \A g, b : g = Frame("invoke", c) /\ b = g.arg => b = c
    BY FramesAre
  <2>2. QED
    BY <1>6, <1>8, <1>9, <2>1 DEF CallsInv
<1>13. QED
  BY <1>1, <1>5, <1>7, <1>10, <1>11, <1>12 DEF CallsInv

\* The daemon executes a call and answers with its number.
LEMMA InvokeKeepsCalls ==
    ASSUME LinkInv, CallsInv, Idle', ServerInvoke
    PROVE  CallsInv'
<1>1. PICK c : c = Head(chan["server"]).arg
  OBVIOUS
<1>2. PICK answer \in {c.kind, Default} : Sends("server", <<Frame("reply", [serial |-> c.serial, answer |-> answer])>>)
  BY <1>1 DEF ServerInvoke
<1>3. /\ Arrives("server") /\ Head(chan["server"]).cmd = "invoke"
      /\ executed' = executed \cup ({c} \cap Waits)
      /\ UNCHANGED <<waiting, replies, serial, session, uses>>
  BY <1>1 DEF ServerInvoke, Takes, linkVars, Waits
<1>4. PICK a : a = [serial |-> c.serial, answer |-> answer]
  OBVIOUS
<1>5. PICK g : g = Frame("reply", a)
  OBVIOUS
<1>6. a.serial = c.serial /\ a.answer = answer /\ g.cmd = "reply" /\ g.arg = a
  BY <1>4, <1>5, FramesAre
<1>7. IsSequence(<<g>>) /\ Len(<<g>>) = 1 /\ <<g>>[1] = g
  BY FewAre
<1>8. PICK one : one = <<g>>
  OBVIOUS
<1>9. IsSequence(one) /\ Sends("server", one) /\ \A k \in 1..Len(one) : one[k] = g
  BY <1>2, <1>4, <1>5, <1>7, <1>8
<1>10. chan["server"] # <<>> /\ Taken("server") /\ Given("client", one) /\ Chans
  BY <1>3, <1>9, AnswerIs, Peers DEF LinkInv
<1>11. /\ Head(chan["server"]) \in Frames("server") /\ Frames("server")' \subseteq Frames("server")
       /\ \A f \in Frames("client")' : f \in Frames("client") \/ f = g
  BY <1>9, <1>10, TakenAre, GivenAre, Peers
<1>12. InvokeFits(c)
  BY <1>1, <1>3, <1>11 DEF CallsInv
<1>13. Waits' = Waits /\ executed \subseteq executed' /\ executed' \subseteq Waits
  BY <1>3 DEF Waits, CallsInv, WaitInv
<1>14. WaitInv'
  <2>1. (\A i, j \in 1..Len(waiting) : i < j => Earlier(waiting[i], waiting[j]))'
    BY <1>3 DEF CallsInv, WaitInv, Earlier
  <2>2. QED
    BY <1>3, <1>13, <2>1 DEF CallsInv, WaitInv, Idle
<1>15. ReplyFits(a)'
  <2>1. ASSUME answer # Default, NEW w \in Waits, w.session = session, w.serial = a.serial
        PROVE  answer = w.kind /\ w \in executed'
    <3>1. w = c /\ answer = c.kind
      BY <1>2, <1>6, <1>12, <2>1 DEF InvokeFits
    <3>2. QED
      BY <1>3, <2>1, <3>1
  <2>2. a.serial \in 1..serial
    BY <1>6, <1>12 DEF InvokeFits
  <2>3. QED
    BY <1>3, <1>6, <1>13, <2>1, <2>2 DEF ReplyFits
<1>16. /\ \A b : InvokeFits(b) => InvokeFits(b)'
       /\ \A b : ReplyFits(b) => ReplyFits(b)'
       /\ \A r : Answers(r) => Answers(r)'
  BY <1>3, <1>13 DEF InvokeFits, ReplyFits, Answers
<1>17. \A f \in Frames("client")' : f.cmd = "reply" => ReplyFits(f.arg)'
  <2>1. \A f, b : f = g /\ b = f.arg => b = a
    BY <1>6
  <2>2. QED
    BY <1>11, <1>15, <1>16, <2>1 DEF CallsInv
<1>18. QED
  BY <1>3, <1>11, <1>14, <1>16, <1>17 DEF CallsInv

\* An answer is kept for the call of this session that has its number.
LEMMA ReplyKeepsCalls ==
    ASSUME LinkInv, CallsInv, Idle', ClientReply
    PROVE  CallsInv'
<1>1. PICK a : a = Head(chan["client"]).arg
  OBVIOUS
<1>2. /\ Arrives("client") /\ Head(chan["client"]).cmd = "reply" /\ Sends("client", <<>>)
      /\ replies' = replies \cup {[call |-> c, answer |-> a.answer] :
                       c \in {w \in Waits : w.session = session /\ w.serial = a.serial}}
      /\ UNCHANGED <<waiting, serial, executed, session, uses>>
  BY <1>1 DEF ClientReply, Takes, linkVars, Waits
<1>3. Quiet({"invoke", "reply"})
  BY QuietSteps
<1>4. chan["client"] # <<>> /\ Taken("client")
  BY <1>2, AnswerIs, FewAre, Peers DEF LinkInv
<1>5. Head(chan["client"]) \in Frames("client")
  BY <1>4, TakenAre, Peers DEF LinkInv
<1>6. ReplyFits(a)
  BY <1>1, <1>2, <1>5 DEF CallsInv
<1>7. /\ Waits' = Waits
      /\ \A c : InvokeFits(c)' <=> InvokeFits(c)
      /\ \A b : ReplyFits(b)' <=> ReplyFits(b)
      /\ \A r : Answers(r)' <=> Answers(r)
  BY <1>2 DEF Waits, InvokeFits, ReplyFits, Answers
<1>8. WaitInv'
  <2>1. (\A i, j \in 1..Len(waiting) : i < j => Earlier(waiting[i], waiting[j]))'
    BY <1>2 DEF CallsInv, WaitInv, Earlier
  <2>2. QED
    BY <1>2, <1>7, <2>1 DEF CallsInv, WaitInv, Idle
<1>9. \A r \in replies' : Answers(r)
  <2>1. ASSUME NEW c \in Waits, c.session = session, c.serial = a.serial,
               NEW r, r = [call |-> c, answer |-> a.answer]
        PROVE  Answers(r)
    <3>1. r.call = c /\ r.answer = a.answer
      BY <2>1
    <3>2. QED
      BY <1>6, <2>1, <3>1 DEF Answers, ReplyFits
  <2>2. QED
    BY <1>2, <2>1 DEF CallsInv
<1>10. QED
  BY <1>3, <1>7, <1>8, <1>9, Peers DEF CallsInv, Quiet

\* The innermost call returns; the others keep their answers.
LEMMA ReturnKeepsCalls ==
    ASSUME LinkInv, CallsInv, Idle', returns
    PROVE  CallsInv' /\ AnswerIsOwn'
<1>1. PICK c : c = waiting[Len(waiting)]
  OBVIOUS
<1>2. /\ waiting # <<>> /\ waiting' = Front(waiting)
      /\ executed' = executed \ {c}
      /\ returned' = {[call |-> c, executed |-> c \in executed, result |-> b] :
                         b \in IF RepliesTo(c) = {} THEN {Default} ELSE {r.answer : r \in RepliesTo(c)}}
      /\ replies' = replies \ RepliesTo(c)
      /\ UNCHANGED <<chan, serial, session, uses>>
  BY <1>1 DEF returns, linkVars
<1>3. /\ waiting' \in Seq(CallType) /\ c \in Waits /\ Waits' = Waits \ {c}
      /\ \A i, j \in 1..Len(waiting') : i < j => Earlier(waiting'[i], waiting'[j])
  BY <1>1, <1>2, ReturnWaits DEF CallsInv
<1>4. WaitInv'
  <2>1. (\A i, j \in 1..Len(waiting) : i < j => Earlier(waiting[i], waiting[j]))'
    BY <1>3 DEF Earlier
  <2>2. QED
    BY <1>2, <1>3, <2>1 DEF CallsInv, WaitInv, Idle
<1>5. /\ \A b : InvokeFits(b) => InvokeFits(b)'
      /\ \A b : ReplyFits(b) => ReplyFits(b)'
      /\ \A r : Answers(r) /\ r.call # c => Answers(r)'
  BY <1>2, <1>3 DEF InvokeFits, ReplyFits, Answers
<1>6. \A r \in replies' : Answers(r) /\ r.call # c
  BY <1>2 DEF CallsInv, RepliesTo
<1>7. CallsInv'
  BY <1>2, <1>4, <1>5, <1>6 DEF CallsInv, Frames, On
<1>8. AnswerIsOwn'
  <2>1. ASSUME NEW r \in RepliesTo(c), r.answer # Default
        PROVE  r.answer = c.kind /\ c \in executed
    BY <2>1 DEF RepliesTo, CallsInv, Answers
  <2>2. ASSUME NEW x \in returned', x.result # Default
        PROVE  x.result = x.call.kind /\ x.executed
    <3>1. PICK b \in IF RepliesTo(c) = {} THEN {Default} ELSE {r.answer : r \in RepliesTo(c)} :
            x = [call |-> c, executed |-> c \in executed, result |-> b]
      BY <1>2, <2>2
    <3>2. x.call = c /\ (x.executed <=> c \in executed) /\ x.result = b
      BY <3>1
    <3>3. \E r \in RepliesTo(c) : b = r.answer /\ r.answer # Default
      BY <2>2, <3>1, <3>2
    <3>4. QED
      BY <2>1, <3>2, <3>3
  <2>3. QED
    BY <2>2 DEF AnswerIsOwn
<1>9. QED
  BY <1>7, <1>8

LEMMA NoneReturned ==
    ASSUME returned' = {}
    PROVE  AnswerIsOwn'
BY DEF AnswerIsOwn

LEMMA CallsInit ==
    ASSUME InitClient
    PROVE  CallsInv /\ AnswerIsOwn
<1> USE DEF InitClient, Init
<1>1. \A q \in Sides : Frames(q) = {}
  BY FewAre DEF Frames, On
<1>2. waiting \in Seq(CallType) /\ Len(waiting) = 0 /\ Waits = {}
  BY EmptySeq DEF Waits, ToSet
<1>3. WaitInv
  <2>1. serial \in 0..uses /\ uses \in 0..Uses
    BY RemoteClientAssumption
  <2>2. socket["client"] = "closed" /\ ready = FALSE
    BY Peers
  <2>3. QED
    BY <1>2, <2>1, <2>2 DEF WaitInv
<1>4. QED
  BY <1>1, <1>3, Peers DEF CallsInv, AnswerIsOwn

LEMMA CallsStep ==
    ASSUME LinkInv, CallsInv, AnswerIsOwn, NextClient \/ UNCHANGED allVars
    PROVE  CallsInv' /\ AnswerIsOwn'
<1>1. Idle' /\ uses' \in 0..Uses /\ uses' >= uses
  BY IdleStays, UsesGrow DEF CallsInv, WaitInv, Idle
<1>2. CASE returns
  BY <1>1, <1>2, ReturnKeepsCalls
<1>3. CASE UNCHANGED allVars
  <2>1. UNCHANGED <<chan, session, waiting, replies, serial, executed, returned>>
    BY <1>3 DEF allVars, vars, ends, clientVars, callVars
  <2>2. Quiet({"invoke", "reply"})
    BY <2>1, QuietSteps
  <2>3. AnswerIsOwn'
    BY <2>1 DEF AnswerIsOwn
  <2>4. QED
    BY <1>1, <2>1, <2>2, <2>3, QuietKeepsCalls
<1>4. CASE ~ returns /\ NextClient
  <2>1. AnswerIsOwn'
    BY <1>4, NoneReturned DEF NextClient
  <2>2. CASE Connects
    BY <1>1, <2>1, <2>2, ConnectKeepsCalls
  <2>3. CASE \E k \in Kinds : call(k)
    BY <1>1, <2>1, <2>3, CallKeepsCalls
  <2>4. CASE ServerInvoke
    BY <1>1, <2>1, <2>4, InvokeKeepsCalls
  <2>5. CASE ClientReply
    BY <1>1, <2>1, <2>5, ReplyKeepsCalls
  <2>6. CASE \/ (ClientText \/ ServerText \/ ServerBinary \/ Drop) /\ UNCHANGED clientVars
             \/ (Closed("client") \/ GetsClose("client")) /\ UNCHANGED clientVars
             \/ (Closed("server") \/ GetsClose("server")) /\ UNCHANGED callVars
             \/ ClientGets \/ \E p \in Parts : ServerSends(p)
    <3>1. UNCHANGED <<waiting, replies, serial, executed, session>>
      BY <2>6 DEF ClientText, ServerText, ServerBinary, Drop, Closed, GetsClose, ClientGets, ClientBinary,
                  ServerSends, ServerSendsPart, clientVars, callVars
    <3>2. Quiet({"invoke", "reply"})
      BY <2>6, QuietSteps, Peers DEF ClientGets, ServerSends
    <3>3. QED
      BY <1>1, <2>1, <3>1, <3>2, QuietKeepsCalls
  <2>7. CASE \/ ClientChanged \/ ClientSignal \/ ServerSet \/ networkTurns
             \/ \E o \in Options : \E d \in DataOf[o] : daemonSets(o, d) \/ clientSets(o, d)
    <3>1. UNCHANGED <<waiting, replies, serial, executed, session>>
      BY <2>7 DEF ClientChanged, ClientSignal, ServerSet, networkTurns, daemonSets, clientSets, linkVars, callVars
    <3>2. Quiet({"invoke", "reply"})
      BY <2>7, QuietSteps
    <3>3. QED
      BY <1>1, <2>1, <3>1, <3>2, QuietKeepsCalls
  <2>8. QED
    BY <1>4, <2>2, <2>3, <2>4, <2>5, <2>6, <2>7 DEF NextClient, ClientTakes, ServerTakes
<1>5. QED
  BY <1>2, <1>3, <1>4

\* A function returns its default or the daemon's answer to this very call:
\* with any number of calls that wait inside each other, of answers that come
\* too late, and of sessions whose numbers start again.
THEOREM AnswerIsOwnAlways == SpecClient => []AnswerIsOwn
<1>1. InitClient => LinkInv /\ CallsInv /\ AnswerIsOwn
  BY LinkInit, CallsInit
<1>2. LinkInv /\ CallsInv /\ AnswerIsOwn /\ [NextClient]_allVars => (LinkInv /\ CallsInv /\ AnswerIsOwn)'
  BY LinkStep, LinkStutters, CallsStep
<1>3. QED
  BY <1>1, <1>2, PTL DEF SpecClient

-----------------------------------------------------------------------------
(* Options and types.                                                      *)

\* The library has what the property says, unless something went past it.
LibraryAgrees == \A o \in Options \ (apart \cup {"NotifyTransactions"}) : library[o] = Written(property[o])

PropertyInv ==
    /\ DOMAIN library = Names /\ DOMAIN property = Options
    /\ DOMAIN packed = Options /\ DOMAIN shown = Options
    /\ locked \in BOOLEAN /\ opened \in BOOLEAN /\ started \in BOOLEAN /\ running \in BOOLEAN
    /\ listens \subseteq Parts /\ apart \subseteq Options /\ wired \in Nat
    /\ \A f \in Frames("server") : f.cmd = "set" => f.arg.name \in Options
    /\ \A f \in Frames("client") : f.cmd = "signal" => f.arg \in BOOLEAN
    /\ LibraryAgrees

LEMMA PropertyInit ==
    ASSUME InitClient
    PROVE  PropertyInv
<1> USE DEF InitClient, Init
<1>1. \A q \in Sides : Frames(q) = {}
  BY FewAre DEF Frames, On
<1>2. PICK file \in OptionFiles :
        /\ library = [n \in Names |-> IF n \in Options THEN file[n] ELSE "none"]
        /\ property = [o \in Options |-> Populated(file[o])]
        /\ apart = {o \in Options : Written(Populated(file[o])) # file[o]}
  OBVIOUS
<1>3. LibraryAgrees
  BY <1>2 DEF LibraryAgrees, Names
<1>4. DOMAIN packed = Options /\ DOMAIN shown = Options
  BY DEF NoProperties
<1>5. locked \in BOOLEAN /\ opened \in BOOLEAN /\ started \in BOOLEAN /\ running \in BOOLEAN
  OBVIOUS
<1>6. listens \subseteq Parts /\ apart \subseteq Options /\ wired \in Nat
  BY <1>2
<1>7. QED
  BY <1>1, <1>2, <1>3, <1>4, <1>5, <1>6, Peers DEF PropertyInv

\* What a property's setter does to the daemon's two copies of it.
LEMMA SetsAgree ==
    ASSUME PropertyInv, NEW o \in Options, NEW d, SetsProperty(o, d)
    PROVE  /\ DOMAIN library' = Names /\ DOMAIN property' = Options
           /\ apart' \subseteq Options
           /\ LibraryAgrees'
<1>1. CASE property[o] = d
  BY <1>1 DEF SetsProperty, PropertyInv, LibraryAgrees
<1>2. CASE property[o] # d /\ locked
  <2>1. property' = [property EXCEPT ![o] = d] /\ library' = library /\ apart' = apart \cup {o}
    BY <1>2 DEF SetsProperty
  <2>2. QED
    BY <2>1 DEF PropertyInv, LibraryAgrees
<1>3. CASE property[o] # d /\ ~ locked
  <2>1. /\ property' = [property EXCEPT ![o] = d]
        /\ library' = [library EXCEPT ![NameOf(o)] = Written(d)]
        /\ apart' = apart \ {o}
    BY <1>3 DEF SetsProperty, Updating
  <2>2. DOMAIN library' = Names /\ DOMAIN property' = Options /\ apart' \subseteq Options
    BY <2>1 DEF PropertyInv
  <2>3. NameOf(o) \in Names /\ "NotifyTransaction" \notin Options
    BY RemoteClientAssumption DEF NameOf, Names
  <2>4. ASSUME NEW n \in Options \ (apart' \cup {"NotifyTransactions"})
        PROVE  library'[n] = Written(property'[n])
    <3>1. CASE n = o
      <4>1. NameOf(o) = o
        BY <2>4, <3>1 DEF NameOf
      <4>2. library'[o] = Written(d) /\ property'[o] = d
        BY <2>1, <2>3, <4>1 DEF PropertyInv
      <4>3. QED
        BY <3>1, <4>2
    <3>2. CASE n # o
      <4>1. n # NameOf(o) /\ n \notin apart /\ n \in Names
        BY <2>1, <2>3, <2>4, <3>2 DEF NameOf, Names
      <4>2. library'[n] = library[n] /\ property'[n] = property[n]
        BY <2>1, <2>4, <3>2, <4>1 DEF PropertyInv
      <4>3. QED
        BY <2>4, <4>1, <4>2 DEF PropertyInv, LibraryAgrees
    <3>3. QED
      BY <3>1, <3>2
  <2>5. QED
    BY <2>2, <2>4 DEF LibraryAgrees
<1>4. QED
  BY <1>1, <1>2, <1>3

\* AddOption... goes past the property, and is remembered for it.
LEMMA AddAgrees ==
    ASSUME PropertyInv, NEW answer, AddsOption(answer), UNCHANGED property
    PROVE  DOMAIN library' = Names /\ apart' \subseteq Options /\ LibraryAgrees'
<1>1. CASE UNCHANGED <<library, apart>>
  BY <1>1 DEF PropertyInv, LibraryAgrees
<1>2. CASE ~ locked
  <2>1. PICK o \in Options : \E d : library' = [library EXCEPT ![o] = d] /\ apart' = apart \cup {o}
    BY <1>2 DEF AddsOption
  <2>2. QED
    BY <2>1 DEF PropertyInv, LibraryAgrees, Names
<1>3. QED
  BY <1>1, <1>2 DEF AddsOption

LEMMA PropertyStep ==
    ASSUME LinkInv, CallsInv, PropertyInv, NextClient \/ UNCHANGED allVars
    PROVE  PropertyInv'
<1> DEFINE quiet == {"set", "signal"}
           Rest == UNCHANGED <<library, locked, property, opened, started, listens, packed, shown, wired, running, apart>>
<1>0. quiet \cap LinkCmds = {}
  BY DEF LinkCmds
<1>1. ASSUME Quiet({"set", "signal"})
      PROVE  /\ \A f \in Frames("server")' : f.cmd = "set" => f.arg.name \in Options
             /\ \A f \in Frames("client")' : f.cmd = "signal" => f.arg \in BOOLEAN
  BY <1>1, Peers DEF Quiet, PropertyInv
<1>2. ASSUME Quiet({"set", "signal"}), Rest
      PROVE  PropertyInv'
  <2>1. LibraryAgrees'
    BY <1>2 DEF PropertyInv, LibraryAgrees
  <2>2. QED
    BY <1>1, <1>2, <2>1 DEF PropertyInv
<1>3. CASE \/ (ClientText \/ ServerText \/ ServerBinary \/ Drop) /\ UNCHANGED clientVars
           \/ (Closed("client") \/ GetsClose("client")) /\ UNCHANGED clientVars
           \/ ClientReply \/ returns \/ UNCHANGED allVars
  <2>1. Rest
    BY <1>3 DEF clientVars, daemonVars, shownVars, signalVars, ClientReply, returns, allVars
  <2>2. UNCHANGED chan \/ ~ (returns \/ UNCHANGED allVars)
    BY DEF returns, allVars, vars, ends
  <2>3. Quiet({"set", "signal"})
    BY <1>0, <1>3, <2>2, LinkQuiet, Peers
  <2>4. QED
    BY <1>2, <2>1, <2>3
<1>4. ASSUME NEW k \in Kinds, call(k)
      PROVE  PropertyInv'
  <2>1. Rest
    BY <1>4 DEF call, daemonVars, shownVars, signalVars
  <2>2. QED
    BY <1>2, <1>4, <2>1, DataQuiet
<1>5. CASE Connects
  <2>1. UNCHANGED <<library, locked, property, opened, started, running, apart>>
    BY <1>5 DEF Connects
  <2>2. listens' = {} /\ packed' = NoProperties /\ shown' = NoProperties /\ wired' = 0
    BY <1>5 DEF Connects
  <2>3. LibraryAgrees'
    BY <2>1 DEF PropertyInv, LibraryAgrees
  <2>4. PICK g : g = Frame("PROTOCOL", ServerVersion)
    OBVIOUS
  <2>5. chan'["client"] = <<g>> /\ chan'["server"] = <<>> /\ g.cmd = "PROTOCOL"
    BY <1>5, <2>4, FramesAre DEF Connects, initilizeReplica
  <2>6. \A f \in Frames("client")' : f = g
    <3>1. Len(<<g>>) = 1 /\ <<g>>[1] = g
      BY FewAre
    <3>2. QED
      BY <2>5, <3>1 DEF Frames, On
  <2>7. Frames("server")' = {}
    BY <2>5, FewAre DEF Frames, On
  <2>8. listens' \subseteq Parts /\ wired' \in Nat /\ DOMAIN packed' = Options /\ DOMAIN shown' = Options
    BY <2>2 DEF NoProperties
  <2>9. QED
    BY <2>1, <2>3, <2>5, <2>6, <2>7, <2>8 DEF PropertyInv
<1>6. ASSUME NEW p \in Parts, ServerSends(p)
      PROVE  PropertyInv'
  <2>1. /\ packed' = IF p = "options" THEN property ELSE packed
        /\ listens' = listens \cup {p}
        /\ UNCHANGED <<library, locked, property, opened, started, shown, wired, running, apart>>
    BY <1>6 DEF ServerSends, signalVars
  <2>2. LibraryAgrees'
    BY <2>1 DEF PropertyInv, LibraryAgrees
  <2>3. Quiet({"set", "signal"})
    BY <1>0, <1>6, LinkQuiet DEF ServerSends
  <2>4. QED
    BY <1>1, <2>1, <2>2, <2>3 DEF PropertyInv
<1>7. CASE ClientGets
  <2>1. UNCHANGED <<library, locked, property, opened, started, listens, running, apart>>
    BY <1>7 DEF ClientGets, daemonVars
  <2>2. /\ shown' \in {shown, packed} /\ packed' \in {packed, NoProperties}
        /\ wired' \in {wired, wired + 1}
    BY <1>7 DEF ClientGets, shownVars, ConnectsSignals
  <2>3. LibraryAgrees'
    BY <2>1 DEF PropertyInv, LibraryAgrees
  <2>4. Quiet({"set", "signal"})
    BY <1>0, <1>7, LinkQuiet DEF ClientGets
  <2>5. DOMAIN shown' = Options /\ DOMAIN packed' = Options /\ wired' \in Nat
    BY <2>2 DEF PropertyInv, NoProperties
  <2>6. QED
    BY <1>1, <2>1, <2>3, <2>4, <2>5 DEF PropertyInv
<1>8. CASE ClientChanged
  <2>1. /\ DOMAIN shown' = DOMAIN shown
        /\ UNCHANGED <<library, locked, property, opened, started, listens, packed, wired, running, apart>>
    BY <1>8 DEF ClientChanged, daemonVars, signalVars
  <2>2. LibraryAgrees'
    BY <2>1 DEF PropertyInv, LibraryAgrees
  <2>3. Quiet({"set", "signal"})
    BY <1>0, <1>8, LinkQuiet
  <2>4. QED
    BY <1>1, <2>1, <2>2, <2>3 DEF PropertyInv
<1>9. CASE ClientSignal
  <2>1. /\ running' = IF wired > 0 THEN Head(chan["client"]).arg ELSE running
        /\ Takes("client", "signal") /\ Sends("client", <<>>)
        /\ UNCHANGED <<library, locked, property, opened, started, listens, packed, shown, wired, apart>>
    BY <1>9 DEF ClientSignal, daemonVars, shownVars
  <2>2. Head(chan["client"]) \in Frames("client")
    BY <2>1, AnswerIs, TakenAre, FewAre, Peers DEF Takes, LinkInv
  <2>3. running' \in BOOLEAN
    BY <2>1, <2>2 DEF PropertyInv, Takes
  <2>4. LibraryAgrees'
    BY <2>1 DEF PropertyInv, LibraryAgrees
  <2>5. Quiet({"set", "signal"})
    BY <1>0, <1>9, LinkQuiet
  <2>6. QED
    BY <1>1, <2>1, <2>3, <2>4, <2>5 DEF PropertyInv
<1>10. CASE (Closed("server") \/ GetsClose("server")) /\ listens' = {}
            /\ UNCHANGED <<library, locked, property, opened, started, shownVars, signalVars, apart>>
  <2>1. LibraryAgrees'
    BY <1>10 DEF PropertyInv, LibraryAgrees
  <2>2. Quiet({"set", "signal"})
    BY <1>0, <1>10, LinkQuiet, Peers
  <2>3. QED
    BY <1>1, <1>10, <2>1, <2>2 DEF PropertyInv, shownVars, signalVars
<1>11. ASSUME NEW o \in Options, NEW d, SetsProperty(o, d),
              UNCHANGED <<locked, opened, started, listens, packed, shown, wired, running>>,
              Quiet({"set", "signal"})
       PROVE  PropertyInv'
  BY <1>1, <1>11, SetsAgree DEF PropertyInv
<1>12. CASE ServerSet
  <2>1. PICK a : a = Head(chan["server"]).arg
    OBVIOUS
  <2>2. /\ Takes("server", "set") /\ SetsProperty(a.name, a.value) /\ Sends("server", Changed(a.name, a.value))
        /\ UNCHANGED <<locked, opened, started, listens, packed, shown, wired, running>>
    BY <1>12, <2>1 DEF ServerSet, shownVars, signalVars
  <2>3. Head(chan["server"]) \in Frames("server")
    <3>1. IsSequence(Changed(a.name, a.value))
      <4>1. Changed(a.name, a.value) = <<>> \/ \E f : Changed(a.name, a.value) = <<f>>
        BY ToldAre
      <4>2. QED
        BY <4>1, FewAre
    <3>2. QED
      BY <2>2, <3>1, AnswerIs, TakenAre, Peers DEF Takes, LinkInv
  <2>4. a.name \in Options
    BY <2>1, <2>2, <2>3 DEF PropertyInv, Takes
  <2>5. QED
    BY <1>11, <1>12, <2>2, <2>4, DataQuiet
<1>13. ASSUME NEW o \in Options, NEW d \in DataOf[o], daemonSets(o, d)
       PROVE  PropertyInv'
  <2>1. SetsProperty(o, d) /\ UNCHANGED <<locked, opened, started, listens, packed, shown, wired, running>>
    BY <1>13 DEF daemonSets, shownVars, signalVars
  <2>2. QED
    BY <1>11, <1>13, <2>1, DataQuiet
<1>14. ASSUME NEW o \in Options, NEW d \in DataOf[o], clientSets(o, d)
       PROVE  PropertyInv'
  <2>1. PICK a : a = [name |-> o, value |-> d]
    OBVIOUS
  <2>2. PICK f : f = Frame("set", a)
    OBVIOUS
  <2>3. Post("server", f) /\ Rest
    BY <1>14, <2>1, <2>2 DEF clientSets, daemonVars, shownVars, signalVars
  <2>4. f.arg.name = o /\ f.cmd = "set"
    BY <2>1, <2>2, FramesAre
  <2>5. /\ \A g \in Frames("server")' : g \in Frames("server") \/ g = f
        /\ Frames("client")' = Frames("client")
    BY <2>3, PostQuiet, Peers DEF LinkInv
  <2>6. LibraryAgrees'
    BY <2>3 DEF PropertyInv, LibraryAgrees
  <2>7. QED
    BY <2>3, <2>4, <2>5, <2>6 DEF PropertyInv
<1>15. CASE ServerInvoke
  <2>1. PICK c : c = Head(chan["server"]).arg
    OBVIOUS
  <2>2. Takes("server", "invoke") /\ UNCHANGED <<property, started, listens, packed, shown, wired, running>>
    BY <1>15 DEF ServerInvoke, shownVars, signalVars
  <2>3. PICK answer : CASE c.kind = "open" -> Opens(answer)
                        [] c.kind = "AddOption" -> AddsOption(answer)
                        [] c.kind = "get" -> Gets(answer)
    BY <1>15, <2>1 DEF ServerInvoke
  <2>4. Head(chan["server"]) \in Frames("server")
    BY <2>2, HeadIs, Peers DEF Takes, Frames
  <2>5. c.kind \in {"open", "get", "AddOption"}
    BY <2>1, <2>2, <2>4 DEF CallsInv, InvokeFits, Kinds, Takes
  <2>6. Opens(answer) \/ AddsOption(answer) \/ Gets(answer)
    BY <2>3, <2>5
  <2>7. locked' \in BOOLEAN /\ opened' \in BOOLEAN
    BY <2>6 DEF Opens, AddsOption, Gets, PropertyInv
  <2>8. DOMAIN library' = Names /\ apart' \subseteq Options /\ LibraryAgrees'
    <3>1. CASE UNCHANGED <<library, apart>>
      BY <2>2, <3>1 DEF PropertyInv, LibraryAgrees
    <3>2. CASE AddsOption(answer)
      BY <2>2, <3>2, AddAgrees
    <3>3. QED
      BY <2>6, <3>1, <3>2 DEF Opens, Gets
  <2>9. Quiet({"set", "signal"})
    BY <1>15, DataQuiet
  <2>10. QED
    BY <1>1, <2>2, <2>7, <2>8, <2>9 DEF PropertyInv
<1>16. CASE networkTurns
  <2>1. PICK f : f = Frame("signal", started')
    OBVIOUS
  <2>2. /\ started' = ~ started
        /\ chan' = [chan EXCEPT !["client"] = IF socket["client"] = "closed" THEN @ ELSE @ \o Told("manager", f)]
        /\ UNCHANGED <<library, locked, property, opened, listens, packed, shown, wired, running, apart>>
    BY <1>16, <2>1 DEF networkTurns, shownVars, signalVars
  <2>3. PICK frames : frames = Told("manager", f)
    OBVIOUS
  <2>4. IsSequence(frames) /\ \A k \in 1..Len(frames) : frames[k] = f
    <3>1. CASE frames = <<>>
      BY <3>1, FewAre
    <3>2. CASE frames = <<f>>
      <4>1. IsSequence(frames) /\ Len(frames) = 1 /\ frames[1] = f
        BY <3>2, FewAre
      <4>2. QED
        BY <4>1
    <3>3. QED
      BY <2>3, <3>1, <3>2, ToldAre
  <2>5. Given("client", frames) /\ Chans
    BY <2>2, <2>3, <2>4, AddsIs, Peers DEF LinkInv
  <2>6. \A g \in Frames("client")' : g \in Frames("client") \/ g = f
    BY <2>4, <2>5, GivenAre, Peers
  <2>7. f.arg \in BOOLEAN /\ started' \in BOOLEAN
    <3>1. f.arg = started'
      <4>1. \A b : Frame("signal", b).arg = b
        BY FramesAre
      <4>2. Frame("signal", started').arg = started'
        BY <4>1, Zenon
      <4>3. QED
        BY <2>1, <4>2, Zenon
    <3>2. started' \in BOOLEAN
      BY <2>2, Zenon
    <3>3. QED
      BY <3>1, <3>2, Zenon
  <2>8. chan'["server"] = chan["server"]
    BY <2>2, Peers DEF LinkInv, Chans
  <2>9. Frames("server")' = Frames("server")
    BY <2>8 DEF Frames, On
  <2>10. LibraryAgrees'
    BY <2>2 DEF PropertyInv, LibraryAgrees
  <2>11. QED
    BY <2>2, <2>6, <2>7, <2>9, <2>10 DEF PropertyInv
<1>17. QED
  BY <1>3, <1>4, <1>5, <1>6, <1>7, <1>8, <1>9, <1>10, <1>12, <1>13, <1>14, <1>15, <1>16
     DEF NextClient, ClientTakes, ServerTakes

LEMMA TypesHold ==
    ASSUME LinkInv, CallsInv, PropertyInv
    PROVE  TypeOKClient
<1>1. \A i \in 1..Len(chan["client"]) : chan["client"][i].cmd \in ClientFrames \/ FrameOK(chan["client"][i])
  BY RemoteLinkAssumption DEF LinkInv, FramesFit, FitsClient, On, ClientFrames, FrameOK
<1>2. \A i \in 1..Len(chan["server"]) : chan["server"][i].cmd \in ClientFrames \/ FrameOK(chan["server"][i])
  BY DEF LinkInv, LinkTypeOK, FramesFit, FitsServer, On, ClientFrames, FrameOK
<1>3. /\ waiting \in Seq(CallType) /\ executed \subseteq CallType
      /\ \A i, j \in 1..Len(waiting) : i < j =>
           \/ waiting[i].session < waiting[j].session
           \/ waiting[i].session = waiting[j].session /\ waiting[i].serial < waiting[j].serial
  BY WaitsAre DEF CallsInv, WaitInv, Earlier
<1>4. QED
  BY <1>1, <1>2, <1>3, Peers DEF TypeOKClient, LinkInv, PropertyInv

\* What has been shown so far, together.
ClientInv == LinkInv /\ CallsInv /\ AnswerIsOwn /\ PropertyInv

THEOREM ClientInductive == SpecClient => []ClientInv
<1>1. InitClient => ClientInv
  BY LinkInit, CallsInit, PropertyInit DEF ClientInv
<1>2. ClientInv /\ [NextClient]_allVars => ClientInv'
  BY LinkStep, LinkStutters, CallsStep, PropertyStep DEF ClientInv
<1>3. QED
  BY <1>1, <1>2, PTL DEF SpecClient

\* Both ends, their frames and the calls that wait keep their types.
THEOREM ClientTypes == SpecClient => []TypeOKClient
<1>1. ClientInv => TypeOKClient
  BY TypesHold DEF ClientInv
<1>2. QED
  BY <1>1, ClientInductive, PTL

-----------------------------------------------------------------------------
(* Parts: each is owed, on its way or there.                               *)

\* Qt's first two messages: the daemon names its objects, the client asks for
\* them; no part is sent before.
Asking == \E i \in On("server") : PartAt("server", i, "acquire")
Naming == \E i \in On("client") : PartAt("client", i, "objects")

PartsInv ==
    /\ \A i, j \in On("client") : \A p : PartAt("client", i, p) /\ PartAt("client", j, p) => i = j
    /\ \A i \in On("client") : \A p : PartAt("client", i, p) => p \notin owed \cup received
    /\ owed \cap received = {}
    /\ \A i, j \in On("server") : PartAt("server", i, "acquire") /\ PartAt("server", j, "acquire") => i = j
    /\ stage["server"] # "Authenticated" \/ Asking \/ Naming =>
         /\ owed = {} /\ received = {}
         /\ \A i \in On("client") : \A p : PartAt("client", i, p) => p = "objects"
    /\ ~ Asking \/ ~ Naming

\* No binary frame is new, and those that stay keep their order.
BinaryStays(q) ==
    \E d \in {0, 1} : \A i \in 1..Len(chan'[q]) :
      chan'[q][i].cmd = "binary" => i + d \in On(q) /\ chan'[q][i] = chan[q][i + d]

LEMMA PartsStay ==
    ASSUME PartsInv, BinaryStays("client"), BinaryStays("server"),
           owed' = owed, received' = received,
           stage["server"] = "Authenticated" => stage'["server"] = "Authenticated"
    PROVE  PartsInv'
<1>1. PICK d \in {0, 1} : \A i \in 1..Len(chan'["client"]) :
        chan'["client"][i].cmd = "binary" => i + d \in On("client") /\ chan'["client"][i] = chan["client"][i + d]
  BY DEF BinaryStays
<1>2. PICK e \in {0, 1} : \A i \in 1..Len(chan'["server"]) :
        chan'["server"][i].cmd = "binary" => i + e \in On("server") /\ chan'["server"][i] = chan["server"][i + e]
  BY DEF BinaryStays
<1>3. \A i \in 1..Len(chan'["client"]) : \A p : PartAt("client", i, p)' => i + d \in On("client") /\ PartAt("client", i + d, p)
  BY <1>1 DEF PartAt
<1>4. \A i \in 1..Len(chan'["server"]) : \A p : PartAt("server", i, p)' => i + e \in On("server") /\ PartAt("server", i + e, p)
  BY <1>2 DEF PartAt
<1>5. (Asking' => Asking) /\ (Naming' => Naming)
  BY <1>3, <1>4 DEF Asking, Naming, On
<1>6. \A i, j \in 1..Len(chan'["client"]) : \A p : PartAt("client", i, p)' /\ PartAt("client", j, p)' => i = j
  <2> TAKE i, j \in 1..Len(chan'["client"])
  <2> TAKE p
  <2> HAVE PartAt("client", i, p)' /\ PartAt("client", j, p)'
  <2>1. i + d = j + d
    BY <1>3 DEF PartsInv
  <2>2. QED
    BY <2>1
<1>7. \A i, j \in 1..Len(chan'["server"]) : PartAt("server", i, "acquire")' /\ PartAt("server", j, "acquire")' => i = j
  <2> TAKE i, j \in 1..Len(chan'["server"])
  <2> HAVE PartAt("server", i, "acquire")' /\ PartAt("server", j, "acquire")'
  <2>1. i + e = j + e
    BY <1>4 DEF PartsInv
  <2>2. QED
    BY <2>1
<1>8. \A i \in 1..Len(chan'["client"]) : \A p : PartAt("client", i, p)' => p \notin owed \cup received
  BY <1>3 DEF PartsInv
<1>9. stage'["server"] # "Authenticated" \/ Asking' \/ Naming' =>
         /\ owed = {} /\ received = {}
         /\ \A i \in 1..Len(chan'["client"]) : \A p : PartAt("client", i, p)' => p = "objects"
  BY <1>3, <1>5 DEF PartsInv
<1>10. QED
  BY <1>5, <1>6, <1>7, <1>8, <1>9 DEF PartsInv, On

LEMMA TakenStays ==
    ASSUME Chans, NEW q \in Sides, chan[q] # <<>>, Taken(q)
    PROVE  BinaryStays(q)
<1>1. \A i \in 1..Len(chan'[q]) : i + 1 \in On(q) /\ chan'[q][i] = chan[q][i + 1]
  BY TakenFrames
<1>2. QED
  BY <1>1 DEF BinaryStays

LEMMA GivenStays ==
    ASSUME Chans, NEW q \in Sides, NEW frames, IsSequence(frames), Given(q, frames),
           \A k \in 1..Len(frames) : frames[k].cmd # "binary"
    PROVE  BinaryStays(q)
<1>1. \A i \in 1..Len(chan'[q]) :
        \/ i \in On(q) /\ chan'[q][i] = chan[q][i]
        \/ \E k \in 1..Len(frames) : i = Len(chan[q]) + k /\ chan'[q][i] = frames[k]
  BY GivenFrames
<1>2. \A i \in On(q) : i + 0 = i
  BY DEF On
<1>3. \A i \in 1..Len(chan'[q]) : chan'[q][i].cmd = "binary" => i + 0 \in On(q) /\ chan'[q][i] = chan[q][i + 0]
  BY <1>1, <1>2
<1>4. QED
  BY <1>3 DEF BinaryStays

LEMMA EndStays ==
    ASSUME NEW q, chan'[q] = chan[q] \/ chan'[q] = <<>> \/ chan'[q] = <<CLOSE>>
    PROVE  BinaryStays(q)
<1>1. CASE chan'[q] = chan[q]
  <2>1. \A i \in 1..Len(chan'[q]) : i + 0 = i
    OBVIOUS
  <2>2. \A i \in 1..Len(chan'[q]) : i + 0 \in On(q) /\ chan'[q][i] = chan[q][i + 0]
    BY <1>1, <2>1 DEF On
  <2>3. QED
    BY <2>2 DEF BinaryStays
<1>2. CASE chan'[q] = <<>>
  BY <1>2, FewAre DEF BinaryStays
<1>3. CASE chan'[q] = <<CLOSE>>
  <2>1. Len(chan'[q]) = 1 /\ chan'[q][1] = CLOSE
    BY <1>3, FewAre
  <2>2. \A i \in 1..Len(chan'[q]) : chan'[q][i].cmd # "binary"
    BY <2>1, FramesAre
  <2>3. QED
    BY <2>2 DEF BinaryStays
<1>4. QED
  BY <1>1, <1>2, <1>3

LEMMA GivenOne ==
    ASSUME Chans, NEW q \in Sides, NEW f, Given(q, <<f>>)
    PROVE  /\ Len(chan[q]) \in Nat
           /\ \A i \in 1..Len(chan'[q]) : \/ i \in On(q) /\ chan'[q][i] = chan[q][i]
                                          \/ i = Len(chan[q]) + 1 /\ chan'[q][i] = f
           /\ \A i \in On(q) : i \in 1..Len(chan'[q]) /\ chan'[q][i] = chan[q][i]
           /\ socket[q] # "closed" =>
                Len(chan[q]) + 1 \in 1..Len(chan'[q]) /\ chan'[q][Len(chan[q]) + 1] = f
<1>1. PICK one : one = <<f>>
  OBVIOUS
<1>2. IsSequence(one) /\ Len(one) = 1 /\ one[1] = f /\ Given(q, one)
  BY <1>1, FewAre
<1>3. /\ \A i \in 1..Len(chan'[q]) :
           \/ i \in On(q) /\ chan'[q][i] = chan[q][i]
           \/ \E k \in 1..Len(one) : i = Len(chan[q]) + k /\ chan'[q][i] = one[k]
      /\ \A i \in On(q) : i \in 1..Len(chan'[q]) /\ chan'[q][i] = chan[q][i]
      /\ socket[q] # "closed" => \A k \in 1..Len(one) :
           Len(chan[q]) + k \in 1..Len(chan'[q]) /\ chan'[q][Len(chan[q]) + k] = one[k]
  BY <1>2, GivenFrames
<1>4. 1 \in 1..Len(one) /\ \A k \in 1..Len(one) : k = 1
  BY <1>2
<1>5. Len(chan[q]) \in Nat
  BY SequenceHas DEF Chans
<1>6. \A i \in 1..Len(chan'[q]) : \/ i \in On(q) /\ chan'[q][i] = chan[q][i]
                                  \/ i = Len(chan[q]) + 1 /\ chan'[q][i] = f
  <2>1. ASSUME NEW i, NEW k \in 1..Len(one), i = Len(chan[q]) + k, chan'[q][i] = one[k]
        PROVE  i = Len(chan[q]) + 1 /\ chan'[q][i] = f
    <3>1. k = 1
      BY <1>4
    <3>2. QED
      BY <1>2, <2>1, <3>1
  <2>2. TAKE i \in 1..Len(chan'[q])
  <2>3. CASE i \in On(q) /\ chan'[q][i] = chan[q][i]
    BY <2>3, Zenon
  <2>4. CASE \E k \in 1..Len(one) : i = Len(chan[q]) + k /\ chan'[q][i] = one[k]
    <3>1. PICK k \in 1..Len(one) : i = Len(chan[q]) + k /\ chan'[q][i] = one[k]
      BY <2>4
    <3>2. QED
      BY <2>1, <3>1
  <2>5. QED
    BY <1>3, <2>3, <2>4
<1>7. QED
  BY <1>2, <1>3, <1>4, <1>5, <1>6

LEMMA UntouchedAre ==
    ASSUME NEW q \in Sides, Chans, Given(q, <<>>)
    PROVE  /\ \A i \in 1..Len(chan'[q]) : i \in On(q) /\ chan'[q][i] = chan[q][i]
           /\ \A i \in On(q) : i \in 1..Len(chan'[q]) /\ chan'[q][i] = chan[q][i]
<1>1. PICK none : none = <<>>
  OBVIOUS
<1>2. IsSequence(none) /\ Given(q, none) /\ Len(none) = 0
  BY <1>1, FewAre
<1>3. /\ \A i \in 1..Len(chan'[q]) :
           \/ i \in On(q) /\ chan'[q][i] = chan[q][i]
           \/ \E k \in 1..Len(none) : i = Len(chan[q]) + k /\ chan'[q][i] = none[k]
      /\ \A i \in On(q) : i \in 1..Len(chan'[q]) /\ chan'[q][i] = chan[q][i]
  BY <1>2, GivenFrames
<1>4. QED
  BY <1>2, <1>3

\* The daemon is asked once, and owes what no client has.
LEMMA ServerBinaryKeepsParts ==
    ASSUME LinkInv, PartsInv, ServerBinary
    PROVE  PartsInv'
<1>1. /\ Arrives("server") /\ Sends("server", <<>>) /\ stage = [q \in Sides |-> "Authenticated"]
      /\ 1 \in On("server") /\ PartAt("server", 1, "acquire")
      /\ owed' = Parts /\ received' = received /\ stage' = stage
  BY BinaryIs, Peers DEF ServerBinary, PartAt, replica
<1>2. chan["server"] # <<>> /\ Taken("server") /\ Given("client", <<>>)
  BY <1>1, AnswerIs, FewAre, Peers DEF LinkInv
<1>3. Asking /\ ~ Naming
  BY <1>1 DEF Asking, PartsInv
<1>4. received = {} /\ \A i \in On("client") : \A p : ~ PartAt("client", i, p)
  BY <1>3 DEF PartsInv, Naming
<1>5. \A i \in 1..Len(chan'["server"]) : i + 1 \in On("server") /\ i + 1 > 1 /\ chan'["server"][i] = chan["server"][i + 1]
  BY <1>2, TakenFrames, Peers DEF LinkInv
<1>6. \A i \in 1..Len(chan'["client"]) : i \in On("client") /\ chan'["client"][i] = chan["client"][i]
  BY <1>2, UntouchedAre, Peers DEF LinkInv
<1>7. \A i \in 1..Len(chan'["client"]) : \A p : ~ PartAt("client", i, p)'
  BY <1>4, <1>6 DEF PartAt
<1>8. \A i \in 1..Len(chan'["server"]) : ~ PartAt("server", i, "acquire")'
  <2> TAKE i \in 1..Len(chan'["server"])
  <2>1. i + 1 \in On("server") /\ i + 1 # 1 /\ ~ PartAt("server", i + 1, "acquire")
    BY <1>1, <1>5 DEF PartsInv
  <2>2. QED
    BY <1>5, <2>1 DEF PartAt
<1>9. ~ Asking' /\ ~ Naming'
  BY <1>7, <1>8 DEF Asking, Naming, On
<1>10. stage'["server"] = "Authenticated"
  BY <1>1, Peers
<1>11. QED
  BY <1>1, <1>4, <1>7, <1>8, <1>9, <1>10 DEF PartsInv, On

LEMMA PartSentKeepsParts ==
    ASSUME LinkInv, PartsInv, NEW p \in Parts, ServerSendsPart(p)
    PROVE  PartsInv'
<1>1. PICK f : f = Binary(p)
  OBVIOUS
<1>2. /\ p \in owed /\ owed' = owed \ {p} /\ Post("client", f)
      /\ stage' = stage /\ received' = received
  BY <1>1 DEF ServerSendsPart, Post, replica
<1>3. f.cmd = "binary" /\ f.arg = p /\ p # "objects"
  BY <1>1, FramesAre, RemoteLinkAssumption DEF Parts
<1>4. Given("client", <<f>>) /\ chan'["server"] = chan["server"] /\ Chans
  BY <1>2, PostIs, Peers DEF LinkInv, Chans, Post
<1>5. /\ Len(chan["client"]) \in Nat
      /\ \A i \in 1..Len(chan'["client"]) : \/ i \in On("client") /\ chan'["client"][i] = chan["client"][i]
                                            \/ i = Len(chan["client"]) + 1 /\ chan'["client"][i] = f
  BY <1>4, GivenOne, Peers
<1>6. \A i \in 1..Len(chan'["client"]) : \A b : PartAt("client", i, b)' =>
        \/ i \in On("client") /\ PartAt("client", i, b)
        \/ i = Len(chan["client"]) + 1 /\ b = p
  BY <1>3, <1>5 DEF PartAt
<1>7. \A i \in On("client") : ~ PartAt("client", i, p)
  BY <1>2 DEF PartsInv
<1>8. stage["server"] = "Authenticated" /\ ~ Asking /\ ~ Naming
  BY <1>2 DEF PartsInv
<1>9. stage'["server"] = "Authenticated" /\ ~ Asking' /\ ~ Naming'
  BY <1>2, <1>3, <1>4, <1>6, <1>8 DEF Asking, Naming, On, PartAt
<1>10. \A i, j \in 1..Len(chan'["client"]) : \A b : PartAt("client", i, b)' /\ PartAt("client", j, b)' => i = j
  BY <1>6, <1>7 DEF PartsInv
<1>11. \A i \in 1..Len(chan'["client"]) : \A b : PartAt("client", i, b)' => b \notin owed' \cup received'
  <2>1. p \notin received
    BY <1>2 DEF PartsInv
  <2>2. QED
    BY <1>2, <1>6, <2>1 DEF PartsInv
<1>12. owed' \cap received' = {}
  BY <1>2 DEF PartsInv
<1>13. \A i, j \in 1..Len(chan'["server"]) : PartAt("server", i, "acquire")' /\ PartAt("server", j, "acquire")' => i = j
  BY <1>4 DEF PartsInv, PartAt, On
<1>14. QED
  BY <1>9, <1>10, <1>11, <1>12, <1>13 DEF PartsInv, On

\* The head that the client takes is the only one of its name.
LEMMA PartTaken ==
    ASSUME LinkInv, PartsInv, NEW p, chan["client"] # <<>>, Taken("client"), PartAt("client", 1, p)
    PROVE  \A i \in 1..Len(chan'["client"]) : \A b : PartAt("client", i, b)' =>
             i + 1 \in On("client") /\ PartAt("client", i + 1, b) /\ b # p
<1>1. 1 \in On("client")
  BY TakenFrames, Peers DEF LinkInv
<1>2. \A i \in 1..Len(chan'["client"]) : i + 1 \in On("client") /\ i + 1 > 1 /\ chan'["client"][i] = chan["client"][i + 1]
  BY TakenFrames, Peers DEF LinkInv
<1>3. \A i \in 1..Len(chan'["client"]) : \A b : PartAt("client", i, b)' => PartAt("client", i + 1, b)
  BY <1>2 DEF PartAt
<1>4. \A i \in 1..Len(chan'["client"]) : ~ PartAt("client", i + 1, p)
  BY <1>1, <1>2 DEF PartsInv
<1>5. QED
  BY <1>2, <1>3, <1>4

LEMMA ClientBinaryKeepsParts ==
    ASSUME LinkInv, PartsInv, ClientBinary
    PROVE  PartsInv'
<1>1. PICK p : p = Head(chan["client"]).arg
  OBVIOUS
<1>2. /\ Arrives("client") /\ stage = [q \in Sides |-> "Authenticated"]
      /\ 1 \in On("client") /\ PartAt("client", 1, p)
      /\ owed' = owed /\ stage' = stage /\ p \in Parts \cup {"objects"}
      /\ IF p = "objects"
         THEN Sends("client", <<Binary("acquire")>>) /\ UNCHANGED replica
         ELSE Sends("client", <<>>) /\ received' = received \cup {p}
  BY <1>1, BinaryIs, Peers DEF ClientBinary, PartAt
<1>3. PICK f : f = Binary("acquire")
  OBVIOUS
<1>4. f.cmd = "binary" /\ f.arg = "acquire"
  BY <1>3, FramesAre
<1>5. stage'["server"] = "Authenticated"
  BY <1>2, Peers
<1>6. CASE p = "objects"
  <2>1. Naming /\ ~ Asking
    BY <1>2, <1>6 DEF Naming, PartsInv
  <2>2. /\ owed = {} /\ received = {} /\ received' = received
        /\ \A i \in On("client") : \A b : PartAt("client", i, b) => b = "objects"
    BY <1>2, <1>6, <2>1 DEF PartsInv, replica
  <2>3. Chans /\ chan["client"] # <<>> /\ Taken("client") /\ Given("server", <<f>>)
    BY <1>2, <1>3, <1>6, AnswerIs, FewAre, Peers DEF LinkInv
  <2>4. \A i \in 1..Len(chan'["client"]) : \A b : ~ PartAt("client", i, b)'
    BY <1>2, <1>6, <2>2, <2>3, PartTaken
  <2>5. \A i \in 1..Len(chan'["server"]) : PartAt("server", i, "acquire")' => i = Len(chan["server"]) + 1
    <3>1. \A i \in 1..Len(chan'["server"]) : \/ i \in On("server") /\ chan'["server"][i] = chan["server"][i]
                                             \/ i = Len(chan["server"]) + 1
      BY <2>3, GivenOne, Peers
    <3>2. QED
      BY <2>1, <3>1 DEF Asking, PartAt
  <2>6. ~ Naming'
    BY <2>4 DEF Naming, On
  <2>7. QED
    BY <1>2, <1>5, <2>2, <2>4, <2>5, <2>6 DEF PartsInv, On
<1>7. CASE p # "objects"
  <2>1. ~ Asking /\ ~ Naming
    BY <1>2, <1>7 DEF PartsInv
  <2>2. Chans /\ chan["client"] # <<>> /\ Taken("client") /\ Given("server", <<>>) /\ received' = received \cup {p}
    BY <1>2, <1>7, AnswerIs, FewAre, Peers DEF LinkInv
  <2>3. \A i \in 1..Len(chan'["client"]) : \A b : PartAt("client", i, b)' =>
          i + 1 \in On("client") /\ PartAt("client", i + 1, b) /\ b # p
    BY <1>2, <2>2, PartTaken
  <2>4. \A i \in 1..Len(chan'["server"]) : i \in On("server") /\ chan'["server"][i] = chan["server"][i]
    BY <2>2, UntouchedAre, Peers
  <2>5. ~ Asking' /\ ~ Naming'
    BY <2>1, <2>3, <2>4 DEF Asking, Naming, On, PartAt
  <2>6. \A i, j \in 1..Len(chan'["client"]) : \A b : PartAt("client", i, b)' /\ PartAt("client", j, b)' => i = j
    <3> TAKE i, j \in 1..Len(chan'["client"])
    <3> TAKE b
    <3> HAVE PartAt("client", i, b)' /\ PartAt("client", j, b)'
    <3>1. i + 1 = j + 1
      BY <2>3 DEF PartsInv
    <3>2. QED
      BY <3>1
  <2>7. owed' \cap received' = {} /\ \A i \in 1..Len(chan'["client"]) : \A b : PartAt("client", i, b)' => b \notin owed' \cup received'
    <3>1. p \notin owed
      BY <1>2 DEF PartsInv
    <3>2. QED
      BY <1>2, <2>2, <2>3, <3>1 DEF PartsInv
  <2>8. \A i, j \in 1..Len(chan'["server"]) : PartAt("server", i, "acquire")' /\ PartAt("server", j, "acquire")' => i = j
    BY <2>4 DEF PartsInv, PartAt
  <2>9. QED
    BY <1>5, <2>5, <2>6, <2>7, <2>8 DEF PartsInv, On
<1>8. QED
  BY <1>6, <1>7

\* The daemon names its objects after START; nothing was asked for before.
LEMMA ServerTextKeepsParts ==
    ASSUME LinkInv, PartsInv, ServerText
    PROVE  PartsInv'
<1>1. chan["server"] # <<>> /\ Taken("server") /\ Chans /\ owed' = owed /\ received' = received
  BY ServerTextIs DEF LinkInv, replica
<1>2. /\ FitsServer(Head(chan["server"]))
      /\ \E st : \E closes \in BOOLEAN : \E frames :
           Processes("server", st, closes, frames) /\ ServerAnswer(Head(chan["server"]), st, frames)
  <2>1. FitsServer(Head(chan["server"]))
    BY ServerTextIs, HeadIs, Peers
  <2>2. QED
    BY <2>1, ServerTextIs, Zenon DEF ServerAnswer, StartAndHostSide, Start, TooMany
<1>3. PICK st, closes, frames :
        Processes("server", st, closes, frames) /\ ServerAnswer(Head(chan["server"]), st, frames)
  BY <1>2
<1>4. Given("client", frames) /\ stage' = [stage EXCEPT !["server"] = st]
  BY <1>3, Peers DEF Processes
<1>5. stage'["server"] = st /\ stage'["client"] = stage["client"]
  BY <1>4, Peers DEF LinkInv, LinkTypeOK
<1>6. BinaryStays("server")
  BY <1>1, TakenStays, Peers
<1>7. CASE \A k \in 1..Len(frames) : frames[k].cmd # "binary"
  <2>1. IsSequence(frames)
    BY <1>3, ServerAnswerIs
  <2>2. BinaryStays("client")
    BY <1>1, <1>4, <1>7, <2>1, GivenStays, Peers
  <2>3. stage["server"] = "Authenticated" => stage'["server"] = "Authenticated"
    BY <1>2, <1>3, <1>5, ServerAnswerIs DEF FitsServer
  <2>4. QED
    BY <1>1, <1>6, <2>2, <2>3, PartsStay
<1>8. CASE \E k \in 1..Len(frames) : frames[k].cmd = "binary"
  <2>1. /\ IsSequence(frames) /\ Len(frames) = 2 /\ frames[1] = Start /\ frames[2] = Binary("objects")
        /\ Head(chan["server"]).cmd = "AUTH" /\ st = "Authenticated"
    BY <1>3, <1>8, ServerAnswerIs, FramesAre
  <2>2. stage["server"] = "Authenticate"
    BY <1>2, <2>1 DEF FitsServer
  <2>3. stage["client"] = "Authenticate"
    BY <1>2, <2>1 DEF FitsServer
  <2>4. /\ \A i \in On("client") : \A p : ~ PartAt("client", i, p)
        /\ \A i \in On("server") : \A p : ~ PartAt("server", i, p)
    BY <2>2, <2>3 DEF LinkInv, FramesFit, FitsClient, FitsServer, PartAt
  <2>5. \A i \in 1..Len(chan'["client"]) : \A p : PartAt("client", i, p)' =>
          i = Len(chan["client"]) + 2 /\ p = "objects"
    <3> TAKE i \in 1..Len(chan'["client"])
    <3> TAKE p
    <3> HAVE PartAt("client", i, p)'
    <3>1. CASE i \in On("client") /\ chan'["client"][i] = chan["client"][i]
      BY <2>4, <3>1 DEF PartAt
    <3>2. ASSUME NEW k \in 1..Len(frames), i = Len(chan["client"]) + k, chan'["client"][i] = frames[k]
          PROVE  i = Len(chan["client"]) + 2 /\ p = "objects"
      <4>1. frames[k].cmd = "binary" /\ frames[k].arg = p
        BY <3>2 DEF PartAt
      <4>2. k = 1 \/ k = 2
        BY <2>1, <3>2
      <4>3. k # 1
        BY <2>1, <4>1, FramesAre
      <4>4. k = 2 /\ p = "objects"
        BY <2>1, <4>1, <4>2, <4>3, FramesAre
      <4>5. QED
        BY <3>2, <4>4
    <3>3. QED
      BY <1>1, <1>4, <2>1, <3>1, <3>2, GivenFrames, Peers
  <2>6. \A i \in 1..Len(chan'["server"]) : \A p : ~ PartAt("server", i, p)'
    <3> TAKE i \in 1..Len(chan'["server"])
    <3>1. i + 1 \in On("server") /\ chan'["server"][i] = chan["server"][i + 1]
      BY <1>1, TakenFrames, Peers
    <3>2. \A p : ~ PartAt("server", i + 1, p)
      BY <2>4, <3>1
    <3>3. QED
      BY <3>1, <3>2 DEF PartAt
  <2>7. owed = {} /\ received = {}
    BY <2>2 DEF PartsInv
  <2>8. ~ Asking'
    BY <2>6 DEF Asking, On
  <2>9. QED
    BY <1>1, <2>5, <2>6, <2>7, <2>8 DEF PartsInv, On
<1>9. QED
  BY <1>7, <1>8

LEMMA ClientTextKeepsParts ==
    ASSUME LinkInv, PartsInv, ClientText
    PROVE  PartsInv'
<1>1. chan["client"] # <<>> /\ Taken("client") /\ Chans /\ owed' = owed /\ received' = received
  BY ClientTextIs DEF LinkInv
<1>2. \E st : \E closes \in BOOLEAN : \E frames : \E f :
        Processes("client", st, closes, frames) /\ ClientAnswer(f, st, frames)
  BY ClientTextIs, Zenon DEF ClientAnswer, ProtocolOK, Incompatible
<1>3. PICK st, closes, frames, f :
        Processes("client", st, closes, frames) /\ ClientAnswer(f, st, frames)
  BY <1>2
<1>4. Given("server", frames) /\ IsSequence(frames) /\ stage'["server"] = stage["server"]
  BY <1>3, ClientAnswerIs, Peers DEF Processes, LinkInv, LinkTypeOK
<1>5. \A k \in 1..Len(frames) : frames[k].cmd # "binary"
  BY <1>3, ClientAnswerIs, FramesAre
<1>6. BinaryStays("client") /\ BinaryStays("server")
  BY <1>1, <1>4, <1>5, TakenStays, GivenStays, Peers
<1>7. QED
  BY <1>1, <1>4, <1>6, PartsStay

LEMMA ConnectKeepsParts ==
    ASSUME initilizeReplica
    PROVE  PartsInv'
<1>1. PICK f : f = Frame("PROTOCOL", ServerVersion)
  OBVIOUS
<1>2. /\ chan'["client"] = <<f>> /\ chan'["server"] = <<>> /\ owed' = {} /\ received' = {} /\ f.cmd = "PROTOCOL"
  BY <1>1, FramesAre DEF initilizeReplica
<1>3. /\ Len(chan'["client"]) = 1 /\ chan'["client"][1] = f
      /\ Len(chan'["server"]) = 0
  BY <1>2, FewAre
<1>4. \A q \in Sides : \A i \in 1..Len(chan'[q]) : \A p : ~ PartAt(q, i, p)'
  BY <1>2, <1>3, Peers DEF PartAt
<1>5. ~ Asking'
  BY <1>4, Peers DEF Asking, On
<1>6. QED
  BY <1>2, <1>4, <1>5, Peers DEF PartsInv, On

LEMMA PartsStep ==
    ASSUME LinkInv, PartsInv, NextClient \/ UNCHANGED allVars
    PROVE  PartsInv'
<1>1. CASE \/ ClientChanged \/ ClientReply \/ ClientSignal \/ ServerSet \/ ServerInvoke \/ returns
           \/ \E o \in Options : \E d \in DataOf[o] : daemonSets(o, d) \/ clientSets(o, d)
           \/ \E k \in Kinds : call(k)
           \/ networkTurns
  <2>1. DataStep
    BY <1>1, DataSteps DEF LinkInv
  <2>2. UNCHANGED <<owed, received, stage>> /\ \A q \in Sides : \E d \in {0, 1} : KeepsLinkFrames(q, d)
    BY <2>1 DEF DataStep, linkVars, replica
  <2>3. \A q \in Sides : BinaryStays(q)
    BY <2>2, DataFits DEF KeepsLinkFrames, BinaryStays
  <2>4. QED
    BY <2>2, <2>3, PartsStay, Peers
<1>2. CASE ClientText \/ ServerText
  BY <1>2, ClientTextKeepsParts, ServerTextKeepsParts
<1>3. CASE ClientGets \/ ServerBinary
  BY <1>3, ClientBinaryKeepsParts, ServerBinaryKeepsParts DEF ClientGets
<1>4. CASE \E p \in Parts : ServerSends(p)
  BY <1>4, PartSentKeepsParts DEF ServerSends
<1>5. CASE Connects
  BY <1>5, ConnectKeepsParts DEF Connects
<1>6. CASE Drop \/ (\E s \in Sides : Closed(s) \/ GetsClose(s)) \/ UNCHANGED allVars
  <2>1. UNCHANGED <<owed, received, stage>>
    BY <1>6 DEF Drop, Closed, GetsClose, allVars, vars, ends, replica
  <2>2. \A q \in Sides : chan'[q] = chan[q] \/ chan'[q] = <<>> \/ chan'[q] = <<CLOSE>>
    BY <1>6 DEF Drop, Closed, GetsClose, allVars, vars, ends, LinkInv, Chans
  <2>3. QED
    BY <2>1, <2>2, EndStays, PartsStay, Peers
<1>7. QED
  BY <1>1, <1>2, <1>3, <1>4, <1>5, <1>6, Peers DEF NextClient, ClientTakes, ServerTakes

LEMMA PartsInit ==
    ASSUME InitClient
    PROVE  PartsInv
<1>1. \A q \in Sides : chan[q] = <<>> /\ Len(chan[q]) = 0
  BY FewAre DEF InitClient, Init
<1>2. owed = {} /\ received = {}
  BY DEF InitClient, Init
<1>3. QED
  BY <1>1, <1>2, Peers DEF PartsInv, Asking, Naming, On

-----------------------------------------------------------------------------
(* What the client has got, and what it tells the application.             *)

GotInv ==
    /\ session = 0 => socket["client"] = "closed" /\ got = {} /\ wired = 0 /\ ~ running
    /\ got \cap Objects \subseteq received
    /\ socket["client"] = "closed" => got \cap Objects = {}
    /\ session = 1 /\ socket["client"] = "open" =>
         /\ got = received
         /\ received = Parts => wired = 1
         /\ received # Parts => wired = 0 /\ ~ running
    /\ ready => /\ socket["client"] = "open" /\ stage["client"] = "Authenticated"
                /\ Objects \subseteq received
                /\ session = 1 => received = Parts

LEMMA GotStays ==
    ASSUME GotInv, UNCHANGED <<session, received, got, ready, wired>>,
           socket'["client"] = socket["client"], stage'["client"] = stage["client"],
           running' = running \/ wired > 0
    PROVE  GotInv'
<1>1. wired = 0 => running' = running
  OBVIOUS
<1>2. QED
  BY <1>1 DEF GotInv

LEMMA TextKeepsGot ==
    ASSUME LinkInv, GotInv, ClientText, UNCHANGED <<wired, running>>
    PROVE  GotInv'
<1>1. UNCHANGED <<got, received, session>> /\ Arrives("client")
  BY ClientTextIs
<1>2. socket["client"] = "open" /\ session # 0
  BY <1>1 DEF Arrives, GotInv
<1>3. ~ ready'
  <2>1. Head(chan["client"]).cmd \in {"PROTOCOL", "AUTH", "START"} => stage["client"] # "Authenticated"
    BY <1>1, HeadIs, Peers DEF FitsClient
  <2>2. ready' = FALSE \/ (ready' = ready /\ Head(chan["client"]).cmd \in {"PROTOCOL", "AUTH", "START"})
    BY ClientTextIs, Zenon
  <2>3. QED
    BY <2>1, <2>2 DEF GotInv
<1>4. socket'["client"] # "closed"
  <2>1. \E st : \E closes \in BOOLEAN : \E frames : Processes("client", st, closes, frames)
    BY ClientTextIs, Zenon
  <2>2. QED
    BY <1>2, <2>1, Peers DEF Processes, LinkInv, LinkTypeOK
<1>5. QED
  BY <1>1, <1>2, <1>3, <1>4 DEF GotInv

\* A part arrives once in a session, so the signals are connected once.
LEMMA PartKeepsGot ==
    ASSUME LinkInv, PartsInv, PropertyInv, GotInv, ClientGets
    PROVE  GotInv'
<1> DEFINE p == Head(chan["client"]).arg
<1>1. /\ Arrives("client") /\ chan["client"] # <<>> /\ 1 \in On("client")
      /\ Head(chan["client"]) = chan["client"][1] /\ chan["client"][1].cmd = "binary"
      /\ stage["client"] = "Authenticated" /\ p \in Parts \cup {"objects"}
  BY BinaryIs, Peers DEF ClientGets, ClientBinary
<1>2. UNCHANGED <<socket, stage, session, running>> /\ socket["client"] = "open" /\ session # 0
  BY <1>1 DEF ClientGets, ClientBinary, Arrives, GotInv
<1>3. CASE p = "objects"
  <2>1. UNCHANGED <<got, ready, received, wired>>
    BY <1>1, <1>3 DEF ClientGets, ClientBinary, replica
  <2>2. QED
    BY <1>2, <2>1, GotStays
<1>4. CASE p # "objects"
  <2>1. /\ got' = got \cup {p} /\ received' = received \cup {p}
        /\ ready' = (ready \/ got' = Parts)
        /\ wired' = IF got' = Parts THEN wired + 1 ELSE wired
    BY <1>1, <1>4 DEF ClientGets, ClientBinary, ConnectsSignals, checkReplicaReady
  <2>2. p \in Parts /\ p \notin received
    BY <1>1, <1>4 DEF PartsInv, PartAt
  <2> HIDE DEF p
  <2>3. received # Parts
    BY <2>2
  <2>4. session = 1 => received' = got' /\ wired = 0 /\ ~ running
    BY <1>2, <2>1, <2>3 DEF GotInv
  <2>5. ready' => /\ Objects \subseteq received'
                  /\ session = 1 => received' = Parts
    <3>1. CASE ready
      BY <2>1, <2>3, <3>1 DEF GotInv
    <3>2. CASE got' = Parts
      BY <2>1, <2>4, <3>2 DEF GotInv, Parts
    <3>3. QED
      BY <2>1, <3>1, <3>2
  <2>6. session = 1 => /\ received' = Parts => wired' = 1
                       /\ received' # Parts => wired' = 0
    BY <2>1, <2>4
  <2>7. got' \cap Objects \subseteq received'
    BY <2>1 DEF GotInv
  <2>8. QED
    BY <1>1, <1>2, <2>4, <2>5, <2>6, <2>7 DEF GotInv
<1>5. QED
  BY <1>3, <1>4

LEMMA EndKeepsGot ==
    ASSUME LinkInv, GotInv, NEW s \in Sides, Closed(s) \/ GetsClose(s), UNCHANGED <<wired, running>>
    PROVE  GotInv'
<1>1. Disconnected(s) /\ UNCHANGED <<stage, session, received>> /\ socket[s] # "closed"
  BY DEF Closed, GetsClose, Arrives
<1>2. CASE s = "client"
  <2>1. socket'["client"] = "closed" /\ got' = got \cap Models /\ ready' = FALSE /\ session # 0
    BY <1>1, <1>2, Peers DEF Disconnected, LinkInv, LinkTypeOK, GotInv
  <2>2. QED
    BY <1>1, <2>1, RemoteLinkAssumption DEF GotInv
<1>3. CASE s = "server"
  <2>1. socket'["client"] = socket["client"] /\ UNCHANGED <<got, ready>>
    BY <1>1, <1>3, Peers DEF Disconnected, LinkInv, LinkTypeOK
  <2>2. running' = running \/ wired > 0
    OBVIOUS
  <2>3. QED
    BY <1>1, <2>1, <2>2, GotStays
<1>4. QED
  BY <1>2, <1>3, Peers

LEMMA GotStep ==
    ASSUME LinkInv, PartsInv, PropertyInv, GotInv, NextClient \/ UNCHANGED allVars
    PROVE  GotInv'
<1>1. ASSUME UNCHANGED <<session, received, got, ready, wired, stage, socket>>, running' = running \/ wired > 0
      PROVE  GotInv'
  BY <1>1, GotStays
<1>2. CASE \/ ClientChanged \/ ClientReply \/ ClientSignal \/ ServerSet \/ ServerInvoke \/ returns
           \/ \E o \in Options : \E d \in DataOf[o] : daemonSets(o, d) \/ clientSets(o, d)
           \/ \E k \in Kinds : call(k)
           \/ networkTurns
  <2>1. UNCHANGED <<session, received, got, ready, wired, stage, socket>>
    BY <1>2, DataSteps DEF LinkInv, DataStep, linkVars, replica
  <2>2. running' = running \/ wired > 0
    <3>1. wired \in Nat
      BY DEF PropertyInv
    <3>2. running' = running \/ wired > 0
      BY <1>2 DEF ClientChanged, ClientReply, ClientSignal, ServerSet, ServerInvoke, returns, daemonSets,
           clientSets, call, networkTurns, signalVars
    <3>3. QED
      BY <3>2
  <2>3. QED
    BY <1>1, <2>1, <2>2
<1>3. CASE ClientText /\ UNCHANGED clientVars
  BY <1>3, TextKeepsGot DEF clientVars, signalVars
<1>4. CASE ServerText /\ UNCHANGED clientVars
  <2>1. UNCHANGED <<session, received, got, ready, wired, running>>
    BY <1>4 DEF ServerText, replica, clientVars, signalVars
  <2>2. \E st : \E closes \in BOOLEAN : \E frames : Processes("server", st, closes, frames)
    BY <1>4, ServerTextIs, Zenon
  <2>3. socket'["client"] = socket["client"] /\ stage'["client"] = stage["client"]
    BY <2>2, Peers DEF Processes, LinkInv, LinkTypeOK
  <2>4. QED
    BY <2>1, <2>3, GotStays
<1>5. CASE ClientGets
  BY <1>5, PartKeepsGot
<1>6. CASE (ServerBinary \/ Drop) /\ UNCHANGED clientVars
  BY <1>1, <1>6 DEF ServerBinary, Drop, replica, clientVars, signalVars
<1>7. CASE \E p \in Parts : ServerSends(p)
  BY <1>1, <1>7 DEF ServerSends, ServerSendsPart, replica, signalVars
<1>8. CASE Connects
  <2>1. /\ session' = session + 1 /\ socket["client"] = "closed" /\ socket'["client"] = "open"
        /\ received' = {} /\ wired' = 0 /\ UNCHANGED <<got, ready, running>> /\ session \in Nat
    BY <1>8, Peers DEF Connects, initilizeReplica, LinkInv, LinkTypeOK
  <2>2. ~ ready /\ got \cap Objects = {}
    BY <2>1 DEF GotInv
  <2>3. session' = 1 => got = {} /\ ~ running
    BY <2>1 DEF GotInv
  <2>4. Parts # {}
    BY RemoteClientAssumption DEF Parts
  <2>5. QED
    BY <2>1, <2>2, <2>3, <2>4 DEF GotInv
<1>9. CASE (\E s \in Sides : Closed(s) \/ GetsClose(s)) /\ UNCHANGED <<wired, running>>
  BY <1>9, EndKeepsGot
<1>10. CASE UNCHANGED allVars
  BY <1>1, <1>10 DEF allVars, vars, ends, replica, clientVars, signalVars
<1>11. QED
  BY <1>2, <1>3, <1>4, <1>5, <1>6, <1>7, <1>8, <1>9, <1>10, Peers
     DEF NextClient, ClientTakes, ServerTakes, clientVars, signalVars

LEMMA GotInit ==
    ASSUME InitClient
    PROVE  GotInv
BY Peers DEF InitClient, Init, GotInv

-----------------------------------------------------------------------------
(* Frames to the client keep their order.                                  *)

\* A frame of these kinds, or one with such a part.
Of(f, K, P) == f.cmd \in K \/ (f.cmd = "binary" /\ f.arg \in P)

\* d frames leave, and none of that kind leaves or comes.
Shifts(d, K, P) ==
    /\ \A i \in 1..Len(chan'["client"]) : Of(chan'["client"][i], K, P) =>
         i + d \in On("client") /\ chan'["client"][i] = chan["client"][i + d]
    /\ \A i \in On("client") : Of(chan["client"][i], K, P) =>
         i - d \in 1..Len(chan'["client"]) /\ chan'["client"][i - d] = chan["client"][i]

Shift(K, P) == \E d \in {0, 1} : Shifts(d, K, P)

LEMMA TakenShifts ==
    ASSUME Chans, NEW K, NEW P, chan["client"] # <<>>, Taken("client"), ~ Of(Head(chan["client"]), K, P)
    PROVE  Shifts(1, K, P)
<1>1. \A i \in On("client") : i = 1 \/ i > 1
  BY DEF On
<1>2. ~ Of(chan["client"][1], K, P)
  BY TakenFrames, Peers
<1>3. \A i \in 1..Len(chan'["client"]) : i + 1 \in On("client") /\ chan'["client"][i] = chan["client"][i + 1]
  BY TakenFrames, Peers
<1>4. \A i \in On("client") : Of(chan["client"][i], K, P) =>
        i - 1 \in 1..Len(chan'["client"]) /\ chan'["client"][i - 1] = chan["client"][i]
  BY <1>1, <1>2, TakenFrames, Peers
<1>5. QED
  BY <1>3, <1>4 DEF Shifts

LEMMA GivenShifts ==
    ASSUME Chans, NEW K, NEW P, NEW frames, IsSequence(frames), Given("client", frames),
           \A k \in 1..Len(frames) : ~ Of(frames[k], K, P)
    PROVE  Shifts(0, K, P)
<1>1. \A i \in 1..Len(chan'["client"]) : Of(chan'["client"][i], K, P) =>
         i \in On("client") /\ chan'["client"][i] = chan["client"][i]
  <2> TAKE i \in 1..Len(chan'["client"])
  <2> HAVE Of(chan'["client"][i], K, P)
  <2>1. \/ i \in On("client") /\ chan'["client"][i] = chan["client"][i]
        \/ \E k \in 1..Len(frames) : i = Len(chan["client"]) + k /\ chan'["client"][i] = frames[k]
    BY GivenFrames, Peers
  <2>2. QED
    BY <2>1
<1>2. \A i \in On("client") : i \in 1..Len(chan'["client"]) /\ chan'["client"][i] = chan["client"][i]
  BY GivenFrames, Peers
<1>3. \A i \in 1..Len(chan'["client"]) : i + 0 = i
  OBVIOUS
<1>4. \A i \in On("client") : i - 0 = i
  BY DEF On
<1>5. QED
  BY <1>1, <1>2, <1>3, <1>4 DEF Shifts

\* The handshake, and the data the client takes.
LEMMA TakesShift ==
    ASSUME LinkInv, NEW K, NEW P, K \cap {"PROTOCOL", "AUTH", "START", "ERROR", "binary"} = {},
           \/ ClientText
           \/ ClientBinary /\ Head(chan["client"]).arg \notin P
           \/ \E cmd \in {"changed", "reply", "signal"} :
                cmd \notin K /\ Takes("client", cmd) /\ Sends("client", <<>>)
    PROVE  Shifts(1, K, P)
<1>0. Chans
  BY DEF LinkInv
<1>1. CASE ClientText
  <2>1. chan["client"] # <<>> /\ Taken("client")
    BY <1>1, ClientTextIs
  <2>2. Head(chan["client"]).cmd \in {"PROTOCOL", "AUTH", "START", "ERROR"}
    BY <1>1 DEF ClientText, Text
  <2>3. ~ Of(Head(chan["client"]), K, P)
    BY <2>2 DEF Of
  <2>4. QED
    BY <1>0, <2>1, <2>3, TakenShifts
<1>2. CASE ClientBinary /\ Head(chan["client"]).arg \notin P
  <2>1. Arrives("client") /\ Head(chan["client"]).cmd = "binary"
        /\ \E frames : Sends("client", frames) /\ IsSequence(frames)
    <3>1. IsSequence(<<>>) /\ IsSequence(<<Binary("acquire")>>)
      BY FewAre
    <3>2. QED
      BY <1>2, <3>1 DEF ClientBinary, IsBinary
  <2>2. chan["client"] # <<>> /\ Taken("client")
    BY <1>0, <2>1, AnswerIs, Peers
  <2>3. ~ Of(Head(chan["client"]), K, P)
    BY <1>2, <2>1 DEF Of
  <2>4. QED
    BY <1>0, <2>2, <2>3, TakenShifts
<1>3. ASSUME NEW cmd \in {"changed", "reply", "signal"}, cmd \notin K, Takes("client", cmd), Sends("client", <<>>)
      PROVE  Shifts(1, K, P)
  <2>1. Arrives("client") /\ Head(chan["client"]).cmd = cmd
    BY <1>3 DEF Takes
  <2>2. chan["client"] # <<>> /\ Taken("client")
    BY <1>0, <1>3, <2>1, AnswerIs, FewAre, Peers
  <2>3. ~ Of(Head(chan["client"]), K, P)
    BY <1>3, <2>1 DEF Of
  <2>4. QED
    BY <1>0, <2>2, <2>3, TakenShifts
<1>4. QED
  BY <1>1, <1>2, <1>3

\* What the daemon sends: frames that are none of these.
LEMMA GivesFrames ==
    ASSUME LinkInv, NEW K, NEW P, K \cap {"PROTOCOL", "AUTH", "START", "ERROR", "binary"} = {}, "objects" \notin P,
           \/ ServerText /\ ("close" \notin K \/ socket'["server"] # "closing")
           \/ ServerBinary
           \/ \E f : ~ Of(f, K, P) /\ Post("client", f)
           \/ \E f : ~ Of(f, K, P) /\ Arrives("server") /\ Sends("server", <<f>>)
           \/ Arrives("server") /\ Sends("server", <<>>)
           \/ \E f : Post("server", f)
           \/ chan'["client"] = chan["client"]
    PROVE  \E frames : /\ IsSequence(frames) /\ Given("client", frames)
                       /\ \A k \in 1..Len(frames) : ~ Of(frames[k], K, P)
<1>0. Chans
  BY DEF LinkInv
<1> DEFINE Plain(frames) == /\ IsSequence(frames) /\ Given("client", frames)
                            /\ \A k \in 1..Len(frames) : ~ Of(frames[k], K, P)
<1> SUFFICES \E frames : Plain(frames)
  OBVIOUS
<1>1. CASE ServerText /\ ("close" \notin K \/ socket'["server"] # "closing")
  <2>1. \E st : \E closes \in BOOLEAN : \E frames : \E f :
          Processes("server", st, closes, frames) /\ ServerAnswer(f, st, frames)
          /\ (closes \/ frames = <<Frame("AUTH", <<>>)>> \/ frames = <<Start, Binary("objects")>>)
    BY <1>1, ServerTextIs, Zenon DEF ServerAnswer, StartAndHostSide, Start, TooMany
  <2>2. PICK st, closes, frames, f :
          Processes("server", st, closes, frames) /\ ServerAnswer(f, st, frames)
          /\ (closes \/ frames = <<Frame("AUTH", <<>>)>> \/ frames = <<Start, Binary("objects")>>)
    BY <2>1
  <2>3. Given("client", frames) /\ IsSequence(frames)
    BY <2>2, ServerAnswerIs, Peers DEF Processes
  <2>4. CASE closes
    <3>1. "close" \notin K
      BY <1>1, <2>2, <2>4, Peers DEF Processes, LinkInv, LinkTypeOK
    <3>2. \A k \in 1..Len(frames) : frames[k].cmd \in {"AUTH", "START", "ERROR", "close"} \/ frames[k] = Binary("objects")
      BY <2>2, ServerAnswerIs, FramesAre
    <3>3. \A k \in 1..Len(frames) : ~ Of(frames[k], K, P)
      BY <3>1, <3>2, FramesAre DEF Of
    <3>4. QED
      BY <2>3, <3>3
  <2>5. CASE frames = <<Frame("AUTH", <<>>)>> \/ frames = <<Start, Binary("objects")>>
    <3>1. \A k \in 1..Len(frames) : frames[k].cmd \in {"AUTH", "START"} \/ frames[k] = Binary("objects")
      BY <2>5, FewAre, FramesAre
    <3>2. \A k \in 1..Len(frames) : ~ Of(frames[k], K, P)
      BY <3>1, FramesAre DEF Of
    <3>3. QED
      BY <2>3, <3>2
  <2>6. QED
    BY <2>2, <2>4, <2>5
<1>2. PICK none : none = <<>>
  OBVIOUS
<1>3. IsSequence(none) /\ Len(none) = 0
  BY <1>2, FewAre
<1>4. CASE ServerBinary \/ (Arrives("server") /\ Sends("server", <<>>))
  <2>1. Arrives("server") /\ Sends("server", none)
    BY <1>2, <1>4 DEF ServerBinary, IsBinary
  <2>2. Given("client", none)
    BY <1>0, <1>3, <2>1, AnswerIs, Peers
  <2>3. Plain(none)
    BY <1>3, <2>2
  <2>4. QED
    BY <2>3
<1>5. ASSUME NEW f, ~ Of(f, K, P), Post("client", f) \/ (Arrives("server") /\ Sends("server", <<f>>))
      PROVE  \E frames : Plain(frames)
  <2>1. PICK one : one = <<f>>
    OBVIOUS
  <2>2. IsSequence(one) /\ Len(one) = 1 /\ one[1] = f
    BY <2>1, FewAre
  <2>3. Given("client", one)
    BY <1>0, <1>5, <2>1, <2>2, AnswerIs, PostIs, Peers
  <2>4. \A k \in 1..Len(one) : ~ Of(one[k], K, P)
    BY <1>5, <2>2
  <2>5. Plain(one)
    BY <2>2, <2>3, <2>4
  <2>6. QED
    BY <2>5
<1>6. ASSUME chan'["client"] = chan["client"]
      PROVE  \E frames : Plain(frames)
  <2>1. Given("client", none)
    BY <1>0, <1>2, <1>6, UntouchedGiven, Peers
  <2>2. Plain(none)
    BY <1>3, <2>1
  <2>3. QED
    BY <2>2
<1>7. CASE \E f : Post("server", f)
  <2>1. chan'["client"] = chan["client"]
    BY <1>0, <1>7, Peers DEF Post, Chans
  <2>2. QED
    BY <1>6, <2>1
<1>8. QED
  BY <1>1, <1>4, <1>5, <1>6, <1>7

LEMMA GivesShift ==
    ASSUME LinkInv, NEW K, NEW P, K \cap {"PROTOCOL", "AUTH", "START", "ERROR", "binary"} = {}, "objects" \notin P,
           \/ ServerText /\ ("close" \notin K \/ socket'["server"] # "closing")
           \/ ServerBinary
           \/ \E f : ~ Of(f, K, P) /\ Post("client", f)
           \/ \E f : ~ Of(f, K, P) /\ Arrives("server") /\ Sends("server", <<f>>)
           \/ Arrives("server") /\ Sends("server", <<>>)
           \/ \E f : Post("server", f)
           \/ chan'["client"] = chan["client"]
    PROVE  Shifts(0, K, P)
<1>1. PICK frames : /\ IsSequence(frames) /\ Given("client", frames)
                    /\ \A k \in 1..Len(frames) : ~ Of(frames[k], K, P)
  BY GivesFrames
<1>2. QED
  BY <1>1, GivenShifts DEF LinkInv

\* A property is set, and the client told if it changed.
Setting(o, d) ==
    /\ SetsProperty(o, d) /\ Given("client", Changed(o, d))
    /\ \/ ServerSet /\ Arrives("server") /\ Head(chan["server"]).cmd = "set" /\ o = Head(chan["server"]).arg.name
       \/ o \in Options

LEMMA ChangesGiven ==
    ASSUME Chans, ServerSet \/ \E o \in Options : \E d \in DataOf[o] : daemonSets(o, d)
    PROVE  \E o, d : Setting(o, d)
<1>1. ASSUME NEW o, NEW d
      PROVE  IsSequence(Changed(o, d))
  BY ToldAre, FewAre
<1>2. CASE ServerSet
  <2>1. PICK a : a = Head(chan["server"]).arg
    OBVIOUS
  <2>2. Arrives("server") /\ Sends("server", Changed(a.name, a.value)) /\ SetsProperty(a.name, a.value)
    BY <1>2, <2>1 DEF ServerSet, Takes
  <2>3. Given("client", Changed(a.name, a.value))
    BY <1>1, <2>2, AnswerIs, Peers
  <2>4. Setting(a.name, a.value)
    BY <1>2, <2>1, <2>2, <2>3 DEF Setting, ServerSet, Takes
  <2>5. QED
    BY <2>4, Zenon
<1>3. ASSUME NEW o \in Options, NEW d \in DataOf[o], daemonSets(o, d)
      PROVE  \E n, e : Setting(n, e)
  <2>1. PICK frames : frames = Changed(o, d)
    OBVIOUS
  <2>2. chan' = [chan EXCEPT !["client"] = IF socket["client"] = "closed" THEN @ ELSE @ \o frames]
    BY <1>3, <2>1 DEF daemonSets
  <2>3. Given("client", frames)
    BY <1>1, <2>1, <2>2, AddsIs, Peers
  <2>4. Setting(o, d)
    BY <1>3, <2>1, <2>3 DEF daemonSets, Setting
  <2>5. QED
    BY <2>4, Zenon
<1>4. QED
  BY <1>2, <1>3

-----------------------------------------------------------------------------
(* The end of a connection.                                                *)

Closes(q) == \E i \in On(q) : chan[q][i].cmd = "close"

\* As far as the client can know, it is connected.
Live == socket["client"] = "open" /\ ~ Closes("client")

\* The daemon's end does not close before the client is told.
CloseInv == socket["client"] = "open" /\ (socket["server"] # "open" \/ Closes("server")) => Closes("client")

LEMMA ShiftCloses ==
    ASSUME NEW d \in {0, 1}, Shifts(d, {"close"}, {})
    PROVE  Closes("client")' <=> Closes("client")
<1>1. \A f : Of(f, {"close"}, {}) <=> f.cmd = "close"
  BY DEF Of
<1>2. QED
  BY <1>1 DEF Shifts, Closes, On

LEMMA FramesClose == \A q : Closes(q) <=> \E f \in Frames(q) : f.cmd = "close"
BY DEF Closes, Frames

LEMMA ServerCloses ==
    ASSUME Chans, NEW frames, IsSequence(frames), \A k \in 1..Len(frames) : frames[k].cmd # "close",
           \/ chan["server"] # <<>> /\ Taken("server")
           \/ Given("server", frames)
           \/ chan'["server"] = chan["server"]
    PROVE  Closes("server")' => Closes("server")
<1>1. \A f \in Frames("server")' : f \in Frames("server") \/ f.cmd # "close"
  <2>1. CASE chan["server"] # <<>> /\ Taken("server")
    BY <2>1, TakenAre, Peers
  <2>2. CASE Given("server", frames)
    BY <2>2, GivenAre, Peers
  <2>3. CASE chan'["server"] = chan["server"]
    BY <2>3 DEF Frames, On
  <2>4. QED
    BY <2>1, <2>2, <2>3
<1>2. Closes("server")' <=> \E f \in Frames("server")' : f.cmd = "close"
  BY DEF Closes, Frames
<1>3. QED
  BY <1>1, <1>2, FramesClose

LEMMA CloseStep ==
    ASSUME LinkInv, CloseInv, NextClient \/ UNCHANGED allVars
    PROVE  CloseInv' /\ (Live' => Live \/ Connects)
<1>0. Chans /\ {"close"} \cap {"PROTOCOL", "AUTH", "START", "ERROR", "binary"} = {}
  BY DEF LinkInv
<1>1. ASSUME UNCHANGED socket, Closes("client")' <=> Closes("client"), Closes("server")' => Closes("server")
      PROVE  CloseInv' /\ (Live' => Live)
  BY <1>1 DEF CloseInv, Live
<1>2. PICK none : none = <<>>
  OBVIOUS
<1>3. IsSequence(none) /\ Len(none) = 0 /\ \A k \in 1..Len(none) : none[k].cmd # "close"
  BY <1>2, FewAre
<1>4. CASE \/ ClientChanged \/ ClientReply \/ ClientSignal \/ ServerSet \/ ServerInvoke \/ returns
           \/ \E o \in Options : \E d \in DataOf[o] : daemonSets(o, d) \/ clientSets(o, d)
           \/ \E k \in Kinds : call(k)
           \/ networkTurns
  <2>1. DataStep
    BY <1>0, <1>4, DataSteps
  <2>2. UNCHANGED socket
    BY <2>1 DEF DataStep, linkVars
  <2>3. ASSUME NEW q \in Sides
        PROVE  Closes(q)' <=> Closes(q)
    <3>1. PICK d \in {0, 1} : KeepsLinkFrames(q, d)
      BY <2>1 DEF DataStep
    <3>2. \A f : f.cmd = "close" => f.cmd \notin DataFor(q)
      BY DEF DataFor
    <3>3. QED
      BY <3>1, <3>2 DEF KeepsLinkFrames, Closes, On
  <2>4. QED
    BY <1>1, <2>2, <2>3, Peers
<1>5. CASE ClientText
  <2>1. Closes("client")' <=> Closes("client")
    BY <1>0, <1>5, TakesShift, ShiftCloses
  <2>2. \E st : \E closes \in BOOLEAN : \E frames : \E f :
          Processes("client", st, closes, frames) /\ ClientAnswer(f, st, frames)
          /\ (closes \/ frames = <<ProtocolOK>> \/ frames = <<Frame("AUTH", clientKey)>> \/ frames = <<>>)
    BY <1>5, ClientTextIs, Zenon DEF ClientAnswer, ProtocolOK, Incompatible
  <2>3. PICK st, closes, frames, f :
          Processes("client", st, closes, frames) /\ ClientAnswer(f, st, frames)
          /\ (closes \/ frames = <<ProtocolOK>> \/ frames = <<Frame("AUTH", clientKey)>> \/ frames = <<>>)
    BY <2>2
  <2>4. socket' = [socket EXCEPT !["client"] = IF closes THEN "closing" ELSE @]
        /\ Given("server", frames) /\ IsSequence(frames)
    BY <2>3, ClientAnswerIs, Peers DEF Processes
  <2>5. CASE closes
    <3>1. socket'["client"] = "closing"
      BY <2>4, <2>5, Peers DEF LinkInv, LinkTypeOK
    <3>2. QED
      BY <3>1 DEF CloseInv, Live
  <2>6. CASE ~ closes
    <3>1. socket' = socket
      BY <2>4, <2>6 DEF LinkInv, LinkTypeOK
    <3>2. \A k \in 1..Len(frames) : frames[k].cmd # "close"
      BY <2>3, <2>6, FewAre, FramesAre
    <3>3. Closes("server")' => Closes("server")
      BY <1>0, <2>4, <3>2, ServerCloses
    <3>4. QED
      BY <1>1, <2>1, <3>1, <3>3
  <2>7. QED
    BY <2>5, <2>6
<1>6. CASE ServerText
  <2>1. chan["server"] # <<>> /\ Taken("server")
    BY <1>6, ServerTextIs
  <2>2. Closes("server")' => Closes("server")
    BY <1>0, <1>3, <2>1, ServerCloses
  <2>3. CASE socket'["server"] # "closing"
    <3>1. Closes("client")' <=> Closes("client")
      BY <1>0, <1>6, <2>3, GivesShift, ShiftCloses
    <3>2. \E st : \E closes \in BOOLEAN : \E frames : Processes("server", st, closes, frames)
      BY <1>6, ServerTextIs, Zenon
    <3>3. socket' = socket
      BY <2>3, <3>2, Peers DEF Processes, LinkInv, LinkTypeOK
    <3>4. QED
      BY <1>1, <2>2, <3>1, <3>3
  <2>4. CASE socket'["server"] = "closing"
    <3>1. \E st : \E frames : \E f : \E closes \in BOOLEAN :
            Processes("server", st, closes, frames) /\ ServerAnswer(f, st, frames)
            /\ (closes => frames = <<TooMany, CLOSE>> \/ frames = <<CLOSE>>)
      BY <1>6, ServerTextIs, Zenon DEF ServerAnswer, StartAndHostSide, Start, TooMany
    <3>2. PICK st, frames, f : \E closes \in BOOLEAN :
            Processes("server", st, closes, frames) /\ ServerAnswer(f, st, frames)
            /\ (closes => frames = <<TooMany, CLOSE>> \/ frames = <<CLOSE>>)
      BY <3>1
    <3>3. PICK closes \in BOOLEAN :
            Processes("server", st, closes, frames) /\ ServerAnswer(f, st, frames)
            /\ (closes => frames = <<TooMany, CLOSE>> \/ frames = <<CLOSE>>)
      BY <3>2
    <3>4. socket["server"] = "open" /\ socket'["client"] = socket["client"]
      BY <1>6, <3>3, Peers DEF ServerText, Text, Arrives, Processes, LinkInv, LinkTypeOK
    <3>5. closes
      BY <2>4, <3>3, <3>4, Peers DEF Processes, LinkInv, LinkTypeOK
    <3>6. IsSequence(frames) /\ Given("client", frames) /\ \E k \in 1..Len(frames) : frames[k].cmd = "close"
      <4>1. IsSequence(frames) /\ Given("client", frames)
        BY <3>3, ServerAnswerIs, Peers DEF Processes
      <4>2. \E k \in 1..Len(frames) : frames[k].cmd = "close"
        <5>1. CASE frames = <<TooMany, CLOSE>>
          <6>1. 2 \in 1..Len(frames) /\ frames[2] = CLOSE
            BY <5>1, FewAre
          <6>2. QED
            BY <6>1, FramesAre
        <5>2. CASE frames = <<CLOSE>>
          <6>1. 1 \in 1..Len(frames) /\ frames[1] = CLOSE
            BY <5>2, FewAre
          <6>2. QED
            BY <6>1, FramesAre
        <5>3. QED
          BY <3>3, <3>5, <5>1, <5>2
      <4>3. QED
        BY <4>1, <4>2
    <3>7. socket["client"] # "closed" => \E k \in 1..Len(chan'["client"]) : chan'["client"][k].cmd = "close"
      <4>1. PICK k \in 1..Len(frames) : frames[k].cmd = "close"
        BY <3>6
      <4>2. socket["client"] # "closed" =>
              Len(chan["client"]) + k \in 1..Len(chan'["client"]) /\ chan'["client"][Len(chan["client"]) + k] = frames[k]
        BY <1>0, <3>6, GivenFrames, Peers
      <4>3. QED
        BY <4>1, <4>2
    <3>8. socket'["client"] = "open" => Closes("client")'
      BY <3>4, <3>7 DEF Closes, On
    <3>9. QED
      BY <3>8 DEF CloseInv, Live
  <2>5. QED
    BY <2>3, <2>4
<1>7. CASE ClientBinary
  <2>1. Closes("client")' <=> Closes("client")
    BY <1>0, <1>7, TakesShift, ShiftCloses
  <2>2. PICK frames : Sends("client", frames) /\ (frames = <<>> \/ frames = <<Binary("acquire")>>)
    BY <1>7 DEF ClientBinary
  <2>3. IsSequence(frames) /\ \A k \in 1..Len(frames) : frames[k].cmd # "close"
    BY <2>2, FewAre, FramesAre
  <2>4. Given("server", frames)
    BY <1>0, <1>7, <2>2, <2>3, AnswerIs, Peers DEF ClientBinary, IsBinary
  <2>5. Closes("server")' => Closes("server")
    BY <1>0, <2>3, <2>4, ServerCloses
  <2>6. QED
    BY <1>1, <1>7, <2>1, <2>5 DEF ClientBinary
<1>8. CASE ServerBinary
  <2>1. Closes("client")' <=> Closes("client")
    BY <1>0, <1>8, GivesShift, ShiftCloses
  <2>2. chan["server"] # <<>> /\ Taken("server")
    BY <1>0, <1>8, AnswerIs, FewAre, Peers DEF ServerBinary, IsBinary
  <2>3. Closes("server")' => Closes("server")
    BY <1>0, <1>3, <2>2, ServerCloses
  <2>4. QED
    BY <1>1, <1>8, <2>1, <2>3 DEF ServerBinary
<1>9. ASSUME NEW p \in Parts, ServerSends(p)
      PROVE  CloseInv' /\ (Live' => Live)
  <2>1. Post("client", Binary(p)) /\ UNCHANGED socket
    BY <1>9 DEF ServerSends, ServerSendsPart, Post
  <2>2. ~ Of(Binary(p), {"close"}, {})
    BY FramesAre DEF Of
  <2>3. Closes("client")' <=> Closes("client")
    BY <1>0, <2>1, <2>2, GivesShift, ShiftCloses
  <2>4. chan'["server"] = chan["server"]
    BY <1>0, <2>1, Peers DEF Post, Chans
  <2>5. Closes("server")' => Closes("server")
    BY <1>0, <1>3, <2>4, ServerCloses
  <2>6. QED
    BY <1>1, <2>1, <2>3, <2>5
<1>10. CASE Connects
  <2>1. chan'["server"] = <<>> /\ socket'["server"] = "open"
    BY <1>10, Peers DEF Connects, initilizeReplica
  <2>2. ~ Closes("server")'
    BY <2>1, FewAre DEF Closes, On
  <2>3. QED
    BY <1>10, <2>1, <2>2 DEF CloseInv
<1>11. CASE Drop
  <2>1. socket["client"] = "open" => chan'["client"] = <<CLOSE>>
    BY <1>11, Peers DEF Drop
  <2>2. socket["client"] = "open" => Len(chan'["client"]) = 1 /\ chan'["client"][1] = CLOSE
    BY <2>1, FewAre
  <2>3. socket["client"] = "open" => Closes("client")'
    BY <2>2, FramesAre DEF Closes, On
  <2>4. QED
    BY <1>11, <2>3 DEF Drop, CloseInv, Live
<1>12. ASSUME NEW s \in Sides, Closed(s) \/ GetsClose(s)
       PROVE  CloseInv' /\ (Live' => Live)
  <2>1. CASE s = "client"
    <3>1. socket'["client"] = "closed"
      BY <1>12, <2>1, Peers DEF Closed, GetsClose, Disconnected, LinkInv, LinkTypeOK
    <3>2. QED
      BY <3>1 DEF CloseInv, Live
  <2>2. CASE s = "server"
    <3>1. socket'["client"] = socket["client"] /\ chan'["client"] = chan["client"]
      BY <1>0, <1>12, <2>2, Peers DEF Closed, GetsClose, Disconnected, LinkInv, LinkTypeOK, Chans
    <3>2. socket["server"] # "open" \/ Closes("server")
      <4>1. CASE Closed("server")
        BY <4>1 DEF Closed
      <4>2. CASE GetsClose("server")
        BY <4>2, HeadIs, Peers DEF GetsClose, Closes
      <4>3. QED
        BY <1>12, <2>2, <4>1, <4>2
    <3>3. Closes("client")' <=> Closes("client")
      BY <3>1 DEF Closes, On
    <3>4. QED
      BY <3>1, <3>2, <3>3 DEF CloseInv, Live
  <2>3. QED
    BY <2>1, <2>2, Peers
<1>13. CASE UNCHANGED allVars
  <2>1. UNCHANGED <<socket, chan>>
    BY <1>13 DEF allVars, vars, ends
  <2>2. QED
    BY <1>1, <2>1 DEF Closes, On
<1>14. QED
  BY <1>4, <1>5, <1>6, <1>7, <1>8, <1>9, <1>10, <1>11, <1>12, <1>13, Peers
     DEF NextClient, ClientTakes, ServerTakes, ClientGets

\* While the client is connected as far as it knows, the daemon's end is open.
LEMMA LiveServer ==
    ASSUME LinkInv, CloseInv, Live, Closed("server") \/ GetsClose("server")
    PROVE  FALSE
<1>1. socket["server"] # "open" \/ Closes("server")
  BY HeadIs, Peers DEF Closed, GetsClose, Closes
<1>2. QED
  BY <1>1 DEF CloseInv, Live

LEMMA EndsLive ==
    ASSUME LinkInv, CloseInv, Live' => Live, Drop \/ \E s \in Sides : Closed(s) \/ GetsClose(s)
    PROVE  ~ Live'
<1>1. CASE Drop
  <2>1. socket["client"] = "open" => chan'["client"] = <<CLOSE>>
    BY <1>1, Peers DEF Drop
  <2>2. socket["client"] = "open" => Len(chan'["client"]) = 1 /\ chan'["client"][1] = CLOSE
    BY <2>1, FewAre
  <2>3. QED
    BY <1>1, <2>2, FramesAre DEF Live, Closes, On, Drop
<1>2. CASE Closed("client") \/ GetsClose("client")
  BY <1>2, Peers DEF Closed, GetsClose, Disconnected, LinkInv, LinkTypeOK, Live
<1>3. CASE Closed("server") \/ GetsClose("server")
  BY <1>3, LiveServer
<1>4. QED
  BY <1>1, <1>2, <1>3, Peers

-----------------------------------------------------------------------------
(* Signals: the last one on the way tells what the network is.             *)

SignalAt(i) == chan["client"][i].cmd = "signal"
LastSignal(i) == SignalAt(i) /\ \A j \in On("client") : j > i => ~ SignalAt(j)

SignalInv ==
    session = 1 /\ Live =>
      /\ \A i \in On("client") : LastSignal(i) => chan["client"][i].arg = started
      /\ (\A i \in On("client") : ~ SignalAt(i)) => (running => started)
      /\ running \/ (\E i \in On("client") : SignalAt(i)) => "manager" \in listens

\* What becomes of the last signal when frames leave and others come.
LEMMA ShiftedSignals ==
    ASSUME Chans, NEW d \in {0, 1}, Shifts(d, {"signal"}, {})
    PROVE  /\ \A i \in 1..Len(chan'["client"]) : SignalAt(i)' =>
                i + d \in On("client") /\ chan'["client"][i] = chan["client"][i + d] /\ SignalAt(i + d)
           /\ \A i \in 1..Len(chan'["client"]) : LastSignal(i)' => LastSignal(i + d)
           /\ (\A i \in 1..Len(chan'["client"]) : ~ SignalAt(i)') => \A i \in On("client") : ~ SignalAt(i)
<1>1. \A f : Of(f, {"signal"}, {}) <=> f.cmd = "signal"
  BY DEF Of
<1>2. \A i \in 1..Len(chan'["client"]) : SignalAt(i)' =>
        i + d \in On("client") /\ chan'["client"][i] = chan["client"][i + d] /\ SignalAt(i + d)
  BY <1>1 DEF Shifts, SignalAt
<1>3. \A i \in On("client") : SignalAt(i) => i - d \in 1..Len(chan'["client"]) /\ SignalAt(i - d)'
  BY <1>1 DEF Shifts, SignalAt
<1>4. ASSUME NEW i \in 1..Len(chan'["client"]), LastSignal(i)'
      PROVE  LastSignal(i + d)
  <2>1. SignalAt(i)' /\ \A j \in 1..Len(chan'["client"]) : j > i => ~ SignalAt(j)'
    BY <1>4 DEF LastSignal, On
  <2>2. ASSUME NEW j \in On("client"), j > i + d, SignalAt(j)
        PROVE  FALSE
    <3>1. j - d \in 1..Len(chan'["client"]) /\ SignalAt(j - d)'
      BY <1>3, <2>2
    <3>2. j - d > i
      BY <2>2 DEF On
    <3>3. QED
      BY <2>1, <3>1, <3>2
  <2>3. QED
    BY <1>2, <2>1, <2>2 DEF LastSignal
<1>5. QED
  BY <1>2, <1>3, <1>4

LEMMA ShiftKeepsSignals ==
    ASSUME Chans, SignalInv, NEW d \in {0, 1}, Shifts(d, {"signal"}, {}), Live' => Live,
           UNCHANGED <<session, started, running>>, "manager" \in listens => "manager" \in listens'
    PROVE  SignalInv'
<1> SUFFICES ASSUME session = 1, Live
             PROVE  /\ \A i \in 1..Len(chan'["client"]) : LastSignal(i)' => chan'["client"][i].arg = started
                    /\ (\A i \in 1..Len(chan'["client"]) : ~ SignalAt(i)') => (running => started)
                    /\ running \/ (\E i \in 1..Len(chan'["client"]) : SignalAt(i)') => "manager" \in listens'
  BY DEF SignalInv, On
<1>1. \A i \in 1..Len(chan'["client"]) : LastSignal(i)' => SignalAt(i)'
  BY DEF LastSignal
<1>2. QED
  BY <1>1, ShiftedSignals DEF SignalInv

LEMMA TurnKeepsSignals ==
    ASSUME LinkInv, SignalInv, networkTurns, Live' => Live
    PROVE  SignalInv'
<1>1. Chans /\ UNCHANGED <<session, running, listens>>
  BY DEF networkTurns, linkVars, LinkInv, signalVars
<1>2. PICK f : f = Frame("signal", started')
  OBVIOUS
<1>3. chan' = [chan EXCEPT !["client"] = IF socket["client"] = "closed" THEN @ ELSE @ \o Told("manager", f)]
  BY <1>2 DEF networkTurns
<1>4. f.cmd = "signal" /\ f.arg = started'
  <2>1. \A b : Frame("signal", b).cmd = "signal" /\ Frame("signal", b).arg = b
    BY FramesAre
  <2>2. Frame("signal", started').cmd = "signal" /\ Frame("signal", started').arg = started'
    BY <2>1, Zenon
  <2>3. QED
    BY <1>2, <2>2, Zenon
<1> SUFFICES ASSUME session = 1, Live
             PROVE  /\ \A i \in 1..Len(chan'["client"]) : LastSignal(i)' => chan'["client"][i].arg = started'
                    /\ (\A i \in 1..Len(chan'["client"]) : ~ SignalAt(i)') => (running => started')
                    /\ running \/ (\E i \in 1..Len(chan'["client"]) : SignalAt(i)') => "manager" \in listens
  BY <1>1 DEF SignalInv, On
<1>5. CASE "manager" \in listens
  <2>1. PICK one : one = <<f>>
    OBVIOUS
  <2>2. IsSequence(one)
    BY <2>1, FewAre
  <2>3. chan' = [chan EXCEPT !["client"] = IF socket["client"] = "closed" THEN @ ELSE @ \o one]
    BY <1>3, <1>5, <2>1 DEF Told
  <2>4. Given("client", <<f>>)
    BY <1>1, <2>1, <2>2, <2>3, AddsIs, Peers
  <2>5. /\ Len(chan["client"]) \in Nat
        /\ \A i \in 1..Len(chan'["client"]) : \/ i \in On("client") /\ chan'["client"][i] = chan["client"][i]
                                              \/ i = Len(chan["client"]) + 1 /\ chan'["client"][i] = f
        /\ Len(chan["client"]) + 1 \in 1..Len(chan'["client"])
        /\ chan'["client"][Len(chan["client"]) + 1] = f
    BY <1>1, <2>4, GivenOne, Peers DEF Live
  <2> PICK n : n = Len(chan["client"]) + 1
    OBVIOUS
  <2>6. n \in 1..Len(chan'["client"]) /\ SignalAt(n)'
    BY <1>4, <2>5 DEF SignalAt
  <2>7. ASSUME NEW i \in 1..Len(chan'["client"]), LastSignal(i)'
        PROVE  chan'["client"][i] = f
    <3>1. ~ n > i
      BY <2>6, <2>7 DEF LastSignal, On
    <3>2. QED
      BY <2>5, <3>1 DEF On
  <2>8. \A i \in 1..Len(chan'["client"]) : LastSignal(i)' => chan'["client"][i].arg = started'
    BY <1>4, <2>7, Zenon
  <2>9. QED
    BY <1>5, <2>5, <2>6, <2>8
<1>6. CASE "manager" \notin listens
  <2>1. ~ running /\ \A i \in On("client") : ~ SignalAt(i)
    BY <1>6 DEF SignalInv
  <2>2. chan' = [chan EXCEPT !["client"] = IF socket["client"] = "closed" THEN @ ELSE @ \o <<>>]
    BY <1>3, <1>6 DEF Told
  <2>3. PICK none : none = <<>>
    OBVIOUS
  <2>4. IsSequence(none) /\ chan' = [chan EXCEPT !["client"] = IF socket["client"] = "closed" THEN @ ELSE @ \o none]
    BY <2>2, <2>3, FewAre
  <2>5. Given("client", <<>>)
    BY <1>1, <2>3, <2>4, AddsIs, Peers
  <2>6. \A i \in 1..Len(chan'["client"]) : i \in On("client") /\ chan'["client"][i] = chan["client"][i]
    BY <1>1, <2>5, UntouchedAre, Peers
  <2>7. \A i \in 1..Len(chan'["client"]) : ~ SignalAt(i)'
    BY <2>1, <2>6 DEF SignalAt
  <2>8. QED
    BY <2>1, <2>7 DEF LastSignal
<1>7. QED
  BY <1>5, <1>6

\* The signal taken is the one heard last, unless others follow.
LEMMA HeardKeepsSignals ==
    ASSUME LinkInv, PropertyInv, GotInv, SignalInv, ClientSignal, Live' => Live
    PROVE  SignalInv'
<1>1. Chans /\ UNCHANGED <<session, started, listens, wired>>
  BY DEF ClientSignal, linkVars, LinkInv, daemonVars
<1>2. chan["client"] # <<>> /\ Taken("client") /\ Head(chan["client"]).cmd = "signal"
  BY <1>1, AnswerIs, FewAre, Peers DEF ClientSignal, Takes
<1>3. /\ 1 \in On("client") /\ Head(chan["client"]) = chan["client"][1]
      /\ \A i \in 1..Len(chan'["client"]) :
           i + 1 \in On("client") /\ i + 1 > 1 /\ chan'["client"][i] = chan["client"][i + 1]
      /\ \A i \in On("client") : i > 1 =>
           i - 1 \in 1..Len(chan'["client"]) /\ chan'["client"][i - 1] = chan["client"][i]
  BY <1>1, <1>2, TakenFrames, Peers
<1> SUFFICES ASSUME session = 1, Live
             PROVE  /\ \A i \in 1..Len(chan'["client"]) : LastSignal(i)' => chan'["client"][i].arg = started
                    /\ (\A i \in 1..Len(chan'["client"]) : ~ SignalAt(i)') => (running' => started)
                    /\ running' \/ (\E i \in 1..Len(chan'["client"]) : SignalAt(i)') => "manager" \in listens
  BY <1>1 DEF SignalInv, On
<1>4. "manager" \in listens
  BY <1>2, <1>3 DEF SignalInv, SignalAt
<1>5. ASSUME NEW i \in 1..Len(chan'["client"]), LastSignal(i)'
      PROVE  chan'["client"][i].arg = started
  <2>1. SignalAt(i)' /\ \A j \in 1..Len(chan'["client"]) : j > i => ~ SignalAt(j)'
    BY <1>5 DEF LastSignal, On
  <2>2. i + 1 \in On("client") /\ SignalAt(i + 1)
    BY <1>3, <2>1 DEF SignalAt
  <2>3. ASSUME NEW j \in On("client"), j > i + 1, SignalAt(j)
        PROVE  FALSE
    <3>1. j > 1 /\ j - 1 > i
      BY <2>3 DEF On
    <3>2. j - 1 \in 1..Len(chan'["client"]) /\ SignalAt(j - 1)'
      BY <1>3, <2>3, <3>1 DEF SignalAt
    <3>3. QED
      BY <2>1, <3>1, <3>2
  <2>4. LastSignal(i + 1)
    BY <2>2, <2>3 DEF LastSignal
  <2>5. QED
    BY <1>3, <2>2, <2>4 DEF SignalInv
<1>6. ASSUME \A i \in 1..Len(chan'["client"]) : ~ SignalAt(i)'
      PROVE  running' => started
  <2>1. \A j \in On("client") : j > 1 => ~ SignalAt(j)
    BY <1>3, <1>6 DEF SignalAt
  <2>2. LastSignal(1)
    BY <1>2, <1>3, <2>1 DEF LastSignal, SignalAt
  <2>3. chan["client"][1].arg = started
    BY <1>3, <2>2 DEF SignalInv
  <2>4. CASE wired > 0
    <3>1. running' = Head(chan["client"]).arg
      BY <2>4 DEF ClientSignal
    <3>2. running' = started
      BY <1>3, <2>3, <3>1, Zenon
    <3>3. QED
      BY <3>2, Zenon
  <2>5. CASE ~ wired > 0
    <3>1. running' = running
      BY <2>5 DEF ClientSignal
    <3>2. ~ running
      BY <2>5 DEF GotInv, Live, PropertyInv
    <3>3. QED
      BY <3>1, <3>2, Zenon
  <2>6. QED
    BY <2>4, <2>5, Zenon
<1>7. QED
  BY <1>4, <1>5, <1>6

LEMMA SignalStep ==
    ASSUME LinkInv, PartsInv, PropertyInv, GotInv, CloseInv, SignalInv, NextClient \/ UNCHANGED allVars
    PROVE  SignalInv'
<1> DEFINE K == {"signal"}
<1>0. Chans /\ K \cap {"PROTOCOL", "AUTH", "START", "ERROR", "binary"} = {}
  BY DEF LinkInv
<1>1. ASSUME ~ Connects
      PROVE  Live' => Live
  BY <1>1, CloseStep
<1>2. ASSUME ~ Connects, NEW d \in {0, 1}, Shifts(d, K, {}), UNCHANGED <<session, started, running>>,
             "manager" \in listens => "manager" \in listens'
      PROVE  SignalInv'
  BY <1>0, <1>1, <1>2, ShiftKeepsSignals
<1>3. CASE Connects
  <2>1. /\ session' = session + 1 /\ running' = running
        /\ chan'["client"] = <<Frame("PROTOCOL", ServerVersion)>> /\ session \in Nat
    BY <1>3, Peers DEF Connects, initilizeReplica, LinkInv, LinkTypeOK
  <2>2. Len(chan'["client"]) = 1 /\ chan'["client"][1] = Frame("PROTOCOL", ServerVersion)
    BY <2>1, FewAre
  <2>3. \A i \in 1..Len(chan'["client"]) : ~ SignalAt(i)'
    BY <2>2, FramesAre DEF SignalAt
  <2>4. session' = 1 => ~ running'
    BY <2>1 DEF GotInv
  <2>5. QED
    BY <2>3, <2>4 DEF SignalInv, LastSignal, On
<1>4. CASE ~ Connects
 <2> USE <1>4
 <2>1. CASE networkTurns
   BY <1>1, <2>1, TurnKeepsSignals
 <2>2. CASE ClientSignal
   BY <1>1, <2>2, HeardKeepsSignals
 <2>3. CASE ClientChanged \/ ClientReply
   <3>1. Shifts(1, K, {})
     <4>1. \E cmd \in {"changed", "reply", "signal"} : cmd \notin K /\ Takes("client", cmd) /\ Sends("client", <<>>)
       BY <2>3 DEF ClientChanged, ClientReply
     <4>2. QED
       BY <1>0, <4>1, TakesShift
   <3>2. UNCHANGED <<session, started, running, listens>>
     BY <2>3 DEF ClientChanged, ClientReply, linkVars, daemonVars, signalVars
   <3>3. QED
     BY <1>2, <3>1, <3>2
 <2>4. CASE ClientText /\ UNCHANGED clientVars
   <3>1. Shifts(1, K, {})
     BY <1>0, <2>4, TakesShift
   <3>2. UNCHANGED <<session, started, running, listens>>
     BY <2>4 DEF ClientText, clientVars, daemonVars, signalVars
   <3>3. QED
     BY <1>2, <3>1, <3>2
 <2>5. CASE ClientGets
   <3>1. Shifts(1, K, {})
     BY <1>0, <2>5, TakesShift DEF ClientGets
   <3>2. UNCHANGED <<session, started, running, listens>>
     BY <2>5 DEF ClientGets, ClientBinary, daemonVars, signalVars
   <3>3. QED
     BY <1>2, <3>1, <3>2
 <2>6. CASE (ServerText \/ ServerBinary) /\ UNCHANGED clientVars
   <3>1. Shifts(0, K, {})
     BY <1>0, <2>6, GivesShift
   <3>2. UNCHANGED <<session, started, running, listens>>
     BY <2>6 DEF ServerText, ServerBinary, clientVars, daemonVars, signalVars
   <3>3. QED
     BY <1>2, <3>1, <3>2
 <2>7. ASSUME NEW p \in Parts, ServerSends(p)
       PROVE  SignalInv'
   <3>1. Post("client", Binary(p)) /\ UNCHANGED <<session, started, running>> /\ listens' = listens \cup {p}
     BY <2>7 DEF ServerSends, ServerSendsPart, Post, signalVars
   <3>2. ~ Of(Binary(p), K, {})
     BY FramesAre DEF Of
   <3>3. Shifts(0, K, {})
     BY <1>0, <3>1, <3>2, GivesShift
   <3>4. QED
     BY <1>2, <3>1, <3>3
 <2>8. ASSUME NEW frames, Given("client", frames), frames = <<>> \/ \E f : frames = <<f>> /\ f.cmd = "changed"
       PROVE  Shifts(0, K, {})
   <3>1. IsSequence(frames) /\ \A k \in 1..Len(frames) : frames[k].cmd = "changed"
     <4>1. CASE frames = <<>>
       BY <4>1, FewAre
     <4>2. CASE \E f : frames = <<f>> /\ f.cmd = "changed"
       <5>1. PICK f : frames = <<f>> /\ f.cmd = "changed"
         BY <4>2
       <5>2. IsSequence(frames) /\ Len(frames) = 1 /\ frames[1] = f
         BY <5>1, FewAre
       <5>3. QED
         BY <5>1, <5>2
     <4>3. QED
       BY <2>8, <4>1, <4>2
   <3>2. \A k \in 1..Len(frames) : ~ Of(frames[k], K, {})
     BY <3>1 DEF Of
   <3>3. QED
     BY <1>0, <2>8, <3>1, <3>2, GivenShifts
 <2>9. CASE ServerSet \/ \E o \in Options : \E d \in DataOf[o] : daemonSets(o, d)
   <3>1. \E frames : Given("client", frames) /\ (frames = <<>> \/ \E f : frames = <<f>> /\ f.cmd = "changed")
     <4>1. \E o, d : Setting(o, d)
       BY <1>0, <2>9, ChangesGiven
     <4>2. PICK o, d : Given("client", Changed(o, d))
       BY <4>1 DEF Setting
     <4>3. Changed(o, d) = <<>> \/ \E f : Changed(o, d) = <<f>> /\ f.cmd = "changed"
       <5>1. PICK f : f = Frame("changed", [name |-> o, value |-> d])
         OBVIOUS
       <5>2. f.cmd = "changed" /\ (Changed(o, d) = <<>> \/ Changed(o, d) = <<f>>)
         BY <5>1, ToldAre, FramesAre
       <5>3. QED
         BY <5>2, Zenon
     <4>4. QED
       BY <4>2, <4>3
   <3>2. UNCHANGED <<session, started, running, listens>>
     BY <2>9 DEF ServerSet, daemonSets, linkVars, signalVars
   <3>3. QED
     BY <1>2, <2>8, <3>1, <3>2
 <2>10. CASE ServerInvoke
   <3>1. Shifts(0, K, {})
     <4>1. PICK f : f.cmd = "reply" /\ Sends("server", <<f>>)
       BY <2>10, FramesAre DEF ServerInvoke
     <4>2. ~ Of(f, K, {}) /\ Arrives("server")
       BY <2>10, <4>1 DEF Of, ServerInvoke, Takes
     <4>3. QED
       BY <1>0, <4>1, <4>2, GivesShift
   <3>2. UNCHANGED <<session, started, running, listens>>
     BY <2>10 DEF ServerInvoke, linkVars, signalVars
   <3>3. QED
     BY <1>2, <3>1, <3>2
 <2>11. CASE \/ \E o \in Options : \E d \in DataOf[o] : clientSets(o, d)
             \/ \E k \in Kinds : call(k)
             \/ returns \/ UNCHANGED allVars
   <3>1. Shifts(0, K, {})
     <4>1. (\E f : Post("server", f)) \/ chan'["client"] = chan["client"]
       BY <2>11 DEF clientSets, call, returns, allVars, vars, ends
     <4>2. QED
       BY <1>0, <4>1, GivesShift
   <3>2. UNCHANGED <<session, started, running, listens>>
     BY <2>11 DEF clientSets, call, returns, linkVars, daemonVars, signalVars, allVars, vars, clientVars
   <3>3. QED
     BY <1>2, <3>1, <3>2
 <2>12. CASE Drop \/ (\E s \in Sides : Closed(s) \/ GetsClose(s))
   <3>1. ~ Live'
     BY <1>1, <2>12, EndsLive
   <3>2. QED
     BY <3>1 DEF SignalInv
 <2>13. QED
   BY <2>1, <2>2, <2>3, <2>4, <2>5, <2>6, <2>7, <2>9, <2>10, <2>11, <2>12, Peers
      DEF NextClient, ClientTakes, ServerTakes
<1>5. QED
  BY <1>3, <1>4

-----------------------------------------------------------------------------
(* Options: the last change on the way tells what the property is.         *)

LastChange(i, o) == ChangeAt(i, o) /\ \A j \in On("client") : j > i => ~ ChangeAt(j, o)

\* What the client has, or will have when the options part arrives.
Copy(o) == IF "options" \in received THEN shown[o] ELSE packed[o]

OptionInv ==
    Live =>
      /\ \A i \in On("client") : chan["client"][i].cmd = "changed" => "options" \in listens
      /\ (\E i \in On("client") : PartAt("client", i, "options")) \/ "options" \in received <=> "options" \in listens
      /\ \A i, j \in On("client") : PartAt("client", i, "options") /\ chan["client"][j].cmd = "changed" => i < j
      /\ "options" \in listens => \A o \in Options :
           /\ \A i \in On("client") : LastChange(i, o) => chan["client"][i].arg.value = property[o]
           /\ (\A i \in On("client") : ~ ChangeAt(i, o)) => property[o] = Copy(o)

LEMMA OfOptions ==
    \A f : Of(f, {"changed"}, {"options"}) <=> f.cmd = "changed" \/ (f.cmd = "binary" /\ f.arg = "options")
BY DEF Of

\* What becomes of the changes when frames leave and others come.
LEMMA ShiftedChanges ==
    ASSUME Chans, NEW d \in {0, 1}, Shifts(d, {"changed"}, {}), NEW o
    PROVE  /\ \A i \in 1..Len(chan'["client"]) : ChangeAt(i, o)' =>
                i + d \in On("client") /\ chan'["client"][i] = chan["client"][i + d] /\ ChangeAt(i + d, o)
           /\ \A i \in 1..Len(chan'["client"]) : LastChange(i, o)' => LastChange(i + d, o)
           /\ (\A i \in 1..Len(chan'["client"]) : ~ ChangeAt(i, o)') => \A i \in On("client") : ~ ChangeAt(i, o)
<1>1. \A f : Of(f, {"changed"}, {}) <=> f.cmd = "changed"
  BY DEF Of
<1>2. \A i \in 1..Len(chan'["client"]) : ChangeAt(i, o)' =>
        i + d \in On("client") /\ chan'["client"][i] = chan["client"][i + d] /\ ChangeAt(i + d, o)
  BY <1>1 DEF Shifts, ChangeAt
<1>3. \A i \in On("client") : ChangeAt(i, o) => i - d \in 1..Len(chan'["client"]) /\ ChangeAt(i - d, o)'
  BY <1>1 DEF Shifts, ChangeAt
<1>4. ASSUME NEW i \in 1..Len(chan'["client"]), LastChange(i, o)'
      PROVE  LastChange(i + d, o)
  <2>1. ChangeAt(i, o)' /\ \A j \in 1..Len(chan'["client"]) : j > i => ~ ChangeAt(j, o)'
    BY <1>4 DEF LastChange, On
  <2>2. ASSUME NEW j \in On("client"), j > i + d, ChangeAt(j, o)
        PROVE  FALSE
    <3>1. j - d \in 1..Len(chan'["client"]) /\ ChangeAt(j - d, o)'
      BY <1>3, <2>2
    <3>2. j - d > i
      BY <2>2 DEF On
    <3>3. QED
      BY <2>1, <3>1, <3>2
  <2>3. QED
    BY <1>2, <2>1, <2>2 DEF LastChange
<1>5. QED
  BY <1>2, <1>3, <1>4

LEMMA ShiftKeepsOptions ==
    ASSUME Chans, OptionInv, NEW d \in {0, 1}, Shifts(d, {"changed"}, {"options"}), Live' => Live,
           UNCHANGED <<property, packed, shown>>,
           "options" \in listens <=> "options" \in listens', "options" \in received <=> "options" \in received'
    PROVE  OptionInv'
<1> SUFFICES ASSUME Live
             PROVE  /\ \A i \in 1..Len(chan'["client"]) : chan'["client"][i].cmd = "changed" => "options" \in listens
                    /\ (\E i \in 1..Len(chan'["client"]) : PartAt("client", i, "options")') \/ "options" \in received
                         <=> "options" \in listens
                    /\ \A i, j \in 1..Len(chan'["client"]) :
                         PartAt("client", i, "options")' /\ chan'["client"][j].cmd = "changed" => i < j
                    /\ "options" \in listens => \A o \in Options :
                         /\ \A i \in 1..Len(chan'["client"]) : LastChange(i, o)' => chan'["client"][i].arg.value = property[o]
                         /\ (\A i \in 1..Len(chan'["client"]) : ~ ChangeAt(i, o)') => property[o] = Copy(o)
  BY DEF OptionInv, On, Copy
<1>1. Shifts(d, {"changed"}, {})
  BY OfOptions DEF Shifts, Of
<1>2. /\ \A i \in 1..Len(chan'["client"]) : chan'["client"][i].cmd = "changed" =>
           i + d \in On("client") /\ chan["client"][i + d].cmd = "changed"
      /\ \A i \in 1..Len(chan'["client"]) : PartAt("client", i, "options")' =>
           i + d \in On("client") /\ PartAt("client", i + d, "options")
      /\ \A i \in On("client") : PartAt("client", i, "options") =>
           i - d \in 1..Len(chan'["client"]) /\ PartAt("client", i - d, "options")'
  BY OfOptions DEF Shifts, PartAt
<1>3. \A i \in 1..Len(chan'["client"]) : chan'["client"][i].cmd = "changed" => "options" \in listens
  BY <1>2 DEF OptionInv
<1>4. (\E i \in 1..Len(chan'["client"]) : PartAt("client", i, "options")') <=>
        \E i \in On("client") : PartAt("client", i, "options")
  BY <1>2
<1>5. ASSUME NEW i \in 1..Len(chan'["client"]), NEW j \in 1..Len(chan'["client"]),
             PartAt("client", i, "options")', chan'["client"][j].cmd = "changed"
      PROVE  i < j
  <2>1. i + d < j + d
    BY <1>2, <1>5 DEF OptionInv
  <2>2. QED
    BY <2>1
<1>6. ASSUME "options" \in listens, NEW o \in Options
      PROVE  /\ \A i \in 1..Len(chan'["client"]) : LastChange(i, o)' => chan'["client"][i].arg.value = property[o]
             /\ (\A i \in 1..Len(chan'["client"]) : ~ ChangeAt(i, o)') => property[o] = Copy(o)
  <2>1. \A i \in 1..Len(chan'["client"]) : LastChange(i, o)' => ChangeAt(i, o)'
    BY DEF LastChange
  <2>2. /\ \A i \in 1..Len(chan'["client"]) : ChangeAt(i, o)' =>
             i + d \in On("client") /\ chan'["client"][i] = chan["client"][i + d] /\ ChangeAt(i + d, o)
        /\ \A i \in 1..Len(chan'["client"]) : LastChange(i, o)' => LastChange(i + d, o)
        /\ (\A i \in 1..Len(chan'["client"]) : ~ ChangeAt(i, o)') => \A i \in On("client") : ~ ChangeAt(i, o)
    BY <1>1, ShiftedChanges
  <2>3. /\ \A i \in On("client") : LastChange(i, o) => chan["client"][i].arg.value = property[o]
        /\ (\A i \in On("client") : ~ ChangeAt(i, o)) => property[o] = Copy(o)
    BY <1>6 DEF OptionInv
  <2>4. \A i \in 1..Len(chan'["client"]) : LastChange(i, o)' => chan'["client"][i].arg.value = property[o]
    BY <2>1, <2>2, <2>3
  <2>5. QED
    BY <2>2, <2>3, <2>4
<1>7. QED
  BY <1>3, <1>4, <1>5, <1>6 DEF OptionInv

\* A property that is set: the client that has the part, or will have it, is told.
LEMMA SettingKeepsOptions ==
    ASSUME LinkInv, PropertyInv, OptionInv, NEW o \in Options, NEW d, Setting(o, d), Live' => Live,
           UNCHANGED <<packed, shown, listens, received>>
    PROVE  OptionInv'
<1>1. Chans /\ SetsProperty(o, d) /\ Given("client", Changed(o, d))
  BY DEF Setting, LinkInv
<1>2. CASE property[o] = d \/ "options" \notin listens
  <2>1. PICK none : none = <<>>
    OBVIOUS
  <2>2. IsSequence(none) /\ Len(none) = 0 /\ Given("client", none)
    BY <1>1, <1>2, <2>1, FewAre DEF Changed, Told
  <2>3. Shifts(0, {"changed"}, {"options"})
    BY <1>1, <2>2, GivenShifts
  <2>4. CASE property[o] = d
    <3>1. property' = property
      BY <1>1, <2>4 DEF SetsProperty
    <3>2. QED
      BY <1>1, <2>3, <3>1, ShiftKeepsOptions
  <2>5. CASE "options" \notin listens
    <3>1. /\ \A i \in 1..Len(chan'["client"]) : chan'["client"][i].cmd = "changed" =>
               i + 0 \in On("client") /\ chan["client"][i + 0].cmd = "changed"
          /\ \A i \in 1..Len(chan'["client"]) : PartAt("client", i, "options")' =>
               i + 0 \in On("client") /\ PartAt("client", i + 0, "options")
      BY <2>3, OfOptions DEF Shifts, PartAt
    <3>2. Live => /\ \A i \in On("client") : chan["client"][i].cmd # "changed" /\ ~ PartAt("client", i, "options")
                  /\ "options" \notin received
      BY <2>5 DEF OptionInv
    <3>3. Live => \A i \in 1..Len(chan'["client"]) : chan'["client"][i].cmd # "changed" /\ ~ PartAt("client", i, "options")'
      BY <3>1, <3>2
    <3>4. QED
      BY <2>5, <3>2, <3>3 DEF OptionInv, On
  <2>6. QED
    BY <1>2, <2>4, <2>5
<1>3. CASE property[o] # d /\ "options" \in listens
  <2>1. property' = [property EXCEPT ![o] = d] /\ DOMAIN property = Options
    BY <1>1, <1>3 DEF SetsProperty, PropertyInv
  <2>2. PICK arg : arg = [name |-> o, value |-> d]
    OBVIOUS
  <2>3. PICK f : f = Frame("changed", arg)
    OBVIOUS
  <2>4. f.cmd = "changed" /\ f.arg = arg /\ arg.name = o /\ arg.value = d
    BY <2>2, <2>3, FramesAre
  <2>5. Given("client", <<f>>)
    BY <1>1, <1>3, <2>2, <2>3 DEF Changed, Told
  <2> SUFFICES ASSUME Live
               PROVE  /\ \A i \in 1..Len(chan'["client"]) : chan'["client"][i].cmd = "changed" => "options" \in listens
                      /\ (\E i \in 1..Len(chan'["client"]) : PartAt("client", i, "options")') \/ "options" \in received
                           <=> "options" \in listens
                      /\ \A i, j \in 1..Len(chan'["client"]) :
                           PartAt("client", i, "options")' /\ chan'["client"][j].cmd = "changed" => i < j
                      /\ "options" \in listens => \A n \in Options :
                           /\ \A i \in 1..Len(chan'["client"]) : LastChange(i, n)' => chan'["client"][i].arg.value = property'[n]
                           /\ (\A i \in 1..Len(chan'["client"]) : ~ ChangeAt(i, n)') => property'[n] = Copy(n)
    BY DEF OptionInv, On, Copy
  <2> PICK m : m = Len(chan["client"]) + 1
    OBVIOUS
  <2>6. /\ \A i \in 1..Len(chan'["client"]) : \/ i \in On("client") /\ chan'["client"][i] = chan["client"][i]
                                              \/ i = m /\ chan'["client"][i] = f
        /\ \A i \in On("client") : i \in 1..Len(chan'["client"]) /\ chan'["client"][i] = chan["client"][i]
        /\ m \in 1..Len(chan'["client"]) /\ chan'["client"][m] = f
        /\ \A i \in On("client") : i < m
    <3>1. Len(chan["client"]) \in Nat /\ socket["client"] # "closed"
      BY <1>1, SequenceHas, Peers DEF Chans, Live
    <3>2. /\ \A i \in 1..Len(chan'["client"]) : \/ i \in On("client") /\ chan'["client"][i] = chan["client"][i]
                                                \/ i = m /\ chan'["client"][i] = f
          /\ \A i \in On("client") : i \in 1..Len(chan'["client"]) /\ chan'["client"][i] = chan["client"][i]
          /\ m \in 1..Len(chan'["client"]) /\ chan'["client"][m] = f
      BY <1>1, <2>5, <3>1, GivenOne, Peers
    <3>3. \A i \in On("client") : i < m
      BY <3>1 DEF On
    <3>4. QED
      BY <3>2, <3>3
  <2>7. \A i \in 1..Len(chan'["client"]) : PartAt("client", i, "options")' => i \in On("client") /\ PartAt("client", i, "options")
    BY <2>4, <2>6 DEF PartAt
  <2>8. \A i \in On("client") : PartAt("client", i, "options") => i \in 1..Len(chan'["client"]) /\ PartAt("client", i, "options")'
    BY <2>6 DEF PartAt
  <2>9. \A i, j \in 1..Len(chan'["client"]) : PartAt("client", i, "options")' /\ chan'["client"][j].cmd = "changed" => i < j
    BY <2>6, <2>7 DEF OptionInv
  <2>10. ChangeAt(m, o)'
    BY <2>4, <2>6 DEF ChangeAt
  <2>11. ASSUME NEW i \in 1..Len(chan'["client"]), LastChange(i, o)'
         PROVE  chan'["client"][i].arg.value = property'[o]
    <3>1. ~ m > i
      BY <2>6, <2>10, <2>11 DEF LastChange, On
    <3>2. chan'["client"][i] = f
      BY <2>6, <3>1 DEF On
    <3>3. QED
      BY <2>1, <2>4, <3>2
  <2>12. ASSUME NEW n \in Options, n # o
         PROVE  /\ \A i \in 1..Len(chan'["client"]) : LastChange(i, n)' => chan'["client"][i].arg.value = property'[n]
                /\ (\A i \in 1..Len(chan'["client"]) : ~ ChangeAt(i, n)') => property'[n] = Copy(n)
    <3>1. \A i \in 1..Len(chan'["client"]) : ChangeAt(i, n)' => i \in On("client") /\ ChangeAt(i, n)
      BY <2>4, <2>6, <2>12 DEF ChangeAt
    <3>2. \A i \in On("client") : ChangeAt(i, n) => i \in 1..Len(chan'["client"]) /\ ChangeAt(i, n)'
      BY <2>6 DEF ChangeAt
    <3>3. \A i \in 1..Len(chan'["client"]) : LastChange(i, n)' => i \in On("client") /\ LastChange(i, n)
      BY <3>1, <3>2 DEF LastChange, On
    <3>4. property'[n] = property[n]
      BY <2>1, <2>12
    <3>5. \A i \in 1..Len(chan'["client"]) : LastChange(i, n)' => chan'["client"][i].arg.value = property[n]
      BY <1>3, <2>6, <3>3 DEF OptionInv
    <3>6. (\A i \in 1..Len(chan'["client"]) : ~ ChangeAt(i, n)') => property[n] = Copy(n)
      BY <1>3, <3>2 DEF OptionInv
    <3>7. QED
      BY <3>4, <3>5, <3>6
  <2>13. ~ \A i \in 1..Len(chan'["client"]) : ~ ChangeAt(i, o)'
    BY <2>6, <2>10
  <2>14. (\E i \in 1..Len(chan'["client"]) : PartAt("client", i, "options")') <=>
           \E i \in On("client") : PartAt("client", i, "options")
    BY <2>7, <2>8
  <2>15. \A n \in Options :
           /\ \A i \in 1..Len(chan'["client"]) : LastChange(i, n)' => chan'["client"][i].arg.value = property'[n]
           /\ (\A i \in 1..Len(chan'["client"]) : ~ ChangeAt(i, n)') => property'[n] = Copy(n)
    BY <2>11, <2>12, <2>13
  <2>16. QED
    BY <1>3, <2>9, <2>14, <2>15 DEF OptionInv
<1>4. QED
  BY <1>2, <1>3

\* The change taken is the one shown last, unless others follow.
LEMMA ShownKeepsOptions ==
    ASSUME LinkInv, PropertyInv, OptionInv, ClientChanged, Live' => Live
    PROVE  OptionInv'
<1>1. Chans /\ UNCHANGED <<received, property, listens, packed>>
  BY DEF ClientChanged, linkVars, replica, LinkInv, daemonVars
<1> PICK a : a = Head(chan["client"]).arg
  OBVIOUS
<1>2. /\ chan["client"] # <<>> /\ Taken("client") /\ Head(chan["client"]).cmd = "changed"
      /\ shown' = [shown EXCEPT ![a.name] = a.value] /\ DOMAIN shown = Options
  BY <1>1, AnswerIs, FewAre, Peers DEF ClientChanged, Takes, PropertyInv
<1>3. /\ 1 \in On("client") /\ Head(chan["client"]) = chan["client"][1]
      /\ \A i \in 1..Len(chan'["client"]) :
           i + 1 \in On("client") /\ i + 1 > 1 /\ chan'["client"][i] = chan["client"][i + 1]
      /\ \A i \in On("client") : i > 1 =>
           i - 1 \in 1..Len(chan'["client"]) /\ chan'["client"][i - 1] = chan["client"][i]
  BY <1>1, <1>2, TakenFrames, Peers
<1> SUFFICES ASSUME Live
             PROVE  /\ \A i \in 1..Len(chan'["client"]) : chan'["client"][i].cmd = "changed" => "options" \in listens
                    /\ (\E i \in 1..Len(chan'["client"]) : PartAt("client", i, "options")') \/ "options" \in received
                         <=> "options" \in listens
                    /\ \A i, j \in 1..Len(chan'["client"]) :
                         PartAt("client", i, "options")' /\ chan'["client"][j].cmd = "changed" => i < j
                    /\ "options" \in listens => \A o \in Options :
                         /\ \A i \in 1..Len(chan'["client"]) : LastChange(i, o)' => chan'["client"][i].arg.value = property[o]
                         /\ (\A i \in 1..Len(chan'["client"]) : ~ ChangeAt(i, o)') => property[o] = Copy(o)'
  BY <1>1 DEF OptionInv, On
<1>4. "options" \in listens
  BY <1>2, <1>3 DEF OptionInv
<1>5. \A i \in On("client") : ~ PartAt("client", i, "options")
  <2> TAKE i \in On("client")
  <2> SUFFICES ASSUME PartAt("client", i, "options")
               PROVE  FALSE
    OBVIOUS
  <2>1. i < 1
    BY <1>2, <1>3 DEF OptionInv
  <2>2. QED
    BY <2>1 DEF On
<1>6. "options" \in received
  BY <1>4, <1>5 DEF OptionInv
<1>7. \A i \in 1..Len(chan'["client"]) : ~ PartAt("client", i, "options")'
  BY <1>3, <1>5 DEF PartAt
<1>8. ASSUME NEW o \in Options
      PROVE  /\ \A i \in 1..Len(chan'["client"]) : LastChange(i, o)' => chan'["client"][i].arg.value = property[o]
             /\ (\A i \in 1..Len(chan'["client"]) : ~ ChangeAt(i, o)') => property[o] = Copy(o)'
  <2>1. \A i \in 1..Len(chan'["client"]) : ChangeAt(i, o)' => i + 1 \in On("client") /\ ChangeAt(i + 1, o)
    BY <1>3 DEF ChangeAt
  <2>2. \A j \in On("client") : ChangeAt(j, o) /\ j > 1 => j - 1 \in 1..Len(chan'["client"]) /\ ChangeAt(j - 1, o)'
    BY <1>3 DEF ChangeAt
  <2>3. /\ \A i \in On("client") : LastChange(i, o) => chan["client"][i].arg.value = property[o]
        /\ (\A i \in On("client") : ~ ChangeAt(i, o)) => property[o] = Copy(o)
    BY <1>4 DEF OptionInv
  <2>4. ASSUME NEW i \in 1..Len(chan'["client"]), LastChange(i, o)'
        PROVE  chan'["client"][i].arg.value = property[o]
    <3>1. ChangeAt(i, o)' /\ \A j \in 1..Len(chan'["client"]) : j > i => ~ ChangeAt(j, o)'
      BY <2>4 DEF LastChange, On
    <3>2. ASSUME NEW j \in On("client"), j > i + 1, ChangeAt(j, o)
          PROVE  FALSE
      <4>1. j > 1 /\ j - 1 > i
        BY <3>2 DEF On
      <4>2. j - 1 \in 1..Len(chan'["client"]) /\ ChangeAt(j - 1, o)'
        BY <2>2, <3>2, <4>1
      <4>3. QED
        BY <3>1, <4>1, <4>2
    <3>3. i + 1 \in On("client") /\ LastChange(i + 1, o)
      BY <2>1, <3>1, <3>2 DEF LastChange
    <3>4. QED
      BY <1>3, <2>3, <3>3
  <2>5. ASSUME \A i \in 1..Len(chan'["client"]) : ~ ChangeAt(i, o)'
        PROVE  property[o] = Copy(o)'
    <3>1. \A j \in On("client") : j > 1 => ~ ChangeAt(j, o)
      BY <2>2, <2>5
    <3>2. Copy(o)' = shown'[o] /\ Copy(o) = shown[o]
      BY <1>1, <1>6 DEF Copy
    <3>3. CASE a.name = o
      <4>1. LastChange(1, o)
        BY <1>2, <1>3, <3>1, <3>3 DEF LastChange, ChangeAt
      <4>2. a.value = property[o]
        BY <1>3, <2>3, <4>1
      <4>3. QED
        BY <1>2, <3>2, <3>3, <4>2
    <3>4. CASE a.name # o
      <4>1. \A j \in On("client") : j = 1 \/ j > 1
        BY DEF On
      <4>2. ~ ChangeAt(1, o)
        BY <1>3, <3>4 DEF ChangeAt
      <4>3. property[o] = Copy(o)
        BY <2>3, <3>1, <4>1, <4>2
      <4>4. QED
        BY <1>2, <3>2, <3>4, <4>3
    <3>5. QED
      BY <3>3, <3>4
  <2>6. QED
    BY <2>4, <2>5
<1>9. QED
  BY <1>4, <1>6, <1>7, <1>8

\* The options part takes the properties as they are when it is sent.
LEMMA SentKeepsOptions ==
    ASSUME LinkInv, PartsInv, PropertyInv, OptionInv, ServerSends("options"), Live' => Live
    PROVE  OptionInv'
<1>1. /\ Chans /\ Post("client", Binary("options"))
      /\ "options" \in owed
      /\ UNCHANGED <<received, property, shown>> /\ packed' = property /\ listens' = listens \cup {"options"}
  BY DEF ServerSends, ServerSendsPart, replica, LinkInv, Post
<1> SUFFICES ASSUME Live
             PROVE  /\ \A i \in 1..Len(chan'["client"]) : chan'["client"][i].cmd = "changed" => "options" \in listens'
                    /\ (\E i \in 1..Len(chan'["client"]) : PartAt("client", i, "options")') \/ "options" \in received'
                         <=> "options" \in listens'
                    /\ \A i, j \in 1..Len(chan'["client"]) :
                         PartAt("client", i, "options")' /\ chan'["client"][j].cmd = "changed" => i < j
                    /\ "options" \in listens' => \A o \in Options :
                         /\ \A i \in 1..Len(chan'["client"]) : LastChange(i, o)' => chan'["client"][i].arg.value = property'[o]
                         /\ (\A i \in 1..Len(chan'["client"]) : ~ ChangeAt(i, o)') => property'[o] = Copy(o)'
  BY DEF OptionInv, On
<1>2. "options" \notin received /\ \A i \in On("client") : ~ PartAt("client", i, "options")
  BY <1>1 DEF PartsInv
<1>3. "options" \notin listens /\ \A i \in On("client") : chan["client"][i].cmd # "changed"
  BY <1>2 DEF OptionInv
<1> PICK f : f = Binary("options")
  OBVIOUS
<1>4. f.cmd = "binary" /\ f.arg = "options"
  BY FramesAre
<1>5. Given("client", <<f>>)
  BY <1>1, PostIs, Peers
<1>6. /\ \A i \in 1..Len(chan'["client"]) : \/ i \in On("client") /\ chan'["client"][i] = chan["client"][i]
                                            \/ chan'["client"][i] = f
      /\ \E i \in 1..Len(chan'["client"]) : chan'["client"][i] = f
  BY <1>1, <1>5, GivenOne, Peers DEF Live
<1>7. \A i \in 1..Len(chan'["client"]) : chan'["client"][i].cmd # "changed"
  BY <1>3, <1>4, <1>6
<1>8. \E i \in 1..Len(chan'["client"]) : PartAt("client", i, "options")'
  BY <1>4, <1>6 DEF PartAt
<1>9. \A i, o : i \in 1..Len(chan'["client"]) => ~ ChangeAt(i, o)' /\ ~ LastChange(i, o)'
  BY <1>7 DEF ChangeAt, LastChange
<1>10. \A o \in Options : property'[o] = Copy(o)'
  BY <1>1, <1>2 DEF Copy
<1>11. QED
  BY <1>1, <1>7, <1>8, <1>9, <1>10

\* What arrives is shown: changes that follow it are made to it.
LEMMA ArrivedKeepsOptions ==
    ASSUME LinkInv, PartsInv, PropertyInv, OptionInv, ClientGets, Live' => Live
    PROVE  OptionInv'
<1> PICK p : p = Head(chan["client"]).arg
  OBVIOUS
<1>1. /\ Arrives("client") /\ chan["client"] # <<>> /\ 1 \in On("client")
      /\ Head(chan["client"]) = chan["client"][1] /\ chan["client"][1].cmd = "binary"
      /\ stage["client"] = "Authenticated" /\ p \in Parts \cup {"objects"}
  BY BinaryIs, Peers DEF ClientGets, ClientBinary
<1>2. Chans /\ UNCHANGED <<property, listens>>
  BY DEF ClientGets, daemonVars, LinkInv
<1>3. "options" # "objects"
  BY RemoteLinkAssumption, RemoteClientAssumption
<1>4. CASE p # "options"
  <2>1. UNCHANGED <<shown, packed>> /\ ("options" \in received <=> "options" \in received')
    BY <1>1, <1>4 DEF ClientGets, ClientBinary, shownVars, replica
  <2>2. Shifts(1, {"changed"}, {"options"})
    BY <1>4, TakesShift DEF ClientGets
  <2>3. QED
    BY <1>2, <2>1, <2>2, ShiftKeepsOptions
<1>5. CASE p = "options"
  <2>1. /\ shown' = packed /\ received' = received \cup {"options"} /\ Sends("client", <<>>)
    BY <1>1, <1>3, <1>5 DEF ClientGets, ClientBinary
  <2>2. Taken("client")
    BY <1>1, <1>2, <2>1, AnswerIs, FewAre, Peers
  <2>3. ~ Of(Head(chan["client"]), {"changed"}, {})
    BY <1>1 DEF Of
  <2>4. Shifts(1, {"changed"}, {})
    BY <1>1, <1>2, <2>2, <2>3, TakenShifts
  <2>5. \A i \in 1..Len(chan'["client"]) :
          i + 1 \in On("client") /\ i + 1 > 1 /\ chan'["client"][i] = chan["client"][i + 1]
    BY <1>1, <1>2, <2>2, TakenFrames, Peers
  <2>6. PartAt("client", 1, "options")
    BY <1>1, <1>5 DEF PartAt
  <2>7. ASSUME NEW i \in 1..Len(chan'["client"])
        PROVE  ~ PartAt("client", i, "options")'
    <3>1. PartAt("client", i, "options")' => PartAt("client", i + 1, "options")
      BY <2>5 DEF PartAt
    <3>2. ~ PartAt("client", i + 1, "options")
      BY <1>1, <2>5, <2>6 DEF PartsInv
    <3>3. QED
      BY <3>1, <3>2
  <2>8. "options" \notin received
    BY <1>1, <2>6 DEF PartsInv
  <2> SUFFICES ASSUME Live
               PROVE  /\ \A i \in 1..Len(chan'["client"]) : chan'["client"][i].cmd = "changed" => "options" \in listens
                      /\ "options" \in listens
                      /\ \A o \in Options :
                           /\ \A i \in 1..Len(chan'["client"]) : LastChange(i, o)' => chan'["client"][i].arg.value = property[o]
                           /\ (\A i \in 1..Len(chan'["client"]) : ~ ChangeAt(i, o)') => property[o] = packed[o]
    <3>1. \A o : Copy(o)' = packed[o]
      BY <2>1 DEF Copy
    <3>2. QED
      BY <1>2, <2>1, <2>7, <3>1 DEF OptionInv, On
  <2>9. "options" \in listens
    BY <1>1, <2>6 DEF OptionInv
  <2>10. ASSUME NEW o \in Options
         PROVE  /\ \A i \in 1..Len(chan'["client"]) : LastChange(i, o)' => chan'["client"][i].arg.value = property[o]
                /\ (\A i \in 1..Len(chan'["client"]) : ~ ChangeAt(i, o)') => property[o] = packed[o]
    <3>1. \A i \in 1..Len(chan'["client"]) : LastChange(i, o)' => ChangeAt(i, o)'
      BY DEF LastChange
    <3>2. /\ \A i \in 1..Len(chan'["client"]) : LastChange(i, o)' => LastChange(i + 1, o)
          /\ (\A i \in 1..Len(chan'["client"]) : ~ ChangeAt(i, o)') => \A i \in On("client") : ~ ChangeAt(i, o)
      BY <1>2, <2>4, ShiftedChanges
    <3>3. /\ \A i \in On("client") : LastChange(i, o) => chan["client"][i].arg.value = property[o]
          /\ (\A i \in On("client") : ~ ChangeAt(i, o)) => property[o] = packed[o]
      BY <2>8, <2>9 DEF OptionInv, Copy
    <3>4. \A i \in 1..Len(chan'["client"]) : LastChange(i, o)' => chan'["client"][i].arg.value = property[o]
      BY <2>5, <3>2, <3>3
    <3>5. QED
      BY <3>2, <3>3, <3>4
  <2>11. QED
    BY <2>9, <2>10
<1>6. QED
  BY <1>4, <1>5

LEMMA OptionStep ==
    ASSUME LinkInv, PartsInv, PropertyInv, CloseInv, OptionInv, NextClient \/ UNCHANGED allVars
    PROVE  OptionInv'
<1> DEFINE K == {"changed"}
           P == {"options"}
<1>0. /\ Chans /\ K \cap {"PROTOCOL", "AUTH", "START", "ERROR", "binary"} = {}
      /\ "objects" \notin P
  BY RemoteLinkAssumption, RemoteClientAssumption DEF LinkInv
<1>1. ASSUME ~ Connects
      PROVE  Live' => Live
  BY <1>1, CloseStep
<1>2. ASSUME ~ Connects, NEW d \in {0, 1}, Shifts(d, K, P), UNCHANGED <<property, packed, shown, received, listens>>
      PROVE  OptionInv'
  BY <1>0, <1>1, <1>2, ShiftKeepsOptions
<1>3. CASE Connects
  <2>1. /\ received' = {} /\ listens' = {}
        /\ chan'["client"] = <<Frame("PROTOCOL", ServerVersion)>>
    BY <1>3, Peers DEF Connects, initilizeReplica
  <2>2. Len(chan'["client"]) = 1 /\ chan'["client"][1] = Frame("PROTOCOL", ServerVersion)
    BY <2>1, FewAre
  <2>3. \A i \in 1..Len(chan'["client"]) : chan'["client"][i].cmd # "changed" /\ ~ PartAt("client", i, "options")'
    BY <2>2, FramesAre DEF PartAt
  <2>4. QED
    BY <2>1, <2>3 DEF OptionInv, On
<1>4. CASE ~ Connects
 <2> USE <1>4
 <2>1. CASE ServerSet \/ \E o \in Options : \E d \in DataOf[o] : daemonSets(o, d)
   <3>1. PICK o, d : Setting(o, d)
     BY <1>0, <2>1, ChangesGiven
   <3>2. o \in Options
     <4>1. CASE ServerSet
       <5>1. Arrives("server")
         BY <4>1 DEF ServerSet, Takes
       <5>2. Head(chan["server"]) \in Frames("server")
         BY <5>1, HeadIs, Peers DEF Frames
       <5>3. Head(chan["server"]).cmd = "set" => Head(chan["server"]).arg.name \in Options
         BY <5>2 DEF PropertyInv
       <5>4. QED
         BY <3>1, <5>3 DEF Setting
     <4>2. CASE ~ ServerSet
       BY <3>1, <4>2 DEF Setting
     <4>3. QED
       BY <4>1, <4>2
   <3>3. UNCHANGED <<packed, shown, listens, received>>
     BY <2>1 DEF ServerSet, daemonSets, linkVars, replica, shownVars
   <3>4. QED
     BY <1>1, <3>1, <3>2, <3>3, SettingKeepsOptions
 <2>2. CASE ClientChanged
   BY <1>1, <2>2, ShownKeepsOptions
 <2>3. CASE ClientReply \/ ClientSignal
   <3>1. Shifts(1, K, P)
     <4>1. \E cmd \in {"changed", "reply", "signal"} : cmd \notin K /\ Takes("client", cmd) /\ Sends("client", <<>>)
       BY <2>3 DEF ClientSignal, ClientReply
     <4>2. QED
       BY <1>0, <4>1, TakesShift
   <3>2. UNCHANGED <<property, packed, shown, received, listens>>
     BY <2>3 DEF ClientSignal, ClientReply, linkVars, replica, daemonVars, shownVars
   <3>3. QED
     BY <1>2, <3>1, <3>2
 <2>4. CASE ClientText /\ UNCHANGED clientVars
   <3>1. Shifts(1, K, P)
     BY <1>0, <2>4, TakesShift
   <3>2. UNCHANGED <<property, packed, shown, received, listens>>
     BY <2>4 DEF ClientText, clientVars, daemonVars, shownVars
   <3>3. QED
     BY <1>2, <3>1, <3>2
 <2>5. CASE ClientGets
   BY <1>1, <2>5, ArrivedKeepsOptions
 <2>6. CASE (ServerText \/ ServerBinary) /\ UNCHANGED clientVars
   <3>1. Shifts(0, K, P)
     BY <1>0, <2>6, GivesShift
   <3>2. UNCHANGED <<property, packed, shown, received, listens>>
     BY <2>6 DEF ServerText, ServerBinary, replica, clientVars, daemonVars, shownVars
   <3>3. QED
     BY <1>2, <3>1, <3>2
 <2>7. ASSUME NEW p \in Parts, ServerSends(p), p # "options"
       PROVE  OptionInv'
   <3>1. /\ Post("client", Binary(p)) /\ UNCHANGED <<property, packed, shown, received>>
         /\ ("options" \in listens <=> "options" \in listens')
     BY <2>7 DEF ServerSends, ServerSendsPart, Post, replica
   <3>2. ~ Of(Binary(p), K, P)
     BY <2>7, FramesAre DEF Of
   <3>3. Shifts(0, K, P)
     BY <1>0, <3>1, <3>2, GivesShift
   <3>4. "options" \in received <=> "options" \in received'
     BY <3>1
   <3>5. QED
     BY <1>0, <1>1, <3>1, <3>3, <3>4, ShiftKeepsOptions
 <2>8. CASE ServerSends("options")
   BY <1>1, <2>8, SentKeepsOptions
 <2>9. CASE ServerInvoke
   <3>1. Shifts(0, K, P)
     <4>1. PICK f : f.cmd = "reply" /\ Sends("server", <<f>>)
       BY <2>9, FramesAre DEF ServerInvoke
     <4>2. ~ Of(f, K, P) /\ Arrives("server")
       BY <2>9, <4>1 DEF Of, ServerInvoke, Takes
     <4>3. QED
       BY <1>0, <4>1, <4>2, GivesShift
   <3>2. UNCHANGED <<property, packed, shown, received, listens>>
     BY <2>9 DEF ServerInvoke, linkVars, replica, shownVars
   <3>3. QED
     BY <1>2, <3>1, <3>2
 <2>10. CASE networkTurns
   <3>1. PICK f : f = Frame("signal", started')
     OBVIOUS
   <3>2. PICK frames : frames = Told("manager", f)
     OBVIOUS
   <3>3. f.cmd = "signal"
     <4>1. \A b : Frame("signal", b).cmd = "signal"
       BY FramesAre
     <4>2. Frame("signal", started').cmd = "signal"
       BY <4>1, Zenon
     <4>3. QED
       BY <3>1, <4>2, Zenon
   <3>4. chan' = [chan EXCEPT !["client"] = IF socket["client"] = "closed" THEN @ ELSE @ \o frames]
     BY <2>10, <3>1, <3>2 DEF networkTurns
   <3>5. IsSequence(frames) /\ \A k \in 1..Len(frames) : frames[k] = f
     <4>1. CASE frames = <<>>
       BY <4>1, FewAre
     <4>2. CASE frames = <<f>>
       <5>1. IsSequence(frames) /\ Len(frames) = 1 /\ frames[1] = f
         BY <4>2, FewAre
       <5>2. QED
         BY <5>1
     <4>3. QED
       BY <3>2, <4>1, <4>2, ToldAre
   <3>6. Given("client", frames)
     BY <1>0, <3>4, <3>5, AddsIs, Peers
   <3>7. \A k \in 1..Len(frames) : ~ Of(frames[k], K, P)
     BY <3>3, <3>5 DEF Of
   <3>8. Shifts(0, K, P)
     BY <1>0, <3>5, <3>6, <3>7, GivenShifts
   <3>9. UNCHANGED <<property, packed, shown, received, listens>>
     BY <2>10 DEF networkTurns, linkVars, replica, shownVars
   <3>10. QED
     BY <1>2, <3>8, <3>9
 <2>11. CASE \/ \E o \in Options : \E d \in DataOf[o] : clientSets(o, d)
             \/ \E k \in Kinds : call(k)
             \/ returns \/ UNCHANGED allVars
   <3>1. Shifts(0, K, P)
     <4>1. (\E f : Post("server", f)) \/ chan'["client"] = chan["client"]
       BY <2>11 DEF clientSets, call, returns, allVars, vars, ends
     <4>2. QED
       BY <1>0, <4>1, GivesShift
   <3>2. UNCHANGED <<property, packed, shown, received, listens>>
     BY <2>11 DEF clientSets, call, returns, linkVars, replica, daemonVars, shownVars, allVars, vars, clientVars
   <3>3. QED
     BY <1>2, <3>1, <3>2
 <2>12. CASE Drop \/ (\E s \in Sides : Closed(s) \/ GetsClose(s))
   <3>1. ~ Live'
     BY <1>1, <2>12, EndsLive
   <3>2. QED
     BY <3>1 DEF OptionInv
 <2>13. QED
   BY <2>1, <2>2, <2>3, <2>4, <2>5, <2>6, <2>7, <2>8, <2>9, <2>10, <2>11, <2>12, Peers
      DEF NextClient, ClientTakes, ServerTakes
<1>5. QED
  BY <1>3, <1>4

-----------------------------------------------------------------------------
(* What a client that is ready may rely on.                                *)

\* The invariant of both programs: the link's, the calls', and what is on its
\* way to the client.
ReadyInv == ClientInv /\ PartsInv /\ GotInv /\ CloseInv /\ SignalInv /\ OptionInv

\* The whole invariant holds forever, for any number of sessions, calls and
\* changes, and wherever a connection ends.
THEOREM ReadyInductive == SpecClient => []ReadyInv
<1>1. InitClient => ReadyInv
  <2> SUFFICES ASSUME InitClient PROVE ReadyInv
    OBVIOUS
  <2>1. socket["client"] = "closed"
    BY Peers DEF InitClient, Init
  <2>2. CloseInv /\ SignalInv /\ OptionInv
    BY <2>1 DEF CloseInv, SignalInv, OptionInv, Live
  <2>3. QED
    BY <2>2, LinkInit, CallsInit, PropertyInit, PartsInit, GotInit DEF ReadyInv, ClientInv
<1>2. ReadyInv /\ [NextClient]_allVars => ReadyInv'
  <2> SUFFICES ASSUME ReadyInv, NextClient \/ UNCHANGED allVars
               PROVE  ReadyInv'
    OBVIOUS
  <2>1. ClientInv'
    BY LinkStep, LinkStutters, CallsStep, PropertyStep DEF ReadyInv, ClientInv
  <2>2. PartsInv' /\ GotInv' /\ CloseInv' /\ SignalInv' /\ OptionInv'
    BY PartsStep, GotStep, CloseStep, SignalStep, OptionStep DEF ReadyInv, ClientInv
  <2>3. QED
    BY <2>1, <2>2 DEF ReadyInv
<1>3. QED
  BY <1>1, <1>2, PTL DEF SpecClient

LEMMA NothingComing ==
    ASSUME ReadyInv, ready, NEW cmd, ~ Coming(cmd)
    PROVE  Live /\ \A i \in On("client") : chan["client"][i].cmd # cmd
BY DEF ReadyInv, GotInv, Coming, Live, Closes, On

\* While the application is told that the manager is ready, it is connected and
\* has what the daemon has, or news of it is on its way.
THEOREM ReadyMeansMirroredAlways == SpecClient => []ReadyMeansMirrored
<1>1. ReadyInv => ReadyMeansMirrored
  <2> SUFFICES ASSUME ReadyInv, ready
               PROVE  /\ socket["client"] = "open" /\ stage = [s \in Sides |-> "Authenticated"]
                      /\ Objects \subseteq received
                      /\ session = 1 =>
                           received = Parts /\ wired = 1 /\ (running /\ ~ Coming("signal") => started)
    BY DEF ReadyMeansMirrored
  <2>1. /\ socket["client"] = "open" /\ stage["client"] = "Authenticated"
        /\ Objects \subseteq received
        /\ session = 1 => received = Parts /\ wired = 1
    BY DEF ReadyInv, GotInv
  <2>2. stage = [s \in Sides |-> "Authenticated"]
    BY <2>1, Peers DEF ReadyInv, ClientInv, LinkInv, LinkTypeOK, StagesFit
  <2>3. session = 1 /\ ~ Coming("signal") => (running => started)
    BY NothingComing DEF ReadyInv, SignalInv, SignalAt
  <2>4. QED
    BY <2>1, <2>2, <2>3
<1>2. QED
  BY <1>1, ReadyInductive, PTL

\* The three copies of the options agree, but for what went past a property and
\* what is on its way.
THEOREM OptionsAgreeAlways == SpecClient => []OptionsAgree
<1>1. ReadyInv => OptionsAgree
  <2> SUFFICES ASSUME ReadyInv
               PROVE  /\ LibraryAgrees
                      /\ ready /\ ~ Coming("changed") =>
                           \A o \in Options \ {"NotifyOnDriverUnload"} : Reads(o) = property[o]
    BY DEF OptionsAgree, LibraryAgrees
  <2>1. LibraryAgrees
    BY DEF ReadyInv, ClientInv, PropertyInv
  <2>2. ASSUME ready, ~ Coming("changed"), NEW o \in Options \ {"NotifyOnDriverUnload"}
        PROVE  Reads(o) = property[o]
    <3>1. Live /\ \A i \in On("client") : ~ ChangeAt(i, o)
      BY <2>2, NothingComing DEF ChangeAt
    <3>2. "options" \in received
      BY <2>2, RemoteClientAssumption DEF ReadyInv, GotInv
    <3>3. property[o] = shown[o]
      BY <3>1, <3>2 DEF ReadyInv, OptionInv, Copy
    <3>4. QED
      BY <2>2, <3>3 DEF Reads, GetterOf
  <2>3. QED
    BY <2>1, <2>2
<1>2. QED
  BY <1>1, ReadyInductive, PTL

-----------------------------------------------------------------------------
(* The options are a copy of the properties.                               *)

\* A set of numbers that is not empty has a least one.
LEMMA LeastOf ==
    ASSUME NEW T \in SUBSET Nat, T # {}
    PROVE  \E x \in T : \A y \in T : x <= y
<1>1. PICK x \in T : \A y \in T : <<y, x>> \notin OpToRel(<, Nat)
  BY WFMin, NatLessThanWellFounded
<1>2. \A y \in T : ~ (y < x)
  BY <1>1 DEF OpToRel
<1>3. QED
  BY <1>2

LEMMA LastIs ==
    ASSUME NEW S, NEW i \in Nat
    PROVE  LET j == LastIn(S, i) IN j \in 0..i /\ (j # 0 => j \in S) /\ \A k \in (j + 1)..i : k \notin S
<1> PICK T : T = {m \in 0..i : m = i \/ i - m \in S}
  OBVIOUS
<1>1. T \in SUBSET Nat /\ i \in T
  OBVIOUS
<1>2. PICK x \in T : \A y \in T : x <= y
  BY <1>1, LeastOf
<1>3. PICK j : j = i - x
  OBVIOUS
<1>4. j \in 0..i /\ (j # 0 => j \in S)
  BY <1>2, <1>3
<1>5. ASSUME NEW k \in (j + 1)..i, k \in S
      PROVE  FALSE
  <2>1. i - k \in 0..i /\ i - (i - k) = k /\ i - k < x
    BY <1>3, <1>4, <1>5
  <2>2. i - k \in T
    BY <1>5, <2>1
  <2>3. QED
    BY <1>2, <2>1, <2>2
<1>6. \E l \in 0..i : (l # 0 => l \in S) /\ \A k \in (l + 1)..i : k \notin S
  BY <1>4, <1>5
<1>7. QED
  BY <1>6 DEF LastIn

LEMMA LastOnly ==
    ASSUME NEW S, NEW i \in Nat, NEW j \in 0..i, j # 0 => j \in S, \A k \in (j + 1)..i : k \notin S
    PROVE  LastIn(S, i) = j
<1> PICK l : l = LastIn(S, i)
  OBVIOUS
<1>1. l \in 0..i /\ (l # 0 => l \in S) /\ \A k \in (l + 1)..i : k \notin S
  BY LastIs
<1>2. ~ l < j
  <2> SUFFICES ASSUME l < j PROVE FALSE
    OBVIOUS
  <2>1. j \in (l + 1)..i /\ j # 0
    BY <1>1
  <2>2. QED
    BY <1>1, <2>1
<1>3. ~ j < l
  <2> SUFFICES ASSUME j < l PROVE FALSE
    OBVIOUS
  <2>1. l \in (j + 1)..i /\ l # 0
    BY <1>1
  <2>2. QED
    BY <1>1, <2>1
<1>4. QED
  BY <1>1, <1>2, <1>3

LEMMA LastSame ==
    ASSUME NEW S, NEW T, NEW i \in Nat, \A k \in 1..i : k \in T <=> k \in S
    PROVE  LastIn(T, i) = LastIn(S, i)
<1> PICK l : l = LastIn(S, i)
  OBVIOUS
<1>1. l \in 0..i /\ (l # 0 => l \in S) /\ \A k \in (l + 1)..i : k \notin S
  BY LastIs
<1>2. (l # 0 => l \in T) /\ \A k \in (l + 1)..i : k \notin T
  <2>1. l # 0 => l \in 1..i
    BY <1>1
  <2>2. \A k \in (l + 1)..i : k \in 1..i
    BY <1>1
  <2>3. QED
    BY <1>1, <2>1, <2>2
<1>3. QED
  BY <1>1, <1>2, LastOnly

LEMMA LastBefore ==
    ASSUME NEW S, NEW i \in Nat, NEW n \in Nat, i <= n, \A k \in (i + 1)..n : k \notin S
    PROVE  LastIn(S, n) = LastIn(S, i)
<1> PICK l : l = LastIn(S, i)
  OBVIOUS
<1>1. l \in 0..i /\ (l # 0 => l \in S) /\ \A k \in (l + 1)..i : k \notin S
  BY LastIs
<1>2. l \in 0..n /\ \A k \in (l + 1)..n : k \notin S
  <2>1. \A k \in (l + 1)..n : k \in (l + 1)..i \/ k \in (i + 1)..n
    BY <1>1
  <2>2. l \in 0..n
    BY <1>1
  <2>3. QED
    BY <1>1, <2>1, <2>2
<1>3. QED
  BY <1>1, <1>2, LastOnly

LEMMA LastShifts ==
    ASSUME NEW S, NEW T, NEW i \in Nat, \A k \in 1..i : k \in T <=> k + 1 \in S
    PROVE  /\ LastIn(S, i + 1) \in {0, 1} => LastIn(T, i) = 0
           /\ LastIn(S, i + 1) \notin {0, 1} => LastIn(S, i + 1) = LastIn(T, i) + 1 /\ LastIn(T, i) \in 1..i
<1> PICK l : l = LastIn(S, i + 1)
  OBVIOUS
<1>1. l \in 0..(i + 1) /\ (l # 0 => l \in S) /\ \A k \in (l + 1)..(i + 1) : k \notin S
  <2>1. i + 1 \in Nat
    OBVIOUS
  <2>2. QED
    BY <2>1, LastIs
<1>2. CASE l \in {0, 1}
  <2>1. ASSUME NEW k \in 1..i
        PROVE  k \notin T
    <3>1. k + 1 \in (l + 1)..(i + 1)
      BY <1>1, <1>2
    <3>2. QED
      BY <1>1, <3>1
  <2>2. LastIn(T, i) = 0
    <3>1. 0 \in 0..i /\ \A k \in (0 + 1)..i : k \notin T
      BY <2>1
    <3>2. QED
      BY <3>1, LastOnly
  <2>3. QED
    BY <1>2, <2>2
<1>3. CASE l \notin {0, 1}
  <2>1. l - 1 \in 1..i /\ (l - 1) + 1 = l /\ l - 1 \in 0..i
    BY <1>1, <1>3
  <2>2. l - 1 \in T
    BY <1>1, <1>3, <2>1
  <2>3. ASSUME NEW k \in ((l - 1) + 1)..i
        PROVE  k \notin T
    <3>1. k \in 1..i /\ k + 1 \in (l + 1)..(i + 1)
      BY <1>1, <1>3
    <3>2. QED
      BY <1>1, <3>1
  <2>4. LastIn(T, i) = l - 1
    BY <2>1, <2>2, <2>3, LastOnly
  <2>5. QED
    BY <1>3, <2>1, <2>4
<1>4. QED
  BY <1>2, <1>3

LEMMA SequencesEqual ==
    ASSUME NEW s, NEW t, IsSequence(s), IsSequence(t), Len(s) = Len(t), \A i \in 1..Len(s) : s[i] = t[i]
    PROVE  s = t
<1>1. PICK S, T : s \in Seq(S) /\ t \in Seq(T)
  BY DEF IsSequence
<1>2. s = [i \in 1..Len(s) |-> s[i]] /\ t = [i \in 1..Len(t) |-> t[i]]
  BY <1>1
<1>3. QED
  BY <1>2

LEMMA LagIs ==
    Chans => /\ IsSequence(OnTheWay) /\ Len(OnTheWay) = Len(chan["client"]) /\ Len(OnTheWay) \in Nat
             /\ \A i \in On("client") : OnTheWay[i] = ShownAfter(i)
<1> SUFFICES ASSUME Chans
             PROVE  /\ IsSequence(OnTheWay) /\ Len(OnTheWay) = Len(chan["client"]) /\ Len(OnTheWay) \in Nat
                    /\ \A i \in On("client") : OnTheWay[i] = ShownAfter(i)
  OBVIOUS
<1>1. PICK n \in Nat : n = Len(chan["client"])
  BY SequenceHas, Peers DEF Chans
<1> PICK S : S = {ShownAfter(i) : i \in 1..n}
  OBVIOUS
<1>2. OnTheWay = [i \in 1..n |-> ShownAfter(i)]
  BY <1>1 DEF OnTheWay
<1> HIDE DEF OnTheWay
<1>3. \A i \in 1..n : ShownAfter(i) \in S
  OBVIOUS
<1>4. OnTheWay \in Seq(S) /\ Len(OnTheWay) = n
  BY <1>2, <1>3
<1>5. QED
  BY <1>1, <1>2, <1>4 DEF IsSequence, On

LEMMA LagNext ==
    Chans' => /\ IsSequence(OnTheWay') /\ Len(OnTheWay') = Len(chan'["client"]) /\ Len(OnTheWay') \in Nat
              /\ \A i \in 1..Len(chan'["client"]) : OnTheWay'[i] = ShownAfter(i)'
<1>1. (Chans => /\ IsSequence(OnTheWay) /\ Len(OnTheWay) = Len(chan["client"]) /\ Len(OnTheWay) \in Nat
                /\ \A i \in On("client") : OnTheWay[i] = ShownAfter(i))'
  BY LagIs, PTL
<1>2. QED
  BY <1>1 DEF On

\* A sequence that goes on as another with the same element again and again.
LEMMA PaddedIs ==
    ASSUME NEW s, NEW t, IsSequence(s), IsSequence(t), Len(s) <= Len(t), NEW x,
           \A i \in 1..Len(s) : t[i] = s[i], \A i \in (Len(s) + 1)..Len(t) : t[i] = x
    PROVE  t = s \o Shared!Repeated(x, Len(t) - Len(s))
<1>1. PICK m \in Nat, n \in Nat : m = Len(s) /\ n = Len(t) - Len(s) /\ Len(t) = m + n
  <2>1. Len(s) \in Nat /\ Len(t) \in Nat
    BY SequenceHas
  <2>2. Len(t) - Len(s) \in Nat /\ Len(t) = Len(s) + (Len(t) - Len(s))
    BY <2>1
  <2>3. QED
    BY <2>1, <2>2
<1> PICK r : r = Shared!Repeated(x, n)
  OBVIOUS
<1>2. r = [i \in 1..n |-> x]
  BY DEF Shared!Repeated
<1>3. IsSequence(r) /\ Len(r) = n /\ \A i \in 1..n : r[i] = x
  <2>1. r \in Seq({x}) /\ Len(r) = n
    BY <1>2
  <2>2. QED
    BY <1>2, <2>1 DEF IsSequence
<1>4. /\ IsSequence(s \o r) /\ Len(s \o r) = m + n
      /\ \A i \in 1..m : (s \o r)[i] = s[i]
      /\ \A i \in 1..n : (s \o r)[m + i] = r[i]
  BY <1>1, <1>3, ConcatHas
<1>5. ASSUME NEW i \in 1..(m + n)
      PROVE  (s \o r)[i] = t[i]
  <2>1. CASE i \in 1..m
    BY <1>1, <1>4, <2>1
  <2>2. CASE i \notin 1..m
    <3>1. i - m \in 1..n /\ m + (i - m) = i /\ i \in (m + 1)..(m + n)
      BY <2>2
    <3>2. (s \o r)[i] = x
      BY <1>3, <1>4, <3>1
    <3>3. QED
      BY <1>1, <3>1, <3>2
  <2>3. QED
    BY <2>1, <2>2
<1>6. s \o r = t
  BY <1>1, <1>4, <1>5, SequencesEqual
<1>7. QED
  BY <1>1, <1>6

\* The three copies give each option a value and nothing else.
AreFunctions == \A f \in {property, packed, shown} : f = [o \in Options |-> f[o]]

LEMMA ShownIs ==
    \A i, l : \A o \in Options :
      l = LastIn(Touching(o), i) => ShownAfter(i)[o] = IF l = 0 THEN shown[o] ELSE Sets(l, o)
BY DEF ShownAfter

LEMMA ShownNext ==
    \A i, l : \A o \in Options :
      l = LastIn(Touching(o)', i) => ShownAfter(i)'[o] = IF l = 0 THEN shown'[o] ELSE Sets(l, o)'
<1>1. (\A i, l : \A o \in Options :
         l = LastIn(Touching(o), i) => ShownAfter(i)[o] = IF l = 0 THEN shown[o] ELSE Sets(l, o))'
  BY ShownIs, PTL
<1>2. QED
  BY <1>1

LEMMA ShownNow == AreFunctions => ShownAfter(0) = shown
<1> SUFFICES ASSUME AreFunctions PROVE ShownAfter(0) = shown
  OBVIOUS
<1>1. \A o : LastIn(Touching(o), 0) = 0
  BY LastIs
<1>2. ShownAfter(0) = [o \in Options |-> shown[o]]
  BY <1>1 DEF ShownAfter
<1>3. QED
  BY <1>2 DEF AreFunctions

\* When all that is on its way has arrived.
LEMMA LatestIs == Chans /\ AreFunctions => Shared!Latest = ShownAfter(Len(chan["client"]))
<1> SUFFICES ASSUME Chans, AreFunctions PROVE Shared!Latest = ShownAfter(Len(chan["client"]))
  OBVIOUS
<1>1. /\ IsSequence(OnTheWay) /\ Len(OnTheWay) = Len(chan["client"]) /\ Len(OnTheWay) \in Nat
      /\ \A i \in On("client") : OnTheWay[i] = ShownAfter(i)
  BY LagIs
<1>2. CASE OnTheWay = <<>>
  <2>1. Len(chan["client"]) = 0
    BY <1>1, <1>2, FewAre
  <2>2. QED
    BY <1>2, <2>1, ShownNow DEF Shared!Latest
<1>3. CASE OnTheWay # <<>>
  <2>1. Len(OnTheWay) > 0
    BY <1>1, <1>3, SequenceHas
  <2>2. Len(chan["client"]) \in On("client")
    BY <1>1, <2>1 DEF On
  <2>3. QED
    BY <1>1, <1>3, <2>2 DEF Shared!Latest
<1>4. QED
  BY <1>2, <1>3

-----------------------------------------------------------------------------
(* Frames that are added.                                                  *)

\* Frames behind others change nothing of what those do.
LEMMA GivenShows ==
    ASSUME Chans, NEW frames, IsSequence(frames), Given("client", frames),
           shown' = shown, socket'["client"] = socket["client"],
           packed' = packed \/ \A i \in On("client") : Reaches(i) => ~ PartAt("client", i, "options")
    PROVE  /\ Len(chan["client"]) \in Nat /\ Len(chan'["client"]) \in Nat
           /\ Len(chan["client"]) <= Len(chan'["client"])
           /\ \A i \in On("client") : Reaches(i)' <=> Reaches(i)
           /\ \A i \in 0..Len(chan["client"]) : ShownAfter(i)' = ShownAfter(i)
<1>1. PICK n \in Nat, m \in Nat : n = Len(chan["client"]) /\ m = Len(chan'["client"]) /\ n <= m
  <2>1. Len(chan["client"]) \in Nat /\ Len(frames) \in Nat /\ Len(<<>>) = 0
    BY SequenceHas, FewAre, Peers DEF Chans
  <2>2. \/ Len(chan'["client"]) = Len(chan["client"]) - 0 + Len(frames)
        \/ Len(chan'["client"]) = Len(chan["client"]) - 0 + Len(<<>>)
    BY DEF Given, Moves
  <2>3. QED
    BY <2>1, <2>2
<1>2. \A i \in 1..n : chan'["client"][i] = chan["client"][i]
  BY <1>1, GivenFrames, Peers DEF On
<1>3. ASSUME NEW i \in 1..n
      PROVE  Reaches(i)' <=> Reaches(i)
  <2>1. \A j \in 1..i : chan'["client"][j] = chan["client"][j]
    BY <1>1, <1>2
  <2>2. QED
    BY <2>1 DEF Reaches
<1>4. ASSUME NEW o, NEW i \in 1..n
      PROVE  /\ i \in Touching(o)' <=> i \in Touching(o)
             /\ i \in Touching(o) => Sets(i, o)' = Sets(i, o)
  <2>1. i \in 1..Len(chan["client"]) /\ i \in 1..Len(chan'["client"])
    BY <1>1
  <2>2. (ChangeAt(i, o)' <=> ChangeAt(i, o)) /\ (PartAt("client", i, "options")' <=> PartAt("client", i, "options"))
    BY <1>2 DEF ChangeAt, PartAt
  <2>3. i \in Touching(o)' <=> i \in Touching(o)
    BY <1>3, <2>1, <2>2 DEF Touching
  <2>4. ASSUME i \in Touching(o)
        PROVE  Sets(i, o)' = Sets(i, o)
    <3>1. CASE ChangeAt(i, o)
      BY <1>2, <2>2, <3>1 DEF Sets
    <3>2. CASE ~ ChangeAt(i, o)
      <4>1. packed' = packed
        BY <2>1, <2>4, <3>2 DEF Touching, On
      <4>2. QED
        BY <2>2, <3>2, <4>1 DEF Sets
    <3>3. QED
      BY <3>1, <3>2
  <2>5. QED
    BY <2>3, <2>4
<1>5. ASSUME NEW i \in 0..n
      PROVE  ShownAfter(i)' = ShownAfter(i)
  <2>1. ASSUME NEW o
        PROVE  LastIn(Touching(o)', i) = LastIn(Touching(o), i)
    <3>1. \A k \in 1..i : k \in 1..n
      BY <1>1
    <3>2. \A k \in 1..i : k \in Touching(o)' <=> k \in Touching(o)
      BY <1>4, <3>1
    <3>3. QED
      BY <1>1, <3>2, LastSame
  <2>2. ASSUME NEW o, NEW l, l = LastIn(Touching(o), i)
        PROVE  (IF l = 0 THEN shown[o] ELSE Sets(l, o)') = IF l = 0 THEN shown[o] ELSE Sets(l, o)
    <3>1. l \in 0..i /\ (l # 0 => l \in Touching(o))
      BY <2>2, LastIs
    <3>2. l # 0 => l \in 1..n
      BY <1>1, <3>1
    <3>3. QED
      BY <1>4, <3>1, <3>2
  <2>3. ASSUME NEW o \in Options
        PROVE  ShownAfter(i)'[o] = ShownAfter(i)[o]
    <3>1. PICK l : l = LastIn(Touching(o), i) /\ l = LastIn(Touching(o)', i)
      BY <2>1
    <3>2. ShownAfter(i)'[o] = IF l = 0 THEN shown'[o] ELSE Sets(l, o)'
      BY <3>1, ShownNext
    <3>3. ShownAfter(i)[o] = IF l = 0 THEN shown[o] ELSE Sets(l, o)
      BY <3>1, ShownIs
    <3>4. QED
      BY <2>2, <3>1, <3>2, <3>3
  <2>4. ShownAfter(i) = [o \in Options |-> ShownAfter(i)[o]] /\ ShownAfter(i)' = [o \in Options |-> ShownAfter(i)'[o]]
    BY DEF ShownAfter
  <2>5. QED
    BY <2>3, <2>4
<1>6. QED
  BY <1>1, <1>3, <1>5 DEF On

\* Frames that set no option, or do not reach the replica.
LEMMA GivenOthers ==
    ASSUME Chans, Chans', AreFunctions, NEW frames, IsSequence(frames), Given("client", frames),
           shown' = shown, socket'["client"] = socket["client"],
           packed' = packed \/ \A i \in On("client") : Reaches(i) => ~ PartAt("client", i, "options"),
           \A i \in 1..Len(chan'["client"]) : i \notin On("client") => \A o \in Options : i \notin Touching(o)'
    PROVE  Shared!Others
<1>1. PICK n \in Nat, m \in Nat : n = Len(chan["client"]) /\ m = Len(chan'["client"]) /\ n <= m
  BY GivenShows
<1>2. \A i \in 0..n : ShownAfter(i)' = ShownAfter(i)
  BY <1>1, GivenShows
<1>3. ASSUME NEW i \in (n + 1)..m
      PROVE  ShownAfter(i)' = ShownAfter(n)
  <2>1. ASSUME NEW o \in Options
        PROVE  LastIn(Touching(o)', i) = LastIn(Touching(o)', n)
    <3>1. \A k \in (n + 1)..i : k \in 1..m /\ k \notin 1..n
      BY <1>1
    <3>2. \A k \in (n + 1)..i : k \notin Touching(o)'
      BY <1>1, <3>1 DEF On
    <3>3. QED
      BY <1>1, <3>2, LastBefore
  <2>2. ShownAfter(i)' = ShownAfter(n)'
    BY <2>1 DEF ShownAfter
  <2>3. QED
    BY <1>1, <1>2, <2>2
<1>4. /\ IsSequence(OnTheWay) /\ Len(OnTheWay) = n
      /\ \A i \in 1..n : OnTheWay[i] = ShownAfter(i)
  BY <1>1, LagIs DEF On
<1>5. /\ IsSequence(OnTheWay') /\ Len(OnTheWay') = m
      /\ \A i \in 1..m : OnTheWay'[i] = ShownAfter(i)'
  <2>1. /\ IsSequence(OnTheWay') /\ Len(OnTheWay') = Len(chan'["client"])
        /\ \A i \in 1..Len(chan'["client"]) : OnTheWay'[i] = ShownAfter(i)'
    BY LagNext
  <2>2. QED
    BY <1>1, <2>1
<1>6. \A i \in 1..n : OnTheWay'[i] = OnTheWay[i]
  BY <1>1, <1>2, <1>4, <1>5
<1>7. Shared!Latest = ShownAfter(n)
  BY <1>1, LatestIs
<1>8. \A i \in (n + 1)..m : OnTheWay'[i] = Shared!Latest
  BY <1>1, <1>3, <1>5, <1>7
<1>9. OnTheWay' = OnTheWay \o Shared!Repeated(Shared!Latest, Len(OnTheWay') - Len(OnTheWay))
  <2>1. PICK s, t, x : s = OnTheWay /\ t = OnTheWay' /\ x = Shared!Latest
    OBVIOUS
  <2>2. IsSequence(s) /\ IsSequence(t) /\ Len(s) <= Len(t)
    BY <1>1, <1>4, <1>5, <2>1
  <2>3. /\ \A i \in 1..Len(s) : t[i] = s[i]
        /\ \A i \in (Len(s) + 1)..Len(t) : t[i] = x
    BY <1>4, <1>5, <1>6, <1>8, <2>1
  <2>4. t = s \o Shared!Repeated(x, Len(t) - Len(s))
    BY <2>2, <2>3, PaddedIs
  <2>5. QED
    BY <2>1, <2>4
<1>10. QED
  BY <1>9 DEF Shared!Others

\* One frame that is added, and what the options are when it arrives.
LEMMA GivenState ==
    ASSUME Chans, Chans', NEW f, Given("client", <<f>>), socket["client"] # "closed",
           shown' = shown, socket'["client"] = socket["client"],
           packed' = packed \/ \A i \in On("client") : Reaches(i) => ~ PartAt("client", i, "options"),
           NEW state, NEW m, m = Len(chan["client"]) + 1, ShownAfter(m)' = state
    PROVE  OnTheWay' = Append(OnTheWay, state)
<1>1. IsSequence(<<f>>) /\ Len(<<f>>) = 1
  BY FewAre
<1>2. PICK n \in Nat : n = Len(chan["client"]) /\ \A i \in 0..n : ShownAfter(i)' = ShownAfter(i)
  BY <1>1, GivenShows
<1>3. Len(chan'["client"]) = n + 1
  <2>1. Len(chan'["client"]) = Len(chan["client"]) - 0 + Len(<<f>>)
    BY DEF Given, Moves
  <2>2. QED
    BY <1>1, <1>2, <2>1
<1>4. /\ IsSequence(OnTheWay) /\ Len(OnTheWay) = n
      /\ \A i \in 1..n : OnTheWay[i] = ShownAfter(i)
  BY <1>2, LagIs DEF On
<1>5. /\ IsSequence(OnTheWay') /\ Len(OnTheWay') = n + 1
      /\ \A i \in 1..(n + 1) : OnTheWay'[i] = ShownAfter(i)'
  BY <1>3, LagNext
<1>6. OnTheWay'[n + 1] = state /\ \A i \in 1..n : OnTheWay'[i] = OnTheWay[i]
  <2>1. n + 1 \in 1..(n + 1) /\ \A i \in 1..n : i \in 0..n /\ i \in 1..(n + 1)
    OBVIOUS
  <2>2. QED
    BY <1>2, <1>4, <1>5, <2>1
<1>7. PICK s, t : s = OnTheWay /\ t = OnTheWay'
  OBVIOUS
<1>8. PICK a : a = Append(s, state)
  OBVIOUS
<1>9. IsSequence(a) /\ Len(a) = n + 1 /\ a[n + 1] = state /\ \A i \in 1..n : a[i] = s[i]
  BY <1>4, <1>7, <1>8, AppendHas
<1>10. ASSUME NEW i \in 1..(n + 1)
       PROVE  a[i] = t[i]
  <2>1. i \in 1..n \/ i = n + 1
    OBVIOUS
  <2>2. QED
    BY <1>6, <1>7, <1>9, <2>1
<1>11. a = t
  BY <1>5, <1>7, <1>9, <1>10, SequencesEqual
<1>12. QED
  BY <1>7, <1>8, <1>11

-----------------------------------------------------------------------------
(* Frames that are taken, or lost.                                         *)

LEMMA FollowsIs == Follows <=> Live /\ "options" \in listens
BY DEF Follows, Live, Closes, On

\* What the first frame does to the options is what was to be.
LEMMA TakenCatchesUp ==
    ASSUME Chans, Chans', AreFunctions', chan["client"] # <<>>, Taken("client"), Reaches(1),
           socket'["client"] = socket["client"], UNCHANGED <<property, listens>>,
           \A o \in Options : shown'[o] = IF 1 \in Touching(o) THEN Sets(1, o) ELSE shown[o],
           packed' = packed \/ \A i \in On("client") : i > 1 => ~ PartAt("client", i, "options")
    PROVE  Shared!CatchUp
<1>1. PICK n \in Nat : n + 1 = Len(chan["client"]) /\ n = Len(chan'["client"])
  <2>1. Len(chan["client"]) \in Nat /\ Len(chan["client"]) > 0
    BY SequenceHas, Peers DEF Chans
  <2>2. Len(chan'["client"]) = Len(chan["client"]) - 1
    BY <2>1, FewAre DEF Taken, Moves
  <2>3. Len(chan["client"]) - 1 \in Nat
    BY <2>1
  <2>4. QED
    BY <2>1, <2>2, <2>3
<1>2. ASSUME NEW i \in 1..n
      PROVE  i + 1 \in 1..(n + 1) /\ i + 1 > 1 /\ chan'["client"][i] = chan["client"][i + 1]
  BY <1>1, TakenFrames, Peers DEF On
<1>3. ASSUME NEW i \in 1..n
      PROVE  Reaches(i)' <=> Reaches(i + 1)
  <2>1. ASSUME NEW k \in 1..(i + 1)
        PROVE  k = 1 \/ (k - 1 \in 1..i /\ chan'["client"][k - 1] = chan["client"][k])
    <3>1. k # 1 => k - 1 \in 1..i /\ k - 1 \in 1..n /\ (k - 1) + 1 = k
      OBVIOUS
    <3>2. QED
      BY <1>2, <3>1
  <2>2. \A k \in 1..i : k + 1 \in 1..(i + 1) /\ chan'["client"][k] = chan["client"][k + 1]
    BY <1>2
  <2>3. socket["client"] = "open" /\ chan["client"][1].cmd # "close"
    BY DEF Reaches
  <2>4. QED
    BY <2>1, <2>2, <2>3 DEF Reaches
<1>4. ASSUME NEW o, NEW i \in 1..n
      PROVE  /\ i \in Touching(o)' <=> i + 1 \in Touching(o)
             /\ i + 1 \in Touching(o) => Sets(i, o)' = Sets(i + 1, o)
  <2>1. i + 1 \in 1..Len(chan["client"]) /\ i \in 1..Len(chan'["client"]) /\ i + 1 > 1
    BY <1>1
  <2>2. /\ ChangeAt(i, o)' <=> ChangeAt(i + 1, o)
        /\ PartAt("client", i, "options")' <=> PartAt("client", i + 1, "options")
    BY <1>2 DEF ChangeAt, PartAt
  <2>3. i \in Touching(o)' <=> i + 1 \in Touching(o)
    BY <1>3, <2>1, <2>2 DEF Touching
  <2>4. ASSUME i + 1 \in Touching(o)
        PROVE  Sets(i, o)' = Sets(i + 1, o)
    <3>1. CASE ChangeAt(i + 1, o)
      BY <1>2, <2>2, <3>1 DEF Sets
    <3>2. CASE ~ ChangeAt(i + 1, o)
      <4>1. packed' = packed
        BY <2>1, <2>4, <3>2 DEF Touching, On
      <4>2. QED
        BY <2>2, <3>2, <4>1 DEF Sets
    <3>3. QED
      BY <3>1, <3>2
  <2>5. QED
    BY <2>3, <2>4
<1>5. ASSUME NEW i \in 0..n
      PROVE  ShownAfter(i)' = ShownAfter(i + 1)
  <2>1. ASSUME NEW o \in Options
        PROVE  ShownAfter(i)'[o] = ShownAfter(i + 1)[o]
    <3>1. PICK l, k : l = LastIn(Touching(o)', i) /\ k = LastIn(Touching(o), i + 1)
      OBVIOUS
    <3>2. \A j \in 1..i : j \in Touching(o)' <=> j + 1 \in Touching(o)
      BY <1>4
    <3>3. /\ k \in {0, 1} => l = 0
          /\ k \notin {0, 1} => k = l + 1 /\ l \in 1..i
      BY <3>1, <3>2, LastShifts
    <3>4. k \in 0..(i + 1) /\ (k # 0 => k \in Touching(o)) /\ \A j \in (k + 1)..(i + 1) : j \notin Touching(o)
      <4>1. i + 1 \in Nat
        OBVIOUS
      <4>2. QED
        BY <3>1, <4>1, LastIs
    <3>5. ShownAfter(i)'[o] = IF l = 0 THEN shown'[o] ELSE Sets(l, o)'
      BY <3>1, ShownNext
    <3>6. ShownAfter(i + 1)[o] = IF k = 0 THEN shown[o] ELSE Sets(k, o)
      BY <3>1, ShownIs
    <3>7. CASE k = 0
      <4>1. 1 \in (k + 1)..(i + 1)
        BY <3>7
      <4>2. shown'[o] = shown[o]
        BY <3>4, <4>1
      <4>3. QED
        BY <3>3, <3>5, <3>6, <3>7, <4>2
    <3>8. CASE k = 1
      <4>1. shown'[o] = Sets(1, o)
        BY <3>4, <3>8
      <4>2. QED
        BY <3>3, <3>5, <3>6, <3>8, <4>1
    <3>9. CASE k \notin {0, 1}
      <4>1. l \in 1..n /\ l # 0 /\ k = l + 1 /\ l + 1 \in Touching(o)
        BY <3>3, <3>4, <3>9
      <4>2. Sets(l, o)' = Sets(k, o)
        BY <1>4, <4>1
      <4>3. QED
        BY <3>5, <3>6, <3>9, <4>1, <4>2
    <3>10. QED
      BY <3>7, <3>8, <3>9
  <2>2. /\ ShownAfter(i + 1) = [o \in Options |-> ShownAfter(i + 1)[o]]
        /\ ShownAfter(i)' = [o \in Options |-> ShownAfter(i)'[o]]
    BY DEF ShownAfter
  <2>3. QED
    BY <2>1, <2>2
<1>6. /\ IsSequence(OnTheWay) /\ Len(OnTheWay) = n + 1
      /\ \A i \in 1..(n + 1) : OnTheWay[i] = ShownAfter(i)
  BY <1>1, LagIs DEF On
<1>7. /\ IsSequence(OnTheWay') /\ Len(OnTheWay') = n
      /\ \A i \in 1..n : OnTheWay'[i] = ShownAfter(i)'
  BY <1>1, LagNext
<1>8. PICK s, t : s = OnTheWay /\ t = OnTheWay'
  OBVIOUS
<1>9. s # <<>> /\ Head(s) = s[1]
  <2>1. s # <<>>
    BY <1>6, <1>8, FewAre
  <2>2. QED
    BY <1>6, <1>8, <2>1, SequenceHas
<1>10. t = Tail(s)
  <2>1. PICK a : a = Tail(s)
    OBVIOUS
  <2>2. IsSequence(a) /\ Len(a) = n /\ \A i \in 1..n : a[i] = s[i + 1]
    <3>1. IsSequence(s) /\ Len(s) - 1 = n
      BY <1>6, <1>8
    <3>2. QED
      BY <1>9, <2>1, <3>1, TailHas
  <2>3. \A i \in 1..n : a[i] = t[i]
    <3>1. \A i \in 1..n : i \in 0..n /\ i + 1 \in 1..(n + 1)
      OBVIOUS
    <3>2. QED
      BY <1>5, <1>6, <1>7, <1>8, <2>2, <3>1
  <2>4. a = t
    BY <1>7, <1>8, <2>2, <2>3, SequencesEqual
  <2>5. QED
    BY <2>1, <2>4
<1>11. shown' = s[1]
  <2>1. ShownAfter(0)' = shown'
    <3>1. (AreFunctions => ShownAfter(0) = shown)'
      BY ShownNow, PTL
    <3>2. QED
      BY <3>1
  <2>2. ShownAfter(0)' = ShownAfter(0 + 1) /\ 1 \in 1..(n + 1)
    BY <1>5
  <2>3. QED
    BY <1>6, <1>8, <2>1, <2>2
<1>12. Follows' = Follows
  <2>1. (\A i \in 1..Len(chan'["client"]) : chan'["client"][i].cmd # "close") <=>
          \A i \in 1..Len(chan["client"]) : chan["client"][i].cmd # "close"
    <3>1. ASSUME NEW i \in 1..(n + 1)
          PROVE  i = 1 \/ (i - 1 \in 1..n /\ chan'["client"][i - 1] = chan["client"][i])
      <4>1. i # 1 => i - 1 \in 1..n /\ (i - 1) + 1 = i
        OBVIOUS
      <4>2. QED
        BY <1>2, <4>1
    <3>2. chan["client"][1].cmd # "close"
      BY DEF Reaches
    <3>3. ASSUME \A j \in 1..n : chan'["client"][j].cmd # "close", NEW i \in 1..(n + 1)
          PROVE  chan["client"][i].cmd # "close"
      BY <3>1, <3>2, <3>3
    <3>4. ASSUME \A i \in 1..(n + 1) : chan["client"][i].cmd # "close", NEW j \in 1..n
          PROVE  chan'["client"][j].cmd # "close"
      <4>1. j + 1 \in 1..(n + 1)
        OBVIOUS
      <4>2. QED
        BY <1>2, <3>4, <4>1
    <3>5. QED
      BY <1>1, <3>3, <3>4
  <2>2. QED
    BY <2>1 DEF Follows
<1>13. QED
  BY <1>8, <1>9, <1>10, <1>11, <1>12 DEF Shared!CatchUp

\* Frames that do not reach the replica leave it what it is.
LEMMA NoneReach ==
    ASSUME Chans', AreFunctions', \A i \in 1..Len(chan'["client"]) : \A o \in Options : i \notin Touching(o)'
    PROVE  OnTheWay' = Shared!Repeated(shown', Len(OnTheWay'))
<1>1. PICK m \in Nat : m = Len(chan'["client"]) /\ m = Len(OnTheWay')
  BY LagNext
<1>2. /\ IsSequence(OnTheWay') /\ \A i \in 1..m : OnTheWay'[i] = ShownAfter(i)'
  BY <1>1, LagNext
<1>3. ShownAfter(0)' = shown'
  <2>1. (AreFunctions => ShownAfter(0) = shown)'
    BY ShownNow, PTL
  <2>2. QED
    BY <2>1
<1>4. ASSUME NEW i \in 1..m
      PROVE  ShownAfter(i)' = shown'
  <2>1. ASSUME NEW o \in Options
        PROVE  LastIn(Touching(o)', i) = LastIn(Touching(o)', 0)
    <3>1. \A k \in (0 + 1)..i : k \in 1..m
      OBVIOUS
    <3>2. \A k \in (0 + 1)..i : k \notin Touching(o)'
      BY <1>1, <3>1
    <3>3. QED
      BY <3>2, LastBefore
  <2>2. ShownAfter(i)' = ShownAfter(0)'
    BY <2>1 DEF ShownAfter
  <2>3. QED
    BY <1>3, <2>2
<1>5. PICK t, x, r : t = OnTheWay' /\ x = shown' /\ r = Shared!Repeated(x, m)
  OBVIOUS
<1>6. r = [i \in 1..m |-> x]
  BY <1>5 DEF Shared!Repeated
<1>7. IsSequence(r) /\ Len(r) = m /\ \A i \in 1..m : r[i] = x
  <2>1. r \in Seq({x}) /\ Len(r) = m
    BY <1>6
  <2>2. QED
    BY <1>6, <2>1 DEF IsSequence
<1>8. \A i \in 1..m : t[i] = x
  BY <1>2, <1>4, <1>5
<1>9. t = r
  BY <1>1, <1>2, <1>5, <1>7, <1>8, SequencesEqual
<1>10. QED
  BY <1>1, <1>5, <1>9

-----------------------------------------------------------------------------
(* Each step is a step of the copy.                                        *)

\* While changes are sent, what is on its way ends with the properties.
LEMMA LatestIsSource ==
    ReadyInv /\ AreFunctions /\ Follows => \A i : i = Len(chan["client"]) => ShownAfter(i) = property
<1> SUFFICES ASSUME ReadyInv, AreFunctions, Follows
             PROVE  ShownAfter(Len(chan["client"])) = property
  OBVIOUS
<1>1. Chans /\ PartsInv /\ OptionInv /\ Live /\ "options" \in listens
  BY FollowsIs DEF ReadyInv, ClientInv, LinkInv
<1>2. PICK n \in Nat : n = Len(chan["client"])
  BY <1>1, SequenceHas, Peers DEF Chans
<1>3. \A i \in On("client") : Reaches(i)
  <2>1. \A i \in On("client") : \A j \in 1..i : j \in On("client")
    BY <1>2 DEF On
  <2>2. QED
    BY <1>1, <2>1 DEF Reaches, Live, Closes
<1>4. \A o : Touching(o) = {i \in On("client") : ChangeAt(i, o) \/ PartAt("client", i, "options")}
  BY <1>3 DEF Touching, On
<1>5. ASSUME NEW o \in Options
      PROVE  ShownAfter(n)[o] = property[o]
  <2>1. /\ \A i \in On("client") : LastChange(i, o) => chan["client"][i].arg.value = property[o]
        /\ (\A i \in On("client") : ~ ChangeAt(i, o)) => property[o] = Copy(o)
        /\ \A i, j \in On("client") : PartAt("client", i, "options") /\ ChangeAt(j, o) => i < j
        /\ (\E i \in On("client") : PartAt("client", i, "options")) \/ "options" \in received
    BY <1>1 DEF OptionInv, ChangeAt
  <2>2. PICK l : l = LastIn(Touching(o), n)
    OBVIOUS
  <2>3. l \in 0..n /\ (l # 0 => l \in Touching(o)) /\ \A k \in (l + 1)..n : k \notin Touching(o)
    BY <2>2, LastIs
  <2>4. \A k \in On("client") : k > l => k \notin Touching(o)
    BY <1>2, <2>3 DEF On
  <2>5. ShownAfter(n)[o] = IF l = 0 THEN shown[o] ELSE Sets(l, o)
    BY <2>2, ShownIs
  <2>6. CASE l # 0 /\ ChangeAt(l, o)
    <3>1. l \in On("client") /\ LastChange(l, o)
      BY <1>4, <2>3, <2>4, <2>6 DEF LastChange
    <3>2. QED
      BY <2>1, <2>5, <2>6, <3>1 DEF Sets
  <2>7. CASE l # 0 /\ ~ ChangeAt(l, o)
    <3>1. l \in On("client") /\ PartAt("client", l, "options")
      BY <1>4, <2>3, <2>7
    <3>2. ASSUME NEW i \in On("client"), ChangeAt(i, o)
          PROVE  FALSE
      <4>1. l < i
        BY <2>1, <3>1, <3>2
      <4>2. i > l
        BY <2>3, <4>1 DEF On
      <4>3. QED
        BY <1>4, <2>4, <3>2, <4>2
    <3>3. "options" \notin received
      BY <1>1, <3>1 DEF PartsInv
    <3>4. property[o] = packed[o]
      BY <2>1, <3>2, <3>3 DEF Copy
    <3>5. QED
      BY <2>5, <2>7, <3>4 DEF Sets
  <2>8. CASE l = 0
    <3>1. \A i \in On("client") : i \notin Touching(o)
      BY <2>4, <2>8 DEF On
    <3>2. \A i \in On("client") : ~ ChangeAt(i, o) /\ ~ PartAt("client", i, "options")
      BY <1>4, <3>1
    <3>3. property[o] = shown[o]
      BY <2>1, <3>2 DEF Copy
    <3>4. QED
      BY <2>5, <2>8, <3>3
  <2>9. QED
    BY <2>6, <2>7, <2>8
<1>6. ShownAfter(n) = [o \in Options |-> ShownAfter(n)[o]] /\ property = [o \in Options |-> property[o]]
  BY DEF ShownAfter, AreFunctions
<1>7. ShownAfter(n) = property
  BY <1>5, <1>6
<1>8. QED
  BY <1>2, <1>7

LEMMA LatestWillBeSource ==
    ASSUME ReadyInv', AreFunctions', Follows', NEW m, m = Len(chan'["client"])
    PROVE  ShownAfter(m)' = property'
<1>1. (ReadyInv /\ AreFunctions /\ Follows => \A i : i = Len(chan["client"]) => ShownAfter(i) = property)'
  BY LatestIsSource, PTL
<1>2. QED
  BY <1>1

LEMMA FollowsNext == Follows' <=> Live' /\ "options" \in listens'
<1>1. (Follows <=> Live /\ "options" \in listens)'
  BY FollowsIs, PTL
<1>2. QED
  BY <1>1

\* What is sent to a client that is gone, or behind the end, does not reach it.
LEMMA NotReached ==
    ASSUME Chans, ~ Live, socket'["client"] = socket["client"],
           NEW frames, IsSequence(frames), Given("client", frames)
    PROVE  \A i \in 1..Len(chan'["client"]) : i \notin On("client") => ~ Reaches(i)'
<1> SUFFICES ASSUME socket["client"] = "open", NEW i \in 1..Len(chan'["client"]), i \notin On("client")
             PROVE  ~ Reaches(i)'
  BY DEF Reaches
<1>1. PICK j \in On("client") : chan["client"][j].cmd = "close"
  BY DEF Live, Closes
<1>2. chan'["client"][j] = chan["client"][j]
  BY GivenFrames, Peers
<1>3. j \in 1..i
  <2>1. Len(chan["client"]) \in Nat
    BY SequenceHas, Peers DEF Chans
  <2>2. QED
    BY <2>1 DEF On
<1>4. QED
  BY <1>1, <1>2, <1>3 DEF Reaches

\* What is sent and does not concern the options, also if it is nothing.
LEMMA PassIs ==
    ASSUME Chans, Chans', AreFunctions, NEW frames, IsSequence(frames), Given("client", frames),
           \A k \in 1..Len(frames) : ~ Of(frames[k], {"changed"}, {"options"}),
           UNCHANGED <<property, packed, shown>>, socket'["client"] = socket["client"], Follows' => Follows
    PROVE  Shared!Pass
<1>1. ASSUME NEW i \in 1..Len(chan'["client"]), i \notin On("client"), NEW o
      PROVE  i \notin Touching(o)'
  <2>1. PICK k \in 1..Len(frames) : chan'["client"][i] = frames[k]
    BY <1>1, GivenFrames, Peers
  <2>2. ~ Of(chan'["client"][i], {"changed"}, {"options"})
    BY <2>1
  <2>3. ~ ChangeAt(i, o)' /\ ~ PartAt("client", i, "options")'
    BY <2>2, OfOptions DEF ChangeAt, PartAt
  <2>4. QED
    BY <2>3 DEF Touching
<1>2. Shared!Others
  BY <1>1, GivenOthers
<1>3. Follows' \in {Follows, FALSE}
  BY DEF Follows
<1>4. QED
  BY <1>2, <1>3 DEF Shared!Pass

\* A property is set: the copy has one more state to become, if it is told.
LEMMA ChangeIs ==
    ASSUME ReadyInv, ReadyInv', AreFunctions, AreFunctions', NEW o \in Options, NEW d, Setting(o, d),
           Live' => Live, UNCHANGED <<packed, shown, listens>>, socket'["client"] = socket["client"]
    PROVE  Shared!Change \/ Shared!Pass
<1>1. Chans /\ Chans' /\ SetsProperty(o, d) /\ Given("client", Changed(o, d))
  BY DEF Setting, ReadyInv, ClientInv, LinkInv
<1>2. Follows' => Follows
  BY FollowsIs, FollowsNext
<1>3. CASE property[o] = d
  <2>1. PICK none : none = <<>>
    OBVIOUS
  <2>2. IsSequence(none) /\ Len(none) = 0 /\ Given("client", none)
    BY <1>1, <1>3, <2>1, FewAre DEF Changed
  <2>3. property' = property
    BY <1>1, <1>3 DEF SetsProperty
  <2>4. QED
    BY <1>1, <1>2, <2>2, <2>3, PassIs
<1>4. CASE property[o] # d /\ Follows
  <2>1. PICK f : f = Frame("changed", [name |-> o, value |-> d])
    OBVIOUS
  <2>2. Live /\ Given("client", <<f>>)
    BY <1>1, <1>4, <2>1, FollowsIs DEF Changed, Told
  <2>3. f.cmd = "changed"
    BY <2>1, FramesAre
  <2>4. socket["client"] # "closed"
    BY <2>2 DEF Live
  <2>5. PICK m : m = Len(chan["client"]) + 1
    OBVIOUS
  <2>6. m = Len(chan'["client"])
    <3>1. Len(chan'["client"]) = Len(chan["client"]) - 0 + Len(<<f>>)
      BY <2>2, <2>4 DEF Given, Moves
    <3>2. Len(<<f>>) = 1 /\ Len(chan["client"]) \in Nat
      BY <1>1, FewAre, SequenceHas, Peers DEF Chans
    <3>3. QED
      BY <2>5, <3>1, <3>2
  <2>7. Follows'
    <3>1. \A i \in 1..Len(chan'["client"]) : \/ i \in On("client") /\ chan'["client"][i] = chan["client"][i]
                                             \/ chan'["client"][i] = f
      BY <1>1, <2>2, GivenOne, Peers
    <3>2. QED
      BY <1>4, <2>3, <3>1 DEF Follows, On
  <2>8. ShownAfter(m)' = property'
    BY <2>6, <2>7, LatestWillBeSource
  <2>9. OnTheWay' = Append(OnTheWay, property')
    BY <1>1, <2>2, <2>4, <2>5, <2>8, GivenState
  <2>10. Follows' = Follows
    BY <1>4, <2>7 DEF Follows
  <2>11. QED
    BY <1>4, <2>9, <2>10 DEF Shared!Change
<1>5. CASE ~ Follows
  <2>1. PICK frames : frames = Changed(o, d)
    OBVIOUS
  <2>2. IsSequence(frames) /\ Given("client", frames)
    BY <1>1, <2>1, ToldAre, FewAre
  <2>3. ASSUME NEW i \in 1..Len(chan'["client"]), i \notin On("client")
        PROVE  ~ Reaches(i)'
    <3>1. CASE Live
      <4>1. frames = <<>>
        BY <1>5, <2>1, <3>1, FollowsIs DEF Changed, Told
      <4>2. Len(frames) = 0
        BY <4>1, FewAre
      <4>3. QED
        BY <1>1, <2>2, <2>3, <4>2, GivenFrames, Peers
    <3>2. CASE ~ Live
      BY <1>1, <2>2, <2>3, <3>2, NotReached
    <3>3. QED
      BY <3>1, <3>2
  <2>4. \A i \in 1..Len(chan'["client"]) : i \notin On("client") => \A n \in Options : i \notin Touching(n)'
    BY <2>3 DEF Touching
  <2>5. Shared!Others
    BY <1>1, <2>2, <2>4, GivenOthers
  <2>6. Follows' = Follows
    BY <1>2, <1>5 DEF Follows
  <2>7. QED
    BY <1>5, <2>5, <2>6 DEF Shared!Change
<1>6. QED
  BY <1>3, <1>4, <1>5

\* The options part is sent: from now on the copy is told.
LEMMA AttachIs ==
    ASSUME ReadyInv, ReadyInv', AreFunctions, AreFunctions', ServerSends("options"), Live' => Live
    PROVE  Shared!Attach \/ Shared!Pass
<1>1. /\ Chans /\ Chans' /\ Post("client", Binary("options")) /\ "options" \in owed
      /\ UNCHANGED <<property, shown>> /\ socket'["client"] = socket["client"] /\ "options" \in listens'
  BY DEF ServerSends, ServerSendsPart, Post, ReadyInv, ClientInv, LinkInv
<1>2. /\ \A i \in On("client") : ~ PartAt("client", i, "options")
      /\ "options" \notin received
  BY <1>1 DEF ReadyInv, PartsInv
<1>3. PICK f : f = Binary("options")
  OBVIOUS
<1>4. f.cmd = "binary" /\ Given("client", <<f>>) /\ IsSequence(<<f>>)
  BY <1>1, <1>3, FramesAre, FewAre, PostIs, Peers
<1>5. CASE Live
  <2>1. "options" \notin listens
    BY <1>2, <1>5 DEF ReadyInv, OptionInv
  <2>2. ~ Follows
    BY <2>1, FollowsIs
  <2>3. socket["client"] # "closed"
    BY <1>5 DEF Live
  <2>4. PICK m : m = Len(chan["client"]) + 1
    OBVIOUS
  <2>5. m = Len(chan'["client"])
    <3>1. Len(chan'["client"]) = Len(chan["client"]) - 0 + Len(<<f>>)
      BY <1>4, <2>3 DEF Given, Moves
    <3>2. Len(<<f>>) = 1 /\ Len(chan["client"]) \in Nat
      BY <1>1, FewAre, SequenceHas, Peers DEF Chans
    <3>3. QED
      BY <2>4, <3>1, <3>2
  <2>6. Follows'
    <3>1. \A i \in 1..Len(chan'["client"]) : \/ i \in On("client") /\ chan'["client"][i] = chan["client"][i]
                                             \/ chan'["client"][i] = f
      BY <1>1, <1>4, GivenOne, Peers
    <3>2. QED
      BY <1>1, <1>4, <1>5, <3>1 DEF Follows, Live, Closes, On
  <2>7. ShownAfter(m)' = property
    BY <1>1, <2>5, <2>6, LatestWillBeSource
  <2>8. OnTheWay' = Append(OnTheWay, property)
    BY <1>1, <1>2, <1>4, <2>3, <2>4, <2>7, GivenState
  <2>9. QED
    BY <1>1, <2>2, <2>6, <2>8 DEF Shared!Attach
<1>6. CASE ~ Live
  <2>1. \A i \in 1..Len(chan'["client"]) : i \notin On("client") => \A o \in Options : i \notin Touching(o)'
    BY <1>1, <1>4, <1>6, NotReached DEF Touching
  <2>2. Shared!Others
    BY <1>1, <1>2, <1>4, <2>1, GivenOthers
  <2>3. ~ Follows'
    BY <1>6, FollowsNext
  <2>4. QED
    BY <1>1, <2>2, <2>3 DEF Shared!Pass, Follows
<1>7. QED
  BY <1>5, <1>6

\* What the client takes of the handshake sets no option; or it closes.
LEMMA TextIs ==
    ASSUME ReadyInv, AreFunctions', ClientText, UNCHANGED clientVars
    PROVE  Shared!CatchUp \/ Shared!Lose
<1>1. /\ Chans /\ Chans' /\ chan["client"] # <<>> /\ Taken("client") /\ Arrives("client")
      /\ UNCHANGED <<property, packed, shown, listens>>
      /\ Head(chan["client"]).cmd \in {"PROTOCOL", "AUTH", "START", "ERROR"}
  BY ClientTextIs DEF ReadyInv, ClientInv, LinkInv, clientVars, daemonVars, shownVars, ClientText, Text
<1>2. \E st : \E closes \in BOOLEAN : \E frames : Processes("client", st, closes, frames)
  BY ClientTextIs, Zenon DEF ReadyInv, ClientInv
<1>3. socket'["client"] = socket["client"] \/ socket'["client"] = "closing"
  BY <1>2, Peers DEF Processes, ReadyInv, ClientInv, LinkInv, LinkTypeOK
<1>4. 1 \in On("client") /\ Head(chan["client"]) = chan["client"][1]
  BY <1>1, TakenFrames, Peers
<1>5. CASE socket'["client"] = socket["client"]
  <2>1. Reaches(1)
    <3>1. \A j \in 1..1 : j = 1
      OBVIOUS
    <3>2. QED
      BY <1>1, <1>4, <3>1 DEF Reaches, Arrives
  <2>2. \A o : 1 \notin Touching(o)
    BY <1>1, <1>4 DEF Touching, ChangeAt, PartAt
  <2>3. QED
    BY <1>1, <1>5, <2>1, <2>2, TakenCatchesUp
<1>6. CASE socket'["client"] = "closing"
  <2>1. \A i \in 1..Len(chan'["client"]) : \A o \in Options : i \notin Touching(o)'
    BY <1>6 DEF Touching, Reaches
  <2>2. OnTheWay' = Shared!Repeated(shown, Len(OnTheWay'))
    BY <1>1, <2>1, NoneReach
  <2>3. Follows' = FALSE
    BY <1>6 DEF Follows
  <2>4. QED
    BY <1>1, <2>2, <2>3 DEF Shared!Lose
<1>7. QED
  BY <1>3, <1>5, <1>6

\* A part that arrives: the options part sets every option.
LEMMA PartIs ==
    ASSUME ReadyInv, ReadyInv', AreFunctions, AreFunctions', ClientGets
    PROVE  Shared!CatchUp
<1> PICK p : p = Head(chan["client"]).arg
  OBVIOUS
<1>1. /\ Chans /\ Chans' /\ PartsInv /\ LinkInv
      /\ Arrives("client") /\ chan["client"] # <<>> /\ 1 \in On("client")
      /\ Head(chan["client"]) = chan["client"][1] /\ chan["client"][1].cmd = "binary"
      /\ stage["client"] = "Authenticated"
  BY BinaryIs, Peers DEF ReadyInv, ClientInv, LinkInv, ClientGets, ClientBinary
<1>2. /\ UNCHANGED <<property, listens>> /\ socket'["client"] = socket["client"]
      /\ \E frames \in {<<>>, <<Binary("acquire")>>} : Sends("client", frames)
  BY <1>1 DEF ClientGets, ClientBinary, daemonVars
<1>3. Taken("client")
  BY <1>1, <1>2, AnswerIs, FewAre, Peers
<1>4. Reaches(1)
  <2>1. \A j \in 1..1 : j = 1
    OBVIOUS
  <2>2. QED
    BY <1>1, <2>1 DEF Reaches, Arrives
<1>5. "options" # "objects"
  BY RemoteLinkAssumption, RemoteClientAssumption
<1>6. \A o : ~ ChangeAt(1, o)
  BY <1>1 DEF ChangeAt
<1>7. CASE p = "options"
  <2>1. shown' = packed
    BY <1>1, <1>5, <1>7 DEF ClientGets
  <2>2. PartAt("client", 1, "options")
    BY <1>1, <1>7 DEF PartAt
  <2>3. \A o : 1 \in Touching(o)
    BY <1>1, <1>4, <2>2 DEF Touching, On
  <2>4. \A o : Sets(1, o) = packed[o]
    BY <1>6 DEF Sets
  <2>5. \A i \in On("client") : i > 1 => ~ PartAt("client", i, "options")
    <3>1. \A i \in On("client") : PartAt("client", i, "options") => i = 1
      BY <1>1, <2>2 DEF PartsInv
    <3>2. QED
      BY <3>1
  <2>6. \A o \in Options : shown'[o] = IF 1 \in Touching(o) THEN Sets(1, o) ELSE shown[o]
    BY <2>1, <2>3, <2>4
  <2>7. QED
    BY <1>1, <1>2, <1>3, <1>4, <2>5, <2>6, TakenCatchesUp
<1>8. CASE p # "options"
  <2>1. UNCHANGED <<shown, packed>>
    BY <1>8 DEF ClientGets, shownVars
  <2>2. \A o : 1 \notin Touching(o)
    BY <1>1, <1>6, <1>8 DEF Touching, PartAt
  <2>3. QED
    BY <1>1, <1>2, <1>3, <1>4, <2>1, <2>2, TakenCatchesUp
<1>9. QED
  BY <1>7, <1>8

\* Replies and signals set no option, a change sets one.
LEMMA DataIs ==
    ASSUME ReadyInv, ReadyInv', AreFunctions, AreFunctions', ClientChanged \/ ClientReply \/ ClientSignal
    PROVE  Shared!CatchUp
<1>1. /\ Chans /\ Chans' /\ Arrives("client") /\ Sends("client", <<>>) /\ chan["client"] # <<>>
      /\ UNCHANGED <<property, listens, packed>> /\ socket'["client"] = socket["client"]
  BY DEF ReadyInv, ClientInv, LinkInv, ClientChanged, ClientReply, ClientSignal, Takes, Arrives,
     linkVars, daemonVars, shownVars
<1>2. Taken("client")
  BY <1>1, AnswerIs, FewAre, Peers
<1>3. 1 \in On("client") /\ Head(chan["client"]) = chan["client"][1]
  BY <1>1, <1>2, TakenFrames, Peers
<1>4. chan["client"][1].cmd \in {"changed", "reply", "signal"}
  BY <1>3 DEF ClientChanged, ClientReply, ClientSignal, Takes
<1>5. Reaches(1)
  <2>1. \A j \in 1..1 : j = 1
    OBVIOUS
  <2>2. QED
    BY <1>1, <1>4, <2>1 DEF Reaches, Arrives
<1>6. \A o : ~ PartAt("client", 1, "options")
  BY <1>4 DEF PartAt
<1>7. \A o : 1 \in Touching(o) <=> ChangeAt(1, o)
  BY <1>3, <1>5, <1>6 DEF Touching, On
<1>8. \A o \in Options : shown'[o] = IF 1 \in Touching(o) THEN Sets(1, o) ELSE shown[o]
  <2>1. CASE ClientChanged
    <3>1. PICK a : a = chan["client"][1].arg
      OBVIOUS
    <3>2. chan["client"][1].cmd = "changed" /\ shown' = [shown EXCEPT ![a.name] = a.value]
      BY <1>3, <2>1, <3>1 DEF ClientChanged, Takes
    <3>3. DOMAIN shown = Options
      BY DEF ReadyInv, ClientInv, PropertyInv
    <3>4. \A o : (ChangeAt(1, o) <=> a.name = o) /\ (ChangeAt(1, o) => Sets(1, o) = a.value)
      BY <3>1, <3>2 DEF ChangeAt, Sets
    <3>5. QED
      BY <1>7, <3>2, <3>3, <3>4
  <2>2. CASE ClientReply \/ ClientSignal
    <3>1. shown' = shown
      BY <2>2 DEF ClientReply, ClientSignal, shownVars
    <3>2. chan["client"][1].cmd # "changed"
      BY <1>3, <2>2 DEF ClientReply, ClientSignal, Takes
    <3>3. \A o : ~ ChangeAt(1, o)
      BY <3>2 DEF ChangeAt
    <3>4. QED
      BY <1>7, <3>1, <3>3
  <2>3. QED
    BY <2>1, <2>2
<1>9. QED
  BY <1>1, <1>2, <1>5, <1>8, TakenCatchesUp

LEMMA FunctionsStep ==
    ASSUME PropertyInv, AreFunctions, NextClient \/ UNCHANGED allVars
    PROVE  AreFunctions'
<1> DEFINE Is(f) == f = [o \in Options |-> f[o]]
<1>1. Is(property) /\ Is(packed) /\ Is(shown)
  BY DEF AreFunctions
<1> SUFFICES Is(property') /\ Is(packed') /\ Is(shown')
  BY DEF AreFunctions
<1>2. Is(NoProperties)
  BY DEF NoProperties
<1>3. ASSUME NEW f, Is(f), NEW o, NEW d
      PROVE  Is([f EXCEPT ![o] = d])
  BY <1>3
<1>4. \A f : property' # property => \E o, d : property' = [property EXCEPT ![o] = d]
  <2>1. CASE ServerSet
    BY <2>1 DEF ServerSet, SetsProperty
  <2>2. ASSUME NEW o \in Options, NEW d \in DataOf[o], daemonSets(o, d)
        PROVE  property' # property => property' = [property EXCEPT ![o] = d]
    BY <2>2 DEF daemonSets, SetsProperty
  <2>3. CASE ~ ServerSet /\ ~ \E o \in Options : \E d \in DataOf[o] : daemonSets(o, d)
    BY <2>3 DEF NextClient, ClientTakes, ServerTakes, Connects, ServerSends, ClientGets, ClientChanged, ClientReply,
       ClientSignal, ServerInvoke, clientSets, call, networkTurns, returns, clientVars, daemonVars, allVars
  <2>4. QED
    BY <2>1, <2>2, <2>3
<1>5. Is(property')
  BY <1>1, <1>3, <1>4
<1>6. packed' \in {packed, property, NoProperties}
  BY DEF NextClient, ClientTakes, ServerTakes, Connects, ServerSends, ClientGets, ClientChanged, ClientReply,
     ClientSignal, ServerSet, ServerInvoke, daemonSets, clientSets, call, networkTurns, returns,
     clientVars, shownVars, allVars
<1>7. shown' \in {shown, packed, NoProperties} \/ \E o, d : shown' = [shown EXCEPT ![o] = d]
  BY DEF NextClient, ClientTakes, ServerTakes, Connects, ServerSends, ClientGets, ClientChanged, ClientReply,
     ClientSignal, ServerSet, ServerInvoke, daemonSets, clientSets, call, networkTurns, returns,
     clientVars, shownVars, allVars
<1>8. QED
  BY <1>1, <1>2, <1>3, <1>5, <1>6, <1>7

LEMMA ReplicaStep ==
    ASSUME ReadyInv, ReadyInv', AreFunctions, AreFunctions', NextClient \/ UNCHANGED allVars
    PROVE  Shared!Next
<1> DEFINE K == {"changed"}
           P == {"options"}
<1>0. /\ LinkInv /\ Chans /\ Chans' /\ K \cap {"PROTOCOL", "AUTH", "START", "ERROR", "binary"} = {}
      /\ "objects" \notin P /\ "close" \notin K
  BY RemoteLinkAssumption, RemoteClientAssumption DEF ReadyInv, ClientInv, LinkInv
<1>1. ASSUME ~ Connects
      PROVE  Live' => Live
  BY <1>1, CloseStep DEF ReadyInv, ClientInv
<1>2. CASE Connects
  <2>1. /\ chan'["client"] = <<Frame("PROTOCOL", ServerVersion)>> /\ listens' = {}
        /\ shown' = NoProperties /\ property' = property
    BY <1>2, Peers DEF Connects, initilizeReplica
  <2>2. Len(chan'["client"]) = 1 /\ chan'["client"][1] = Frame("PROTOCOL", ServerVersion)
    BY <2>1, FewAre
  <2>3. \A i \in 1..Len(chan'["client"]) : chan'["client"][i].cmd = "PROTOCOL"
    BY <2>2, FramesAre
  <2>4. \A i \in 1..Len(chan'["client"]) : \A o \in Options : i \notin Touching(o)'
    BY <2>3 DEF Touching, ChangeAt, PartAt
  <2>5. OnTheWay' = Shared!Repeated(NoProperties, Len(OnTheWay'))
    BY <1>0, <2>1, <2>4, NoneReach
  <2>6. Follows' = FALSE
    BY <2>1 DEF Follows
  <2>7. QED
    BY <2>1, <2>5, <2>6 DEF Shared!Next, Shared!Renew
<1>3. CASE ~ Connects
 <2> USE <1>3
 <2>0. Live' => Live
   BY <1>1
 <2>1. ASSUME /\ UNCHANGED <<property, packed, shown>> /\ socket'["client"] = socket["client"]
              /\ "options" \in listens' => "options" \in listens,
              \E frames : IsSequence(frames) /\ Given("client", frames) /\ \A k \in 1..Len(frames) : ~ Of(frames[k], K, P)
       PROVE  Shared!Next
   <3>1. PICK frames : IsSequence(frames) /\ Given("client", frames) /\ \A k \in 1..Len(frames) : ~ Of(frames[k], K, P)
     BY <2>1
   <3>2. Follows' => Follows
     BY <2>0, <2>1, FollowsIs, FollowsNext
   <3>3. Shared!Pass
     BY <1>0, <2>1, <3>1, <3>2, PassIs
   <3>4. QED
     BY <3>3 DEF Shared!Next
 <2>2. ASSUME /\ UNCHANGED <<property, shown>> /\ Len(chan'["client"]) \in {0, 1}
              /\ ~ Live' /\ \A i \in 1..Len(chan'["client"]) : ~ Reaches(i)'
       PROVE  Shared!Next
   <3>1. \A i \in 1..Len(chan'["client"]) : \A o \in Options : i \notin Touching(o)'
     BY <2>2 DEF Touching
   <3>2. OnTheWay' = Shared!Repeated(shown, Len(OnTheWay'))
     BY <1>0, <2>2, <3>1, NoneReach
   <3>3. Follows' = FALSE
     BY <2>2, FollowsNext DEF Follows
   <3>4. QED
     BY <2>2, <3>2, <3>3 DEF Shared!Next, Shared!Lose
 <2>3. CASE ServerSet \/ \E o \in Options : \E d \in DataOf[o] : daemonSets(o, d)
   <3>1. PICK o, d : Setting(o, d)
     BY <1>0, <2>3, ChangesGiven
   <3>2. o \in Options
     <4>1. CASE ServerSet
       <5>1. Arrives("server") /\ Head(chan["server"]).cmd = "set"
         BY <4>1 DEF ServerSet, Takes
       <5>2. Head(chan["server"]) \in Frames("server")
         BY <1>0, <5>1, HeadIs, Peers DEF Frames
       <5>3. Head(chan["server"]).arg.name \in Options
         BY <5>1, <5>2 DEF ReadyInv, ClientInv, PropertyInv
       <5>4. QED
         BY <3>1, <5>3 DEF Setting
     <4>2. CASE ~ ServerSet
       BY <3>1, <4>2 DEF Setting
     <4>3. QED
       BY <4>1, <4>2
   <3>3. UNCHANGED <<packed, shown, listens>> /\ socket'["client"] = socket["client"]
     BY <2>3 DEF ServerSet, daemonSets, linkVars, shownVars
   <3>4. QED
     BY <2>0, <3>1, <3>2, <3>3, ChangeIs DEF Shared!Next
 <2>4. CASE ClientChanged \/ ClientReply \/ ClientSignal
   BY <2>4, DataIs DEF Shared!Next
 <2>5. CASE ClientText /\ UNCHANGED clientVars
   BY <2>5, TextIs DEF Shared!Next
 <2>6. CASE ClientGets
   BY <2>6, PartIs DEF Shared!Next
 <2>7. CASE (ServerText \/ ServerBinary) /\ UNCHANGED clientVars
   <3>1. \E frames : IsSequence(frames) /\ Given("client", frames) /\ \A k \in 1..Len(frames) : ~ Of(frames[k], K, P)
     BY <1>0, <2>7, GivesFrames
   <3>2. UNCHANGED <<property, packed, shown, listens>>
     BY <2>7 DEF clientVars, daemonVars, shownVars
   <3>3. socket'["client"] = socket["client"]
     <4>1. CASE ServerText
       <5>1. \E st : \E closes \in BOOLEAN : \E frames : Processes("server", st, closes, frames)
         BY <1>0, <4>1, ServerTextIs, Zenon
       <5>2. QED
         BY <1>0, <5>1, Peers DEF Processes, LinkInv, LinkTypeOK
     <4>2. CASE ServerBinary
       BY <4>2 DEF ServerBinary
     <4>3. QED
       BY <2>7, <4>1, <4>2
   <3>4. QED
     BY <2>1, <3>1, <3>2, <3>3
 <2>8. ASSUME NEW p \in Parts, ServerSends(p), p # "options"
       PROVE  Shared!Next
   <3>1. /\ Post("client", Binary(p)) /\ UNCHANGED <<property, packed, shown>> /\ socket' = socket
         /\ "options" \in listens' => "options" \in listens
     BY <2>8 DEF ServerSends, ServerSendsPart, Post
   <3>2. ~ Of(Binary(p), K, P)
     BY <2>8, FramesAre DEF Of
   <3>3. \E frames : IsSequence(frames) /\ Given("client", frames) /\ \A k \in 1..Len(frames) : ~ Of(frames[k], K, P)
     BY <1>0, <3>1, <3>2, GivesFrames
   <3>4. QED
     BY <2>1, <3>1, <3>3
 <2>9. CASE ServerSends("options")
   BY <2>0, <2>9, AttachIs DEF Shared!Next
 <2>10. CASE ServerInvoke
   <3>1. PICK f : f.cmd = "reply" /\ Sends("server", <<f>>)
     BY <2>10, FramesAre DEF ServerInvoke
   <3>2. ~ Of(f, K, P) /\ Arrives("server")
     BY <2>10, <3>1 DEF Of, ServerInvoke, Takes
   <3>3. \E frames : IsSequence(frames) /\ Given("client", frames) /\ \A k \in 1..Len(frames) : ~ Of(frames[k], K, P)
     BY <1>0, <3>1, <3>2, GivesFrames
   <3>4. UNCHANGED <<property, packed, shown, listens, socket>>
     BY <2>10 DEF ServerInvoke, linkVars, shownVars
   <3>5. QED
     BY <2>1, <3>3, <3>4
 <2>11. CASE networkTurns
   <3>1. PICK f : f = Frame("signal", started')
     OBVIOUS
   <3>2. PICK frames : frames = Told("manager", f)
     OBVIOUS
   <3>3. f.cmd = "signal"
     <4>1. \A b : Frame("signal", b).cmd = "signal"
       BY FramesAre
     <4>2. Frame("signal", started').cmd = "signal"
       BY <4>1, Zenon
     <4>3. QED
       BY <3>1, <4>2, Zenon
   <3>4. chan' = [chan EXCEPT !["client"] = IF socket["client"] = "closed" THEN @ ELSE @ \o frames]
     BY <2>11, <3>1, <3>2 DEF networkTurns
   <3>5. IsSequence(frames) /\ \A k \in 1..Len(frames) : frames[k] = f
     <4>1. CASE frames = <<>>
       BY <4>1, FewAre
     <4>2. CASE frames = <<f>>
       <5>1. IsSequence(frames) /\ Len(frames) = 1 /\ frames[1] = f
         BY <4>2, FewAre
       <5>2. QED
         BY <5>1
     <4>3. QED
       BY <3>2, <4>1, <4>2, ToldAre
   <3>6. Given("client", frames)
     BY <1>0, <3>4, <3>5, AddsIs, Peers
   <3>7. \A k \in 1..Len(frames) : ~ Of(frames[k], K, P)
     BY <3>3, <3>5 DEF Of
   <3>8. UNCHANGED <<property, packed, shown, listens, socket>>
     BY <2>11 DEF networkTurns, linkVars, shownVars
   <3>9. QED
     BY <2>1, <3>5, <3>6, <3>7, <3>8
 <2>12. CASE \/ \E o \in Options : \E d \in DataOf[o] : clientSets(o, d)
             \/ \E k \in Kinds : call(k)
             \/ returns \/ UNCHANGED allVars
   <3>1. (\E f : Post("server", f)) \/ chan'["client"] = chan["client"]
     BY <2>12 DEF clientSets, call, returns, allVars, vars, ends
   <3>2. \E frames : IsSequence(frames) /\ Given("client", frames) /\ \A k \in 1..Len(frames) : ~ Of(frames[k], K, P)
     BY <1>0, <3>1, GivesFrames
   <3>3. UNCHANGED <<property, packed, shown, listens, socket>>
     BY <2>12 DEF clientSets, call, returns, linkVars, daemonVars, shownVars, allVars, vars, ends, clientVars
   <3>4. QED
     BY <2>1, <3>2, <3>3
 <2>13. CASE Drop /\ UNCHANGED clientVars
   <3>1. UNCHANGED <<property, shown>> /\ chan'["client"] \in {<<>>, <<CLOSE>>} /\ ~ Live'
     BY <1>0, <2>0, <2>13, EndsLive, Peers DEF Drop, clientVars, daemonVars, shownVars, ReadyInv
   <3>2. /\ Len(chan'["client"]) \in {0, 1}
         /\ \A i \in 1..Len(chan'["client"]) : chan'["client"][i].cmd = "close"
     <4>1. CASE chan'["client"] = <<>>
       BY <4>1, FewAre
     <4>2. CASE chan'["client"] = <<CLOSE>>
       <5>1. Len(chan'["client"]) = 1 /\ chan'["client"][1] = CLOSE
         BY <4>2, FewAre
       <5>2. QED
         BY <5>1, FramesAre
     <4>3. QED
       BY <3>1, <4>1, <4>2
   <3>3. \A i \in 1..Len(chan'["client"]) : ~ Reaches(i)'
     <4>1. \A i \in 1..Len(chan'["client"]) : i \in 1..i
       OBVIOUS
     <4>2. QED
       BY <3>2, <4>1 DEF Reaches
   <3>4. QED
     BY <2>2, <3>1, <3>2, <3>3
 <2>14. CASE (Closed("client") \/ GetsClose("client")) /\ UNCHANGED clientVars
   <3>1. UNCHANGED <<property, shown>> /\ chan'["client"] = <<>> /\ socket'["client"] = "closed"
     BY <1>0, <2>14, Peers
        DEF Closed, GetsClose, Disconnected, clientVars, daemonVars, shownVars, LinkInv, LinkTypeOK, Chans
   <3>2. Len(chan'["client"]) = 0 /\ ~ Live'
     BY <3>1, FewAre DEF Live
   <3>3. \A i \in 1..Len(chan'["client"]) : ~ Reaches(i)'
     BY <3>2
   <3>4. QED
     BY <2>2, <3>1, <3>2, <3>3
 <2>15. ASSUME Closed("server") \/ GetsClose("server"), listens' = {}, UNCHANGED <<property, shownVars>>
        PROVE  Shared!Next
   <3>1. chan'["client"] = chan["client"] /\ socket'["client"] = socket["client"]
     BY <1>0, <2>15, Peers DEF Closed, GetsClose, Disconnected, LinkInv, LinkTypeOK, Chans
   <3>2. \E frames : IsSequence(frames) /\ Given("client", frames) /\ \A k \in 1..Len(frames) : ~ Of(frames[k], K, P)
     BY <1>0, <3>1, GivesFrames
   <3>3. QED
     BY <2>1, <2>15, <3>1, <3>2 DEF shownVars
 <2>16. QED
   BY <2>3, <2>4, <2>5, <2>6, <2>7, <2>8, <2>9, <2>10, <2>11, <2>12, <2>13, <2>14, <2>15
      DEF NextClient, ClientTakes, ServerTakes
<1>4. QED
  BY <1>2, <1>3

\* The client's options replay the history of the daemon's properties from the
\* options part on, for any options and values, however often the connection is
\* lost and made again and whatever else is on its way.
THEOREM ImplementsReplica == SpecClient => ReplicaSpec
<1>1. InitClient => Shared!Init /\ AreFunctions
  <2> SUFFICES ASSUME InitClient PROVE Shared!Init /\ AreFunctions
    OBVIOUS
  <2>1. /\ shown = NoProperties /\ packed = NoProperties /\ listens = {} /\ chan["client"] = <<>>
        /\ \E file \in OptionFiles : property = [o \in Options |-> Populated(file[o])]
    BY Peers DEF InitClient, Init
  <2>2. OnTheWay = <<>>
    BY <2>1, FewAre DEF OnTheWay
  <2>3. Follows = FALSE
    BY <2>1 DEF Follows
  <2>4. AreFunctions
    BY <2>1 DEF AreFunctions, NoProperties
  <2>5. QED
    BY <2>1, <2>2, <2>3, <2>4 DEF Shared!Init
<1>2. ReadyInv /\ AreFunctions /\ [NextClient]_allVars => AreFunctions'
  BY FunctionsStep DEF ReadyInv, ClientInv
<1>3. ReadyInv /\ ReadyInv' /\ AreFunctions /\ AreFunctions' /\ [NextClient]_allVars => [Shared!Next]_(Shared!vars)
  BY ReplicaStep
<1>4. QED
  BY <1>1, <1>2, <1>3, ReadyInductive, PTL DEF SpecClient, ReplicaSpec, Shared!Spec

=============================================================================
