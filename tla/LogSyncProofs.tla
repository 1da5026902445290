--------------------------- MODULE LogSyncProofs ---------------------------
(***************************************************************************)
(* Proofs about LogSync: type correctness, LogBounded and FirstSyncExact.  *)
(* The heart of the inductive invariant is Stream: along the signals on    *)
(* the way to a client a count runs of the older lines, from what the      *)
(* client has to what the daemon sent; every older line is the next one,   *)
(* and the end is told where the count is complete.                        *)
(***************************************************************************)
EXTENDS LogSync, FiniteSetTheorems, TLAPS

-----------------------------------------------------------------------------
(* The buffers.                                                            *)

LEMMA MinIs ==
    ASSUME NEW a \in Int, NEW b \in Int
    PROVE  Min({a, b}) = IF a < b THEN a ELSE b
<1>1. CASE a < b
  <2>1. a \in {a, b} /\ \A y \in {a, b} : a =< y
    BY <1>1
  <2>2. \A x \in {a, b} : (\A y \in {a, b} : x =< y) => x = a
    BY <1>1
  <2>3. QED
    BY <1>1, <2>1, <2>2 DEF Min
<1>2. CASE ~(a < b)
  <2>1. b \in {a, b} /\ \A y \in {a, b} : b =< y
    BY <1>2
  <2>2. \A x \in {a, b} : (\A y \in {a, b} : x =< y) => x = b
    BY <1>2
  <2>3. QED
    BY <1>2, <2>1, <2>2 DEF Min
<1>3. QED
  BY <1>1, <1>2

\* Entry j of the last o lines of sn followed by the lines nw.
Entry(sn, o, nw, j) == IF j <= o THEN sn[Len(sn) - o + j] ELSE nw[j - o]

\* A log of size mx has the newest of these.
Shows(lg, mx, sn, o, nw) ==
    /\ Len(lg) = IF mx < o + Len(nw) THEN mx ELSE o + Len(nw)
    /\ \A i \in 1..Len(lg) : lg[i] = Entry(sn, o, nw, o + Len(nw) - Len(lg) + i)

\* A new line is appended.
LEMMA BackShows ==
    ASSUME NEW X, NEW lg \in Seq(X), NEW mx \in Nat \ {0}, NEW sn \in Seq(X),
           NEW o \in 0..Len(sn), NEW nw \in Seq(X), NEW line \in X,
           Shows(lg, mx, sn, o, nw)
    PROVE  Shows(Append(IF Len(lg) >= mx THEN Tail(lg) ELSE lg, line), mx, sn, o, Append(nw, line))
<1>1. PICK nn : nn = Append(nw, line)
  OBVIOUS
<1>2. /\ Len(nn) = Len(nw) + 1 /\ Len(nw) \in Nat /\ Len(lg) \in Nat /\ o \in Nat
      /\ \A i \in 1..Len(nw) : nn[i] = nw[i]
      /\ nn[Len(nw) + 1] = line
  BY <1>1
<1>3. \A j \in 1..o + Len(nw) : Entry(sn, o, nn, j) = Entry(sn, o, nw, j)
  BY <1>2 DEF Entry
<1>4. Entry(sn, o, nn, o + Len(nw) + 1) = line
  BY <1>2 DEF Entry
<1>5. CASE Len(lg) >= mx
  <2>1. Len(lg) = mx /\ mx <= o + Len(nw)
    BY <1>2, <1>5 DEF Shows
  <2>2. PICK ln : ln = Append(Tail(lg), line)
    OBVIOUS
  <2>3. /\ Len(ln) = mx /\ ln[mx] = line
        /\ \A i \in 1..mx - 1 : ln[i] = lg[i + 1]
    BY <2>1, <2>2
  <2>4. ASSUME NEW i \in 1..mx
        PROVE  ln[i] = Entry(sn, o, nn, o + Len(nn) - mx + i)
    <3>1. CASE i = mx
      <4>1. o + Len(nn) - mx + i = o + Len(nw) + 1
        BY <1>2, <3>1
      <4>2. QED
        BY <1>4, <2>3, <3>1, <4>1
    <3>2. CASE i # mx
      <4>1. /\ i + 1 \in 1..Len(lg) /\ i \in 1..mx - 1
            /\ o + Len(nn) - mx + i = o + Len(nw) - Len(lg) + (i + 1)
            /\ o + Len(nn) - mx + i \in 1..o + Len(nw)
        BY <1>2, <2>1, <3>2
      <4>2. lg[i + 1] = Entry(sn, o, nw, o + Len(nw) - Len(lg) + (i + 1))
        BY <4>1 DEF Shows
      <4>3. QED
        BY <1>3, <2>3, <4>1, <4>2
    <3>3. QED
      BY <3>1, <3>2
  <2>5. QED
    <3>1. Shows(ln, mx, sn, o, nn)
      BY <1>2, <2>1, <2>3, <2>4 DEF Shows
    <3>2. QED
      BY <1>1, <1>5, <2>2, <3>1
<1>6. CASE Len(lg) < mx
  <2>1. Len(lg) = o + Len(nw)
    BY <1>2, <1>6 DEF Shows
  <2>2. PICK ln : ln = Append(lg, line)
    OBVIOUS
  <2>3. /\ Len(ln) = Len(lg) + 1 /\ ln[Len(lg) + 1] = line
        /\ \A i \in 1..Len(lg) : ln[i] = lg[i]
    BY <2>2
  <2>4. ASSUME NEW i \in 1..Len(ln)
        PROVE  ln[i] = Entry(sn, o, nn, o + Len(nn) - Len(ln) + i)
    <3>1. o + Len(nn) - Len(ln) + i = i
      BY <1>2, <2>1, <2>3
    <3>2. CASE i = Len(lg) + 1
      BY <1>4, <2>1, <2>3, <3>1, <3>2
    <3>3. CASE i \in 1..Len(lg)
      <4>1. lg[i] = Entry(sn, o, nw, o + Len(nw) - Len(lg) + i)
        BY <3>3 DEF Shows
      <4>2. o + Len(nw) - Len(lg) + i = i
        BY <1>2, <2>1
      <4>3. QED
        BY <1>3, <2>1, <2>3, <3>1, <3>3, <4>1, <4>2
    <3>4. QED
      BY <1>2, <2>3, <3>2, <3>3
  <2>5. QED
    <3>1. Shows(ln, mx, sn, o, nn)
      BY <1>2, <1>6, <2>1, <2>3, <2>4 DEF Shows
    <3>2. QED
      BY <1>1, <1>2, <1>6, <2>2, <3>1
<1>7. QED
  BY <1>2, <1>5, <1>6

\* The next older line is put in front when there is room.
LEMMA FrontShows ==
    ASSUME NEW X, NEW lg \in Seq(X), NEW mx \in Nat \ {0}, NEW sn \in Seq(X),
           NEW o \in Nat, o < Len(sn), NEW nw \in Seq(X), NEW line \in X, line = sn[Len(sn) - o],
           Shows(lg, mx, sn, o, nw)
    PROVE  Shows(IF Len(lg) >= mx THEN lg ELSE <<line>> \o lg, mx, sn, o + 1, nw)
<1>1. Len(nw) \in Nat /\ Len(lg) \in Nat /\ Len(sn) \in Nat
  OBVIOUS
<1>2. \A j \in 1..o + Len(nw) : Entry(sn, o + 1, nw, j + 1) = Entry(sn, o, nw, j)
  BY <1>1 DEF Entry
<1>3. Entry(sn, o + 1, nw, 1) = line
  BY <1>1 DEF Entry
<1>4. CASE Len(lg) >= mx
  <2>1. Len(lg) = mx /\ mx <= o + Len(nw)
    BY <1>1, <1>4 DEF Shows
  <2>2. ASSUME NEW i \in 1..Len(lg)
        PROVE  lg[i] = Entry(sn, o + 1, nw, o + 1 + Len(nw) - Len(lg) + i)
    <3>1. /\ o + Len(nw) - Len(lg) + i \in 1..o + Len(nw)
          /\ o + 1 + Len(nw) - Len(lg) + i = (o + Len(nw) - Len(lg) + i) + 1
      BY <1>1, <2>1
    <3>2. lg[i] = Entry(sn, o, nw, o + Len(nw) - Len(lg) + i)
      BY DEF Shows
    <3>3. QED
      BY <1>2, <3>1, <3>2
  <2>3. QED
    <3>1. Shows(lg, mx, sn, o + 1, nw)
      <4>1. Len(lg) = IF mx < o + 1 + Len(nw) THEN mx ELSE o + 1 + Len(nw)
        BY <1>1, <2>1
      <4>2. QED
        BY <2>2, <4>1 DEF Shows
    <3>2. QED
      BY <1>4, <3>1
<1>5. CASE Len(lg) < mx
  <2>1. Len(lg) = o + Len(nw)
    BY <1>1, <1>5 DEF Shows
  <2>2. PICK ln : ln = <<line>> \o lg
    OBVIOUS
  <2>3. /\ Len(ln) = Len(lg) + 1 /\ ln[1] = line
        /\ \A i \in 1..Len(lg) : ln[i + 1] = lg[i]
    BY <2>2
  <2>4. ASSUME NEW i \in 1..Len(ln)
        PROVE  ln[i] = Entry(sn, o + 1, nw, o + 1 + Len(nw) - Len(ln) + i)
    <3>1. o + 1 + Len(nw) - Len(ln) + i = i
      BY <1>1, <2>1, <2>3
    <3>2. CASE i = 1
      BY <1>3, <2>3, <3>1, <3>2
    <3>3. CASE i # 1
      <4>1. PICK k \in 1..Len(lg) : i = k + 1
        <5>1. i - 1 \in 1..Len(lg) /\ i = (i - 1) + 1
          BY <1>1, <2>3, <3>3
        <5>2. QED
          BY <5>1
      <4>2. lg[k] = Entry(sn, o, nw, o + Len(nw) - Len(lg) + k)
        BY DEF Shows
      <4>3. o + Len(nw) - Len(lg) + k = k /\ k \in 1..o + Len(nw)
        BY <1>1, <2>1
      <4>4. QED
        BY <1>2, <2>3, <3>1, <4>1, <4>2, <4>3
    <3>4. QED
      BY <3>2, <3>3
  <2>5. QED
    <3>1. Shows(ln, mx, sn, o + 1, nw)
      BY <1>1, <1>5, <2>1, <2>3, <2>4 DEF Shows
    <3>2. QED
      BY <1>1, <1>5, <2>2, <3>1
<1>6. QED
  BY <1>1, <1>4, <1>5

\* In the words of FirstSyncExact.
LEMMA ShowsIsSuffix ==
    ASSUME NEW X, NEW lg \in Seq(X), NEW mx \in Nat, NEW sn \in Seq(X),
           NEW o \in 0..Len(sn), NEW nw \in Seq(X), Shows(lg, mx, sn, o, nw)
    PROVE  LET all == SubSeq(sn, Len(sn) - o + 1, Len(sn)) \o nw IN
           IsSuffix(lg, all) /\ Len(lg) = Min({mx, Len(all)})
<1>1. Len(nw) \in Nat /\ Len(lg) \in Nat /\ Len(sn) \in Nat /\ o \in Nat
  OBVIOUS
<1>2. PICK last : last = SubSeq(sn, Len(sn) - o + 1, Len(sn))
  OBVIOUS
<1>3. /\ last \in Seq(X) /\ Len(last) = o
      /\ \A i \in 1..o : last[i] = sn[Len(sn) - o + i]
  <2>1. Len(sn) - o + 1 \in 1..Len(sn) + 1
    BY <1>1
  <2>2. last \in Seq(X) /\ Len(last) = o
    BY <1>1, <1>2, <2>1
  <2>3. ASSUME NEW i \in 1..o PROVE last[i] = sn[Len(sn) - o + i]
    <3>1. last[i] = sn[(Len(sn) - o + 1) + i - 1]
      BY <1>1, <1>2, <2>1
    <3>2. (Len(sn) - o + 1) + i - 1 = Len(sn) - o + i
      BY <1>1
    <3>3. QED
      BY <3>1, <3>2
  <2>4. QED
    BY <2>2, <2>3
<1>4. PICK all : all = last \o nw
  OBVIOUS
<1>5. /\ all \in Seq(X) /\ Len(all) = o + Len(nw)
      /\ \A i \in 1..o : all[i] = last[i]
      /\ \A i \in 1..Len(nw) : all[o + i] = nw[i]
  <2>1. /\ all \in Seq(X) /\ Len(all) = Len(last) + Len(nw)
        /\ \A i \in 1..Len(last) : all[i] = last[i]
        /\ \A i \in 1..Len(nw) : all[Len(last) + i] = nw[i]
    <3>1. last \in Seq(X)
      BY <1>3
    <3>2. all \in Seq(X)
      BY <3>1, <1>4
    <3>3. Len(all) = Len(last) + Len(nw)
      BY <3>1, <1>4
    <3>4. \A i \in 1..Len(last) : all[i] = last[i]
      BY <3>1, <1>4
    <3>5. \A i \in 1..Len(nw) : all[Len(last) + i] = nw[i]
      BY <3>1, <1>4
    <3>6. QED
      BY <3>2, <3>3, <3>4, <3>5
  <2>2. QED
    BY <1>3, <2>1
<1>6. ASSUME NEW j \in 1..Len(all) PROVE all[j] = Entry(sn, o, nw, j)
  <2>1. CASE j <= o
    BY <1>1, <1>3, <1>5, <2>1 DEF Entry
  <2>2. CASE j > o
    <3>1. j - o \in 1..Len(nw) /\ o + (j - o) = j
      BY <1>1, <1>5, <2>2
    <3>2. QED
      BY <1>5, <2>2, <3>1 DEF Entry
  <2>3. QED
    BY <1>1, <1>5, <2>1, <2>2
<1>7. Len(lg) = Min({mx, Len(all)}) /\ Len(lg) <= Len(all)
  <2>1. mx \in Int /\ Len(all) \in Int
    BY <1>1, <1>5
  <2>2. QED
    BY <1>1, <1>5, <2>1, MinIs DEF Shows
<1>8. \A i \in 1..Len(lg) : /\ Len(all) - Len(lg) + i \in 1..Len(all)
                            /\ lg[i] = all[Len(all) - Len(lg) + i]
  <2>1. SUFFICES ASSUME NEW i \in 1..Len(lg)
                 PROVE  /\ Len(all) - Len(lg) + i \in 1..Len(all)
                        /\ lg[i] = all[Len(all) - Len(lg) + i]
    OBVIOUS
  <2>2. Len(all) - Len(lg) + i \in 1..Len(all)
    BY <1>1, <1>5, <1>7
  <2>3. lg[i] = Entry(sn, o, nw, o + Len(nw) - Len(lg) + i)
    BY DEF Shows
  <2>4. QED
    BY <1>5, <1>6, <2>2, <2>3
<1>9. PICK rl, ra : rl = Reverse(lg) /\ ra = Reverse(all)
  OBVIOUS
<1>10. /\ rl \in Seq(X) /\ Len(rl) = Len(lg)
       /\ ra \in Seq(X) /\ Len(ra) = Len(all)
       /\ \A i \in 1..Len(lg) : rl[i] = lg[(Len(lg) - i) + 1]
       /\ \A i \in 1..Len(all) : ra[i] = all[(Len(all) - i) + 1]
  BY <1>1, <1>5, <1>9 DEF Reverse
<1>11. ASSUME NEW i \in 1..Len(lg) PROVE rl[i] = ra[i]
  <2>1. /\ (Len(lg) - i) + 1 \in 1..Len(lg) /\ i \in 1..Len(all)
        /\ Len(all) - Len(lg) + ((Len(lg) - i) + 1) = (Len(all) - i) + 1
    <3>1. Len(lg) \in Nat /\ Len(all) \in Nat /\ Len(lg) <= Len(all)
      BY <1>1, <1>5, <1>7
    <3>2. i \in Nat /\ 1 <= i /\ i <= Len(lg)
      BY <3>1
    <3>3. QED
      BY <3>1, <3>2
  <2>2. QED
    BY <1>8, <1>10, <2>1
<1>12. SubSeq(rl, 1, Len(rl)) = SubSeq(ra, 1, Len(rl))
  <2>1. /\ SubSeq(rl, 1, Len(rl)) \in Seq(X) /\ SubSeq(ra, 1, Len(rl)) \in Seq(X)
        /\ Len(SubSeq(rl, 1, Len(rl))) = Len(lg)
        /\ Len(SubSeq(ra, 1, Len(rl))) = Len(lg)
    <3>1. 1 \in 1..Len(rl) + 1 /\ Len(rl) \in 0..Len(rl) /\ Len(rl) \in 0..Len(ra) /\ Len(rl) \in Nat
      BY <1>1, <1>5, <1>7, <1>10
    <3>2. rl \in Seq(X) /\ ra \in Seq(X)
      BY <1>10
    <3>3. \A i \in 1..Len(rl) : rl[i] \in X /\ ra[i] \in X
      BY <3>1, <3>2
    <3>4. SubSeq(rl, 1, Len(rl)) \in Seq(X) /\ Len(SubSeq(rl, 1, Len(rl))) = Len(rl)
      BY <3>1, <3>2, <3>3
    <3>5. SubSeq(ra, 1, Len(rl)) \in Seq(X) /\ Len(SubSeq(ra, 1, Len(rl))) = Len(rl)
      BY <3>1, <3>2, <3>3
    <3>6. QED
      BY <1>10, <3>4, <3>5
  <2>2. ASSUME NEW i \in 1..Len(lg)
        PROVE  SubSeq(rl, 1, Len(rl))[i] = SubSeq(ra, 1, Len(rl))[i]
    <3>1. SubSeq(rl, 1, Len(rl))[i] = rl[1 + i - 1] /\ 1 + i - 1 = i
      BY <1>1, <1>10
    <3>2. SubSeq(ra, 1, Len(rl))[i] = ra[1 + i - 1]
      BY <1>1, <1>5, <1>7, <1>10
    <3>3. QED
      BY <1>11, <3>1, <3>2
  <2>3. QED
    BY <2>1, <2>2
<1>13. IsSuffix(lg, all)
  BY <1>7, <1>9, <1>10, <1>12 DEF IsSuffix, IsPrefix
<1>14. QED
  BY <1>2, <1>4, <1>7, <1>13

-----------------------------------------------------------------------------
(* The batches.                                                            *)

\* What k calls of sendSyncLogsBatch send and leave.
LEMMA SentIs ==
    ASSUME NEW it \in Seq(Line), NEW k \in Nat
    PROVE  /\ Sent(it, k) \in 0..Len(it)
           /\ Finishes(it, k) => Sent(it, k) = Len(it)
           /\ Left(it, k) \in Seq(Line) /\ Len(Left(it, k)) = Len(it) - Sent(it, k)
           /\ \A i \in 1..Len(Left(it, k)) : i \in 1..Len(it) /\ Left(it, k)[i] = it[i]
<1>1. k * Batch \in Nat
  <2>1. \A x, y \in Nat : x * y \in Nat
    OBVIOUS
  <2>2. QED
    BY <2>1, LogSyncAssumption
<1>2. Len(it) \in Nat
  OBVIOUS
<1>3. Min({k * Batch, Len(it)}) = IF k * Batch < Len(it) THEN k * Batch ELSE Len(it)
  <2>1. k * Batch \in Int /\ Len(it) \in Int
    BY <1>1, <1>2
  <2>2. QED
    BY <2>1, MinIs
<1>4. Sent(it, k) \in 0..Len(it) /\ (Finishes(it, k) => Sent(it, k) = Len(it))
  <2>1. PICK x \in Nat : x = k * Batch
    BY <1>1
  <2>2. QED
    BY <1>2, <1>3, <2>1 DEF Sent, Finishes
<1>5. PICK n \in 0..Len(it) : n = Sent(it, k)
  BY <1>4
<1>6. PICK l : l = SubSeq(it, 1, Len(it) - n)
  OBVIOUS
<1>7. /\ l \in Seq(Line) /\ Len(l) = Len(it) - n
      /\ \A i \in 1..Len(l) : i \in 1..Len(it) /\ l[i] = it[i]
  <2>1. Len(it) - n \in 0..Len(it)
    BY <1>2
  <2>2. l \in Seq(Line) /\ Len(l) = Len(it) - n
    BY <1>2, <1>6, <2>1
  <2>3. ASSUME NEW i \in 1..Len(it) - n PROVE i \in 1..Len(it) /\ l[i] = it[i]
    <3>1. l[i] = it[1 + i - 1] /\ 1 + i - 1 = i
      BY <1>2, <1>6, <2>1
    <3>2. QED
      BY <1>2, <3>1
  <2>4. QED
    BY <2>2, <2>3
<1>8. QED
  BY <1>4, <1>5, <1>6, <1>7 DEF Left

\* The signals: the last entries, the last one first, and perhaps the end.
LEMMA SignalsAre ==
    ASSUME NEW it \in Seq(Line), NEW k \in Nat, NEW sync \in 0..Syncs
    PROVE  /\ Signals(it, k, sync) \in Seq(Signal)
           /\ Len(Signals(it, k, sync)) = Sent(it, k) + IF Finishes(it, k) THEN 1 ELSE 0
           /\ \A i \in 1..Sent(it, k) : /\ Len(it) + 1 - i \in 1..Len(it)
                                        /\ Signals(it, k, sync)[i] = Old(it[Len(it) + 1 - i])
           /\ Finishes(it, k) => Signals(it, k, sync)[Sent(it, k) + 1] = Finished(sync)
<1>1. PICK n \in 0..Len(it) : n = Sent(it, k)
  BY SentIs
<1>2. Len(it) \in Nat /\ n \in Nat
  OBVIOUS
<1>3. PICK olds1 : olds1 = [i \in 1..n |-> Old(it[Len(it) + 1 - i])]
  OBVIOUS
<1>4. \A i \in 1..n : Len(it) + 1 - i \in 1..Len(it)
  BY <1>2
<1>5. \A line \in Line : Old(line) \in Signal
  BY DEF Old, Signal
<1>6. Finished(sync) \in Signal
  BY DEF Finished, Signal
<1>7. \A i \in 1..n : Old(it[Len(it) + 1 - i]) \in Signal
  BY <1>4, <1>5
<1>8. olds1 \in Seq(Signal) /\ Len(olds1) = n
  BY <1>2, <1>3, <1>7
<1>9. PICK end : end = <<Finished(sync)>>
  OBVIOUS
<1>10. end \in Seq(Signal) /\ Len(end) = 1 /\ end[1] = Finished(sync)
  BY <1>6, <1>9
<1>11. CASE Finishes(it, k)
  <2>1. Signals(it, k, sync) = olds1 \o end
    BY <1>1, <1>3, <1>9, <1>11 DEF Signals
  <2>2. olds1 \in Seq(Signal) /\ end \in Seq(Signal)
    BY <1>8, <1>10
  <2>3. /\ olds1 \o end \in Seq(Signal)
        /\ Len(olds1 \o end) = Len(olds1) + Len(end)
        /\ \A i \in 1..Len(olds1) : (olds1 \o end)[i] = olds1[i]
        /\ \A i \in 1..Len(end) : (olds1 \o end)[Len(olds1) + i] = end[i]
    <3>1. olds1 \o end \in Seq(Signal)
      BY <2>2
    <3>2. Len(olds1 \o end) = Len(olds1) + Len(end)
      BY <2>2
    <3>3. \A i \in 1..Len(olds1) : (olds1 \o end)[i] = olds1[i]
      BY <2>2
    <3>4. \A i \in 1..Len(end) : (olds1 \o end)[Len(olds1) + i] = end[i]
      BY <2>2
    <3>5. QED
      BY <3>1, <3>2, <3>3, <3>4
  <2>4. (olds1 \o end)[n + 1] = Finished(sync)
    <3>1. 1 \in 1..Len(end) /\ Len(olds1) = n /\ end[1] = Finished(sync)
      BY <1>8, <1>10
    <3>2. QED
      BY <2>3, <3>1
  <2>5. /\ olds1 \o end \in Seq(Signal) /\ Len(olds1 \o end) = n + 1
        /\ \A i \in 1..n : (olds1 \o end)[i] = olds1[i]
    BY <1>8, <1>10, <2>3
  <2>6. QED
    BY <1>1, <1>3, <1>4, <1>11, <2>1, <2>4, <2>5
<1>12. CASE ~Finishes(it, k)
  <2>1. Signals(it, k, sync) = olds1 \o <<>>
    BY <1>1, <1>3, <1>12 DEF Signals
  <2>2. olds1 \o <<>> = olds1
    BY <1>8
  <2>3. QED
    BY <1>1, <1>2, <1>3, <1>4, <1>8, <1>12, <2>1, <2>2
<1>13. QED
  BY <1>11, <1>12

\* r counts the older lines: before the signal at i, a client has got the last
\* r[i] lines of sn; an older line is the next of them, the end comes when it
\* has all.
Counts(ch, o, sn, b, r) ==
    /\ r \in [1..Len(ch) + 1 -> 0..Len(sn)]
    /\ r[1] = o /\ r[Len(ch) + 1] = b
    /\ \A i \in 1..Len(ch) :
         /\ ch[i].kind = "old" => r[i + 1] = r[i] + 1 /\ ch[i].line = sn[Len(sn) - r[i]]
         /\ ch[i].kind # "old" => r[i + 1] = r[i]
         /\ ch[i].kind = "finished" => r[i] = Len(sn)

\* The signals on the way take a client that has o of the lines of sn to b.
Stream(ch, o, sn, b) == \E r : Counts(ch, o, sn, b, r)

LEMMA HeadStream ==
    ASSUME NEW ch \in Seq(Signal), ch # <<>>, NEW sn \in Seq(Line), NEW o, NEW b,
           Stream(ch, o, sn, b)
    PROVE  /\ o \in 0..Len(sn)
           /\ Head(ch).kind = "old" => /\ o < Len(sn) /\ Head(ch).line = sn[Len(sn) - o]
                                       /\ Stream(Tail(ch), o + 1, sn, b)
           /\ Head(ch).kind # "old" => Stream(Tail(ch), o, sn, b)
           /\ Head(ch).kind = "finished" => o = Len(sn)
<1>1. PICK r : Counts(ch, o, sn, b, r)
  BY DEF Stream
<1>2. PICK t : t = Tail(ch)
  OBVIOUS
<1>3. /\ Len(ch) \in Nat \ {0} /\ Len(t) = Len(ch) - 1 /\ Head(ch) = ch[1]
      /\ \A i \in 1..Len(t) : t[i] = ch[i + 1]
  BY <1>2
<1>4. /\ r \in [1..Len(ch) + 1 -> 0..Len(sn)] /\ r[1] = o /\ r[Len(ch) + 1] = b
      /\ \A i \in 1..Len(ch) :
           /\ ch[i].kind = "old" => r[i + 1] = r[i] + 1 /\ ch[i].line = sn[Len(sn) - r[i]]
           /\ ch[i].kind # "old" => r[i + 1] = r[i]
           /\ ch[i].kind = "finished" => r[i] = Len(sn)
  BY <1>1 DEF Counts
<1>5. PICK q : q = [i \in 1..Len(t) + 1 |-> r[i + 1]]
  OBVIOUS
<1>6. /\ \A i \in 1..Len(t) + 1 : i + 1 \in 1..Len(ch) + 1
      /\ \A i \in 1..Len(t) : i + 1 \in 1..Len(ch) /\ i \in 1..Len(t) + 1 /\ i + 1 \in 1..Len(t) + 1
      /\ 1 \in 1..Len(t) + 1 /\ Len(t) + 1 \in 1..Len(t) + 1 /\ (Len(t) + 1) + 1 = Len(ch) + 1
      /\ 1 \in 1..Len(ch) /\ 2 \in 1..Len(ch) + 1 /\ 1 + 1 = 2
  BY <1>3
<1>7. q \in [1..Len(t) + 1 -> 0..Len(sn)] /\ q[1] = r[2] /\ q[Len(t) + 1] = b
  BY <1>4, <1>5, <1>6
<1>8. ASSUME NEW i \in 1..Len(t)
      PROVE  /\ t[i].kind = "old" => q[i + 1] = q[i] + 1 /\ t[i].line = sn[Len(sn) - q[i]]
             /\ t[i].kind # "old" => q[i + 1] = q[i]
             /\ t[i].kind = "finished" => q[i] = Len(sn)
  <2>1. t[i] = ch[i + 1] /\ q[i] = r[i + 1] /\ q[i + 1] = r[(i + 1) + 1] /\ i + 1 \in 1..Len(ch)
    BY <1>3, <1>5, <1>6
  <2>2. QED
    BY <1>4, <2>1
<1>9. Stream(t, r[2], sn, b)
  BY <1>7, <1>8 DEF Stream, Counts
<1>10. /\ o \in 0..Len(sn) /\ r[2] \in 0..Len(sn) /\ Len(sn) \in Nat
  BY <1>4, <1>6
<1>11. /\ ch[1].kind = "old" => r[2] = o + 1 /\ ch[1].line = sn[Len(sn) - o]
       /\ ch[1].kind # "old" => r[2] = o
       /\ ch[1].kind = "finished" => o = Len(sn)
  BY <1>4, <1>6
<1>12. QED
  BY <1>2, <1>3, <1>9, <1>10, <1>11

\* Frames are appended that continue the count from b.
LEMMA JoinStream ==
    ASSUME NEW ch \in Seq(Signal), NEW more \in Seq(Signal), NEW sn \in Seq(Line),
           NEW o, NEW b, NEW e, Stream(ch, o, sn, b), Stream(more, b, sn, e)
    PROVE  Stream(ch \o more, o, sn, e)
<1>1. PICK r : Counts(ch, o, sn, b, r)
  BY DEF Stream
<1>2. PICK q : Counts(more, b, sn, e, q)
  BY DEF Stream
<1>3. PICK a : a = ch \o more
  OBVIOUS
<1>4. /\ Len(ch) \in Nat /\ Len(more) \in Nat /\ Len(a) = Len(ch) + Len(more)
      /\ \A i \in 1..Len(ch) : a[i] = ch[i]
      /\ \A i \in 1..Len(more) : a[Len(ch) + i] = more[i]
  BY <1>3
<1>5. PICK w : w = [i \in 1..Len(a) + 1 |-> IF i <= Len(ch) + 1 THEN r[i] ELSE q[i - Len(ch)]]
  OBVIOUS
<1>6. /\ r \in [1..Len(ch) + 1 -> 0..Len(sn)] /\ r[1] = o /\ r[Len(ch) + 1] = b
      /\ \A i \in 1..Len(ch) :
           /\ ch[i].kind = "old" => r[i + 1] = r[i] + 1 /\ ch[i].line = sn[Len(sn) - r[i]]
           /\ ch[i].kind # "old" => r[i + 1] = r[i]
           /\ ch[i].kind = "finished" => r[i] = Len(sn)
  BY <1>1 DEF Counts
<1>7. /\ q \in [1..Len(more) + 1 -> 0..Len(sn)] /\ q[1] = b /\ q[Len(more) + 1] = e
      /\ \A i \in 1..Len(more) :
           /\ more[i].kind = "old" => q[i + 1] = q[i] + 1 /\ more[i].line = sn[Len(sn) - q[i]]
           /\ more[i].kind # "old" => q[i + 1] = q[i]
           /\ more[i].kind = "finished" => q[i] = Len(sn)
  BY <1>2 DEF Counts
<1>8. \A i \in 1..Len(ch) + 1 : i \in 1..Len(a) + 1 /\ w[i] = r[i]
  BY <1>4, <1>5
<1>9. ASSUME NEW i \in 1..Len(more) + 1
      PROVE  Len(ch) + i \in 1..Len(a) + 1 /\ w[Len(ch) + i] = q[i]
  <2>1. Len(ch) + i \in 1..Len(a) + 1 /\ (Len(ch) + i) - Len(ch) = i
    BY <1>4
  <2>2. CASE i = 1
    <3>1. w[Len(ch) + i] = r[Len(ch) + 1]
      BY <1>4, <1>8, <2>2
    <3>2. QED
      BY <1>6, <1>7, <2>1, <2>2, <3>1
  <2>3. CASE i # 1
    <3>1. ~(Len(ch) + i <= Len(ch) + 1)
      BY <1>4, <2>3
    <3>2. QED
      BY <1>5, <2>1, <3>1
  <2>4. QED
    BY <2>2, <2>3
<1>10. ASSUME NEW i \in 1..Len(a) + 1 PROVE w[i] \in 0..Len(sn)
  <2>1. CASE i <= Len(ch) + 1
    BY <1>4, <1>6, <1>8, <2>1
  <2>2. CASE i > Len(ch) + 1
    <3>1. i - Len(ch) \in 1..Len(more) + 1 /\ w[i] = q[i - Len(ch)]
      BY <1>4, <1>5, <2>2
    <3>2. QED
      BY <1>7, <3>1
  <2>3. QED
    BY <1>4, <2>1, <2>2
<1>11. ASSUME NEW i \in 1..Len(a)
       PROVE  /\ a[i].kind = "old" => w[i + 1] = w[i] + 1 /\ a[i].line = sn[Len(sn) - w[i]]
              /\ a[i].kind # "old" => w[i + 1] = w[i]
              /\ a[i].kind = "finished" => w[i] = Len(sn)
  <2>1. CASE i \in 1..Len(ch)
    <3>1. /\ i \in 1..Len(ch) + 1 /\ i + 1 \in 1..Len(ch) + 1
      BY <1>4, <2>1
    <3>2. w[i] = r[i] /\ w[i + 1] = r[i + 1] /\ a[i] = ch[i]
      BY <1>4, <1>8, <2>1, <3>1
    <3>3. QED
      BY <1>6, <2>1, <3>2
  <2>2. CASE i \notin 1..Len(ch)
    <3>1. PICK k \in 1..Len(more) : i = Len(ch) + k
      <4>1. i - Len(ch) \in 1..Len(more) /\ i = Len(ch) + (i - Len(ch))
        BY <1>4, <2>2
      <4>2. QED
        BY <4>1
    <3>2. k \in 1..Len(more) + 1 /\ k + 1 \in 1..Len(more) + 1 /\ i + 1 = Len(ch) + (k + 1)
      BY <1>4, <3>1
    <3>3. w[i] = q[k] /\ w[i + 1] = q[k + 1] /\ a[i] = more[k]
      BY <1>4, <1>9, <3>1, <3>2
    <3>4. QED
      BY <1>7, <3>3
  <2>3. QED
    BY <2>1, <2>2
<1>12. w[1] = o /\ w[Len(a) + 1] = e
  <2>1. 1 \in 1..Len(ch) + 1 /\ Len(more) + 1 \in 1..Len(more) + 1
        /\ Len(a) + 1 = Len(ch) + (Len(more) + 1)
    BY <1>4
  <2>2. QED
    BY <1>6, <1>7, <1>8, <1>9, <2>1
<1>13. w \in [1..Len(a) + 1 -> 0..Len(sn)]
  BY <1>5, <1>10
<1>14. QED
  <2>1. Counts(a, o, sn, e, w)
    BY <1>11, <1>12, <1>13 DEF Counts
  <2>2. QED
    BY <1>3, <2>1 DEF Stream

LEMMA NewStream ==
    ASSUME NEW line \in Line, NEW sn \in Seq(Line), NEW b \in 0..Len(sn)
    PROVE  <<New(line)>> \in Seq(Signal) /\ Stream(<<New(line)>>, b, sn, b)
<1>1. PICK m : m = <<New(line)>>
  OBVIOUS
<1>2. New(line) \in Signal /\ New(line).kind = "new"
  BY DEF New, Signal
<1>3. m \in Seq(Signal) /\ Len(m) = 1 /\ m[1].kind = "new"
  BY <1>1, <1>2
<1>4. PICK r : r = [i \in 1..Len(m) + 1 |-> b]
  OBVIOUS
<1>5. Counts(m, b, sn, b, r)
  BY <1>3, <1>4 DEF Counts
<1>6. QED
  BY <1>1, <1>3, <1>5 DEF Stream

\* A batch of sn, of which it is left, continues the count.
LEMMA BatchStream ==
    ASSUME NEW sn \in Seq(Line), NEW it \in Seq(Line), Len(it) <= Len(sn),
           \A i \in 1..Len(it) : it[i] = sn[i], NEW k \in Nat, NEW sync \in 0..Syncs
    PROVE  Stream(Signals(it, k, sync), Len(sn) - Len(it), sn, Len(sn) - Len(Left(it, k)))
<1>1. PICK n \in 0..Len(it) : n = Sent(it, k)
  BY SentIs
<1>2. PICK m : m = Signals(it, k, sync)
  OBVIOUS
<1>3. /\ m \in Seq(Signal) /\ Len(m) = n + (IF Finishes(it, k) THEN 1 ELSE 0)
      /\ \A i \in 1..n : Len(it) + 1 - i \in 1..Len(it) /\ m[i] = Old(it[Len(it) + 1 - i])
      /\ Finishes(it, k) => m[n + 1] = Finished(sync) /\ n = Len(it)
      /\ Len(Left(it, k)) = Len(it) - n
  BY <1>1, <1>2, SignalsAre, SentIs
<1>4. Len(sn) \in Nat /\ Len(it) \in Nat /\ n \in Nat /\ Len(m) \in n..n + 1
  BY <1>3
<1>5. PICK b : b = Len(sn) - Len(it)
  OBVIOUS
<1>6. PICK r : r = [i \in 1..Len(m) + 1 |-> IF i <= n + 1 THEN b + i - 1 ELSE b + n]
  OBVIOUS
<1>7. r \in [1..Len(m) + 1 -> 0..Len(sn)] /\ r[1] = b /\ r[Len(m) + 1] = b + n
  <2>1. ASSUME NEW i \in 1..Len(m) + 1
        PROVE  (IF i <= n + 1 THEN b + i - 1 ELSE b + n) \in 0..Len(sn)
    BY <1>4, <1>5
  <2>2. r \in [1..Len(m) + 1 -> 0..Len(sn)]
    BY <1>6, <2>1
  <2>3. r[1] = b
    <3>1. 1 \in 1..Len(m) + 1 /\ 1 <= n + 1 /\ b + 1 - 1 = b
      BY <1>4, <1>5
    <3>2. QED
      BY <1>6, <3>1
  <2>4. r[Len(m) + 1] = b + n
    <3>1. Len(m) + 1 \in 1..Len(m) + 1
      BY <1>4
    <3>2. r[Len(m) + 1] = IF Len(m) + 1 <= n + 1 THEN b + (Len(m) + 1) - 1 ELSE b + n
      BY <1>6, <3>1
    <3>3. QED
      BY <1>4, <1>5, <3>2
  <2>5. QED
    BY <2>2, <2>3, <2>4
<1>8. ASSUME NEW i \in 1..Len(m)
      PROVE  /\ m[i].kind = "old" => r[i + 1] = r[i] + 1 /\ m[i].line = sn[Len(sn) - r[i]]
             /\ m[i].kind # "old" => r[i + 1] = r[i]
             /\ m[i].kind = "finished" => r[i] = Len(sn)
  <2>1. CASE i \in 1..n
    <3>1. /\ Len(it) + 1 - i \in 1..Len(it)
          /\ m[i].kind = "old" /\ m[i].line = it[Len(it) + 1 - i]
      <4>1. Len(it) + 1 - i \in 1..Len(it) /\ m[i] = Old(it[Len(it) + 1 - i])
        BY <1>3, <2>1
      <4>2. \A line : Old(line).kind = "old" /\ Old(line).line = line
        BY DEF Old
      <4>3. QED
        BY <4>1, <4>2
    <3>2. r[i] = b + i - 1 /\ r[i + 1] = b + (i + 1) - 1
      BY <1>4, <1>6, <2>1
    <3>3. r[i + 1] = r[i] + 1 /\ Len(sn) - r[i] = Len(it) + 1 - i
      BY <1>4, <1>5, <2>1, <3>2
    <3>4. QED
      BY <3>1, <3>3
  <2>2. CASE i \notin 1..n
    <3>1. i = n + 1 /\ Finishes(it, k)
      BY <1>3, <1>4, <2>2
    <3>2. m[i].kind = "finished" /\ n = Len(it)
      BY <1>3, <3>1 DEF Finished
    <3>3. r[i] = b + n /\ r[i + 1] = b + n
      <4>1. i \in 1..Len(m) + 1 /\ i + 1 \in 1..Len(m) + 1
        BY <1>4
      <4>2. /\ r[i] = IF i <= n + 1 THEN b + i - 1 ELSE b + n
            /\ r[i + 1] = IF i + 1 <= n + 1 THEN b + (i + 1) - 1 ELSE b + n
        BY <1>6, <4>1
      <4>3. QED
        BY <1>4, <1>5, <3>1, <4>2
    <3>4. b + n = Len(sn)
      BY <1>4, <1>5, <3>2
    <3>5. QED
      BY <3>2, <3>3, <3>4
  <2>3. QED
    BY <2>1, <2>2
<1>9. Counts(m, b, sn, b + n, r)
  BY <1>7, <1>8 DEF Counts
<1>10. b + n = Len(sn) - Len(Left(it, k))
  <2>1. Len(Left(it, k)) = Len(it) - n
    BY <1>3
  <2>2. QED
    BY <1>4, <1>5, <2>1
<1>11. QED
  BY <1>2, <1>5, <1>9, <1>10 DEF Stream

-----------------------------------------------------------------------------
(* The inductive invariant.                                                *)

TypeInv ==
    /\ log \in [Ends -> Seq(Line)] /\ max \in [Ends -> Nat \ {0}]
    /\ written \in 0..Lines
    /\ posted \in Seq(Line) /\ iter \in Seq(Line) /\ snap \in Seq(Line)
    /\ chan \in [Clients -> Seq(Signal)]
    /\ asking \subseteq Clients /\ IsFiniteSet(asking) /\ resized \subseteq Ends
    /\ syncs \in Nat /\ connects = syncs /\ syncs + Cardinality(asking) <= Syncs
    /\ news \in [Clients -> Seq(Line)] /\ olds \in [Clients -> Nat]
    /\ done \in [Clients -> 0..Syncs]

\* The flag of the static iterator and the timer.
FlagsInv ==
    /\ started \in BOOLEAN /\ timer \in BOOLEAN
    /\ syncs = 0 => ~started
    /\ syncs # 0 => started
    /\ timer => started

\* At most one call was made.
First == syncs + Cardinality(asking) <= 1

\* What is left to send is the beginning of the log that was copied.
Copied ==
    /\ syncs = 0 => iter = <<>> /\ snap = <<>>
    /\ Len(iter) <= Len(snap) /\ \A i \in 1..Len(iter) : iter[i] = snap[i]

\* The signals on the way to the client take it to what was sent; it is told
\* the end when it has all; its log is the newest of what it got.
Served(c) ==
    /\ Stream(chan[c], olds[c], snap, Len(snap) - Len(iter))
    /\ syncs = 0 => done[c] = 0 /\ \A i \in 1..Len(chan[c]) : chan[c][i].kind = "new"
    /\ done[c] # 0 => olds[c] = Len(snap)
    /\ c \notin resized => Shows(log[c], max[c], snap, olds[c], news[c])

FirstInv == First => Copied /\ \A c \in Clients : Served(c)

LogInv == TypeInv /\ FlagsInv /\ LogBounded /\ FirstInv

\* Nothing on the way, nothing got.
LEMMA EmptyStream ==
    /\ \A sn \in Seq(Line) : \A b \in 0..Len(sn) : Stream(<<>>, b, sn, b)
<1>1. SUFFICES ASSUME NEW sn \in Seq(Line), NEW b \in 0..Len(sn)
               PROVE  Stream(<<>>, b, sn, b)
  OBVIOUS
<1>2. PICK ch : ch = <<>>
  OBVIOUS
<1>3. Len(ch) = 0
  BY <1>2
<1>4. PICK r : r = [i \in 1..1 |-> b]
  OBVIOUS
<1>5. r \in [1..Len(ch) + 1 -> 0..Len(sn)] /\ r[1] = b /\ r[Len(ch) + 1] = b
  BY <1>3, <1>4
<1>6. Counts(ch, b, sn, b, r)
  BY <1>3, <1>5 DEF Counts
<1>7. QED
  BY <1>2, <1>6 DEF Stream

LEMMA StreamStarts ==
    ASSUME NEW ch \in Seq(Signal), NEW o, NEW sn \in Seq(Line), NEW b, Stream(ch, o, sn, b)
    PROVE  o \in 0..Len(sn)
<1>1. PICK r : Counts(ch, o, sn, b, r)
  BY DEF Stream
<1>2. 1 \in 1..Len(ch) + 1
  OBVIOUS
<1>3. QED
  BY <1>1, <1>2 DEF Counts

LEMMA EmptyShows ==
    ASSUME NEW mx \in Nat \ {0}
    PROVE  Shows(<<>>, mx, <<>>, 0, <<>>)
<1>1. PICK e : e = <<>>
  OBVIOUS
<1>2. Len(e) = 0
  BY <1>1
<1>3. Shows(e, mx, e, 0, e)
  BY <1>2 DEF Shows
<1>4. QED
  BY <1>1, <1>3

LEMMA InitInv == Init => LogInv
<1> SUFFICES ASSUME Init PROVE LogInv
  OBVIOUS
<1>1. Cardinality(asking) = 0 /\ IsFiniteSet(asking)
  BY FS_EmptySet DEF Init
<1>2. TypeInv
  BY <1>1, LogSyncAssumption DEF Init, TypeInv
<1>3. FlagsInv
  BY DEF Init, FlagsInv
<1>4. LogBounded
  <2>1. \A e \in Ends : log[e] = <<>> /\ max[e] \in Nat
    BY <1>2 DEF Init, TypeInv
  <2>2. QED
    BY <2>1 DEF LogBounded
<1>5. Copied
  BY DEF Init, Copied
<1>6. ASSUME NEW c \in Clients PROVE Served(c)
  <2>1. /\ chan[c] = <<>> /\ olds[c] = 0 /\ snap = <<>> /\ iter = <<>> /\ done[c] = 0
        /\ log[c] = <<>> /\ news[c] = <<>> /\ max[c] \in Nat \ {0}
    BY <1>2 DEF Init, TypeInv, Ends
  <2>2. Stream(chan[c], olds[c], snap, Len(snap) - Len(iter))
    <3>1. snap \in Seq(Line) /\ 0 \in 0..Len(snap) /\ Len(snap) - Len(iter) = 0
      BY <2>1
    <3>2. QED
      BY <2>1, <3>1, EmptyStream
  <2>3. Shows(log[c], max[c], snap, olds[c], news[c])
    BY <2>1, EmptyShows
  <2>4. QED
    BY <2>1, <2>2, <2>3 DEF Served
<1>7. QED
  BY <1>2, <1>3, <1>4, <1>5, <1>6 DEF LogInv, FirstInv

-----------------------------------------------------------------------------
(* Each action preserves it.                                               *)

LEMMA EmitIs ==
    ASSUME TypeInv, NEW signals \in Seq(Signal), Emit(signals)
    PROVE  /\ chan' \in [Clients -> Seq(Signal)]
           /\ \A c \in Clients : chan'[c] = chan[c] \o signals
BY DEF TypeInv, Emit

\* A new line goes to every client.
LEMMA EmitServed ==
    ASSUME LogInv, First, NEW line \in Line, Emit(<<New(line)>>), NEW c \in Clients,
           log'[c] = log[c], UNCHANGED <<max, iter, syncs, snap, news, olds, done, resized>>
    PROVE  Served(c)'
<1>1. TypeInv /\ Copied /\ Served(c)
  BY DEF LogInv, FirstInv
<1>2. PICK more : more = <<New(line)>>
  OBVIOUS
<1>3. more \in Seq(Signal) /\ Len(more) = 1 /\ more[1].kind = "new"
  <2>1. New(line) \in Signal /\ New(line).kind = "new"
    BY DEF New, Signal
  <2>2. QED
    BY <1>2, <2>1
<1>4. chan'[c] = chan[c] \o more
  BY <1>1, <1>2, <1>3, EmitIs
<1>5. /\ snap \in Seq(Line) /\ chan[c] \in Seq(Signal)
      /\ Len(snap) - Len(iter) \in 0..Len(snap)
  BY <1>1 DEF TypeInv, Copied
<1>6. Stream(chan[c] \o more, olds[c], snap, Len(snap) - Len(iter))
  <2>1. Stream(more, Len(snap) - Len(iter), snap, Len(snap) - Len(iter))
    BY <1>2, <1>5, NewStream
  <2>2. QED
    BY <1>1, <1>3, <1>5, <2>1, JoinStream DEF Served
<1>7. ASSUME syncs = 0
      PROVE  \A i \in 1..Len(chan'[c]) : chan'[c][i].kind = "new"
  <2>1. \A i \in 1..Len(chan[c]) : chan[c][i].kind = "new"
    BY <1>1, <1>7 DEF Served
  <2>2. PICK ch \in Seq(Signal) : ch = chan[c]
    BY <1>5
  <2>3. PICK all : all = ch \o more
    OBVIOUS
  <2>4. /\ Len(all) = Len(ch) + 1 /\ Len(ch) \in Nat
        /\ \A i \in 1..Len(ch) : all[i] = ch[i]
        /\ all[Len(ch) + 1] = more[1]
    <3>1. more \in Seq(Signal)
      BY <1>3
    <3>2. Len(all) = Len(ch) + Len(more) /\ Len(ch) \in Nat
      BY <2>3, <3>1
    <3>3. \A i \in 1..Len(ch) : all[i] = ch[i]
      BY <2>3, <3>1
    <3>4. \A i \in 1..Len(more) : all[Len(ch) + i] = more[i]
      BY <2>3, <3>1
    <3>5. Len(more) = 1
      BY <1>3
    <3>6. QED
      BY <3>2, <3>3, <3>4, <3>5
  <2>5. ASSUME NEW i \in 1..Len(all) PROVE all[i].kind = "new"
    BY <1>3, <2>1, <2>2, <2>4
  <2>6. QED
    BY <1>4, <2>2, <2>3, <2>5
<1>8. QED
  BY <1>1, <1>4, <1>6, <1>7 DEF Served

\* The part of the state that lines of the daemon leave alone.
LEMMA FirstKept ==
    ASSUME LogInv, First', UNCHANGED <<asking, syncs, iter, snap>>
    PROVE  First /\ Copied'
BY DEF LogInv, FirstInv, First, Copied

LEMMA WriteLog ==
    ASSUME LogInv, Writes
    PROVE  /\ written' \in 0..Lines /\ LineToSend \in Line
           /\ log' \in [Ends -> Seq(Line)]
           /\ \A e \in Ends : Len(log'[e]) <= max[e]
           /\ \A c \in Clients : log'[c] = log[c]
<1>1. /\ log \in [Ends -> Seq(Line)] /\ max[SOURCE] \in Nat \ {0} /\ max \in [Ends -> Nat \ {0}]
      /\ written \in 0..Lines /\ \A e \in Ends : Len(log[e]) <= max[e]
      /\ log[SOURCE] \in Seq(Line) /\ SOURCE \in Ends
  BY DEF LogInv, TypeInv, LogBounded, Ends
<1>2. written + 1 \in Line /\ written' \in 0..Lines
  BY <1>1, LogSyncAssumption DEF Writes, Line
<1>3. /\ PushBack(SOURCE, written + 1) \in Seq(Line)
      /\ Len(PushBack(SOURCE, written + 1)) <= max[SOURCE]
  <2>1. CASE Len(log[SOURCE]) >= max[SOURCE]
    <3>1. /\ log[SOURCE] # <<>> /\ Tail(log[SOURCE]) \in Seq(Line)
          /\ Len(Tail(log[SOURCE])) = Len(log[SOURCE]) - 1
      BY <1>1, <2>1
    <3>2. PICK t \in Seq(Line) : t = Tail(log[SOURCE])
      BY <3>1
    <3>3. Append(t, written + 1) \in Seq(Line) /\ Len(Append(t, written + 1)) = Len(t) + 1
      BY <1>2
    <3>4. Len(t) + 1 <= max[SOURCE]
      BY <1>1, <3>1, <3>2
    <3>5. QED
      BY <2>1, <3>2, <3>3, <3>4 DEF PushBack
  <2>2. CASE ~(Len(log[SOURCE]) >= max[SOURCE])
    BY <1>1, <1>2, <2>2 DEF PushBack
  <2>3. QED
    BY <2>1, <2>2
<1>4. log' = [log EXCEPT ![SOURCE] = PushBack(SOURCE, written + 1)]
  BY DEF Writes
<1>5. QED
  BY <1>1, <1>2, <1>3, <1>4, LogSyncAssumption DEF LineToSend, Ends

LEMMA WriteStep ==
    ASSUME LogInv, WriteOzw \/ WriteMain
    PROVE  LogInv'
<1>0. TypeInv /\ FlagsInv
  BY DEF LogInv
<1>1. /\ written' \in 0..Lines /\ LineToSend \in Line
      /\ log' \in [Ends -> Seq(Line)]
      /\ \A e \in Ends : Len(log'[e]) <= max[e]
      /\ \A c \in Clients : log'[c] = log[c]
      /\ UNCHANGED <<max, iter, started, connects, timer, syncs, snap, asking, news, olds, done, resized>>
  BY WriteLog DEF WriteOzw, WriteMain, batches, ghosts
<1>2. FlagsInv'
  BY <1>0, <1>1 DEF FlagsInv
<1>3. LogBounded'
  BY <1>1 DEF LogBounded
<1>4. CASE WriteOzw
  <2>1. posted' \in Seq(Line) /\ UNCHANGED chan
    BY <1>0, <1>1, <1>4 DEF WriteOzw, TypeInv
  <2>2. TypeInv'
    BY <1>0, <1>1, <2>1 DEF TypeInv
  <2>3. FirstInv'
    BY <1>1, <2>1, FirstKept DEF LogInv, FirstInv, Served
  <2>4. QED
    BY <1>2, <1>3, <2>2, <2>3 DEF LogInv
<1>5. CASE WriteMain
  <2>1. Emit(<<New(LineToSend)>>) /\ UNCHANGED posted
    BY <1>5 DEF WriteMain
  <2>2. chan' \in [Clients -> Seq(Signal)]
    <3>1. <<New(LineToSend)>> \in Seq(Signal)
      BY <1>1 DEF New, Signal
    <3>2. QED
      BY <1>0, <2>1, <3>1, EmitIs
  <2>3. TypeInv'
    BY <1>0, <1>1, <2>1, <2>2 DEF TypeInv
  <2>4. FirstInv'
    BY <1>1, <2>1, FirstKept, EmitServed DEF FirstInv
  <2>5. QED
    BY <1>2, <1>3, <2>3, <2>4 DEF LogInv
<1>6. QED
  BY <1>4, <1>5

LEMMA NewLineStep ==
    ASSUME LogInv, newLogLine
    PROVE  LogInv'
<1>1. TypeInv /\ FlagsInv /\ LogBounded
  BY DEF LogInv
<1>2. /\ posted # <<>> /\ posted' = Tail(posted) /\ Emit(<<New(Head(posted))>>)
      /\ UNCHANGED <<log, max, written, iter, started, connects, timer, syncs, snap, asking, news, olds, done, resized>>
  BY DEF newLogLine, batches, ghosts
<1>3. Head(posted) \in Line /\ posted' \in Seq(Line)
  BY <1>1, <1>2 DEF TypeInv
<1>4. chan' \in [Clients -> Seq(Signal)]
  <2>1. <<New(Head(posted))>> \in Seq(Signal)
    BY <1>3 DEF New, Signal
  <2>2. QED
    BY <1>1, <1>2, <2>1, EmitIs
<1>5. TypeInv'
  BY <1>1, <1>2, <1>3, <1>4 DEF TypeInv
<1>6. FlagsInv' /\ LogBounded'
  BY <1>1, <1>2 DEF FlagsInv, LogBounded
<1>7. FirstInv'
  BY <1>2, <1>3, FirstKept, EmitServed DEF FirstInv
<1>8. QED
  BY <1>5, <1>6, <1>7 DEF LogInv

\* New lines alone: nothing is counted, whatever log is copied next.
LEMMA NewsStream ==
    ASSUME NEW ch \in Seq(Signal), \A i \in 1..Len(ch) : ch[i].kind = "new",
           NEW sn \in Seq(Line)
    PROVE  Stream(ch, 0, sn, Len(sn) - Len(sn))
<1>1. Len(ch) \in Nat /\ Len(sn) \in Nat /\ Len(sn) - Len(sn) = 0
  OBVIOUS
<1>2. PICK r : r = [i \in 1..Len(ch) + 1 |-> 0]
  OBVIOUS
<1>3. r \in [1..Len(ch) + 1 -> 0..Len(sn)] /\ r[1] = 0 /\ r[Len(ch) + 1] = 0
  BY <1>1, <1>2
<1>4. \A i \in 1..Len(ch) : r[i + 1] = r[i]
  BY <1>1, <1>2
<1>5. Counts(ch, 0, sn, 0, r)
  BY <1>3, <1>4 DEF Counts
<1>6. QED
  BY <1>1, <1>5 DEF Stream

LEMMA NoOlds ==
    ASSUME NEW lg \in Seq(Line), NEW mx \in Nat, NEW a, NEW b, NEW nw \in Seq(Line),
           Shows(lg, mx, a, 0, nw)
    PROVE  Shows(lg, mx, b, 0, nw)
<1>1. Len(lg) \in Nat /\ Len(nw) \in Nat /\ Len(lg) <= 0 + Len(nw)
  BY DEF Shows
<1>2. ASSUME NEW i \in 1..Len(lg)
      PROVE  lg[i] = Entry(b, 0, nw, 0 + Len(nw) - Len(lg) + i)
  <2>1. ~(0 + Len(nw) - Len(lg) + i <= 0)
    BY <1>1
  <2>2. lg[i] = Entry(a, 0, nw, 0 + Len(nw) - Len(lg) + i)
    BY DEF Shows
  <2>3. QED
    BY <2>1, <2>2 DEF Entry
<1>3. QED
  BY <1>2 DEF Shows

\* The daemon sends a batch of what it has: of the log it copied when the first
\* call came, of the rest later.
LEMMA BatchServed ==
    ASSUME TypeInv, NEW it \in Seq(Line), NEW sn \in Seq(Line), Len(it) <= Len(sn),
           \A i \in 1..Len(it) : it[i] = sn[i],
           NEW k \in Nat, NEW sync \in 0..Syncs,
           Emit(Signals(it, k, sync)), iter' = Left(it, k), snap' = sn,
           NEW c \in Clients, Stream(chan[c], olds[c], sn, Len(sn) - Len(it)),
           olds' = olds
    PROVE  Stream(chan'[c], olds'[c], snap', Len(snap') - Len(iter'))
<1>1. PICK more : more = Signals(it, k, sync)
  OBVIOUS
<1>2. more \in Seq(Signal)
  BY <1>1, SignalsAre
<1>3. chan'[c] = chan[c] \o more /\ chan[c] \in Seq(Signal)
  BY <1>1, <1>2, EmitIs DEF TypeInv
<1>4. Stream(more, Len(sn) - Len(it), sn, Len(sn) - Len(Left(it, k)))
  BY <1>1, BatchStream
<1>5. Stream(chan[c] \o more, olds[c], sn, Len(sn) - Len(Left(it, k)))
  BY <1>2, <1>3, <1>4, JoinStream
<1>6. QED
  BY <1>3, <1>5

\* The rest that a batch leaves is the beginning of the copied log still.
LEMMA BatchLeft ==
    ASSUME NEW it \in Seq(Line), NEW sn \in Seq(Line), Len(it) <= Len(sn),
           \A i \in 1..Len(it) : it[i] = sn[i], NEW k \in Nat
    PROVE  /\ Left(it, k) \in Seq(Line) /\ Len(Left(it, k)) <= Len(sn)
           /\ \A i \in 1..Len(Left(it, k)) : Left(it, k)[i] = sn[i]
<1>1. /\ Left(it, k) \in Seq(Line) /\ Len(Left(it, k)) = Len(it) - Sent(it, k)
      /\ Sent(it, k) \in 0..Len(it)
      /\ \A i \in 1..Len(Left(it, k)) : i \in 1..Len(it) /\ Left(it, k)[i] = it[i]
  BY SentIs
<1>2. Len(it) \in Nat /\ Len(sn) \in Nat
  OBVIOUS
<1>3. Len(Left(it, k)) <= Len(sn)
  BY <1>1, <1>2
<1>4. QED
  BY <1>1, <1>3

LEMMA TimeoutStep ==
    ASSUME LogInv, Timeout
    PROVE  LogInv'
<1>1. TypeInv /\ FlagsInv /\ LogBounded
  BY DEF LogInv
<1>2. /\ timer /\ iter' = Left(iter, connects) /\ Emit(Signals(iter, connects, syncs))
      /\ timer' = ~Finishes(iter, connects)
      /\ UNCHANGED <<log, max, written, posted, started, connects, asking, syncs, snap, news, olds, done, resized>>
  BY DEF Timeout, RunsOn, ghosts
<1>3. /\ iter \in Seq(Line) /\ connects \in Nat /\ snap \in Seq(Line)
  BY <1>1 DEF TypeInv
<1>4. syncs \in 0..Syncs
  <2>1. Cardinality(asking) \in Nat
    BY <1>1, FS_CardinalityType DEF TypeInv
  <2>2. QED
    BY <1>1, <2>1, LogSyncAssumption DEF TypeInv
<1>5. iter' \in Seq(Line)
  BY <1>2, <1>3, SentIs
<1>6. chan' \in [Clients -> Seq(Signal)]
  BY <1>1, <1>2, <1>3, <1>4, SignalsAre, EmitIs
<1>7. TypeInv'
  BY <1>1, <1>2, <1>5, <1>6 DEF TypeInv
<1>8. FlagsInv'
  BY <1>1, <1>2 DEF FlagsInv
<1>9. LogBounded'
  BY <1>1, <1>2 DEF LogBounded
<1>10. FirstInv'
  <2>1. SUFFICES ASSUME First' PROVE Copied' /\ \A c \in Clients : Served(c)'
    BY DEF FirstInv
  <2>2. First
    BY <1>2, <2>1 DEF First
  <2>3. Copied /\ \A c \in Clients : Served(c)
    BY <2>2 DEF LogInv, FirstInv
  <2>4. syncs # 0
    BY <1>1, <1>2 DEF FlagsInv
  <2>5. Len(iter) <= Len(snap) /\ \A i \in 1..Len(iter) : iter[i] = snap[i]
    BY <2>3 DEF Copied
  <2>6. Copied'
    BY <1>2, <1>3, <2>4, <2>5, BatchLeft DEF Copied
  <2>7. ASSUME NEW c \in Clients PROVE Served(c)'
    <3>1. Stream(chan'[c], olds'[c], snap', Len(snap') - Len(iter'))
      BY <1>1, <1>2, <1>3, <1>4, <2>3, <2>5, BatchServed DEF Served
    <3>2. QED
      BY <1>2, <2>3, <2>4, <3>1 DEF Served
  <2>8. QED
    BY <2>6, <2>7
<1>11. QED
  BY <1>7, <1>8, <1>9, <1>10 DEF LogInv

LEMMA ServeStep ==
    ASSUME LogInv, NEW c \in Clients, syncroniseLogs(c)
    PROVE  LogInv'
<1>1. TypeInv /\ FlagsInv /\ LogBounded
  BY DEF LogInv
<1>2. PICK it : it = IF started THEN iter ELSE log[SOURCE]
  OBVIOUS
<1>3. /\ c \in asking /\ asking' = asking \ {c} /\ syncs' = syncs + 1
      /\ snap' = log[SOURCE] /\ iter' = Left(it, 1) /\ Emit(Signals(it, 1, syncs + 1))
      /\ started' = TRUE /\ connects' = connects + 1 /\ timer' = TRUE
      /\ UNCHANGED <<log, max, written, posted, news, olds, done, resized>>
  BY <1>2 DEF syncroniseLogs, ghosts
<1>4. log[SOURCE] \in Seq(Line) /\ it \in Seq(Line) /\ 1 \in Nat
  BY <1>1, <1>2 DEF TypeInv, Ends
<1>5. /\ IsFiniteSet(asking') /\ Cardinality(asking') = Cardinality(asking) - 1
      /\ Cardinality(asking') \in Nat /\ Cardinality(asking) \in Nat
  <2>1. IsFiniteSet(asking)
    BY <1>1 DEF TypeInv
  <2>2. QED
    BY <1>3, <2>1, FS_RemoveElement, FS_CardinalityType
<1>6. /\ syncs \in Nat /\ syncs + 1 \in 0..Syncs /\ syncs' \in Nat /\ connects' = syncs'
      /\ syncs' + Cardinality(asking') = syncs + Cardinality(asking)
      /\ syncs + Cardinality(asking) <= Syncs
  <2>1. syncs \in Nat /\ connects = syncs /\ syncs + Cardinality(asking) <= Syncs
    BY <1>1 DEF TypeInv
  <2>2. QED
    BY <1>3, <1>5, <2>1, LogSyncAssumption
<1>7. iter' \in Seq(Line)
  BY <1>3, <1>4, SentIs
<1>8. chan' \in [Clients -> Seq(Signal)]
  BY <1>1, <1>3, <1>4, <1>6, SignalsAre, EmitIs
<1>9. TypeInv'
  BY <1>1, <1>3, <1>4, <1>5, <1>6, <1>7, <1>8 DEF TypeInv
<1>10. FlagsInv'
  <2>1. syncs' # 0
    BY <1>3, <1>6
  <2>2. QED
    BY <1>3, <2>1 DEF FlagsInv
<1>11. LogBounded'
  BY <1>1, <1>3 DEF LogBounded
<1>12. FirstInv'
  <2>1. SUFFICES ASSUME First' PROVE Copied' /\ \A d \in Clients : Served(d)'
    BY DEF FirstInv
  <2>2. First /\ syncs = 0 /\ syncs' # 0
    BY <1>3, <1>5, <1>6, <2>1 DEF First
  <2>3. Copied /\ \A d \in Clients : Served(d)
    BY <2>2 DEF LogInv, FirstInv
  <2>4. it = log[SOURCE]
    BY <1>1, <1>2, <2>2 DEF FlagsInv
  <2>5. Copied'
    BY <1>3, <1>4, <2>2, <2>4, BatchLeft DEF Copied
  <2>6. ASSUME NEW d \in Clients PROVE Served(d)'
    <3>1. /\ Stream(chan[d], olds[d], snap, Len(snap) - Len(iter))
          /\ done[d] = 0 /\ \A i \in 1..Len(chan[d]) : chan[d][i].kind = "new"
          /\ d \notin resized => Shows(log[d], max[d], snap, olds[d], news[d])
          /\ snap = <<>> /\ iter = <<>>
      BY <2>2, <2>3 DEF Served, Copied
    <3>2. chan[d] \in Seq(Signal) /\ <<>> \in Seq(Line)
      BY <1>1 DEF TypeInv
    <3>3. Len(snap) - Len(iter) = 0
      BY <3>1
    <3>4. olds[d] = 0
      <4>1. snap \in Seq(Line) /\ Len(snap) = 0
        BY <3>1
      <4>2. olds[d] \in 0..Len(snap)
        BY <3>1, <3>2, <4>1, StreamStarts
      <4>3. QED
        BY <4>1, <4>2
    <3>5. Stream(chan[d], 0, it, Len(it) - Len(it))
      BY <1>4, <3>1, <3>2, NewsStream
    <3>6. Stream(chan'[d], olds'[d], snap', Len(snap') - Len(iter'))
      <4>1. Stream(chan[d], olds[d], it, Len(it) - Len(it))
        BY <3>4, <3>5
      <4>2. Len(it) <= Len(it)
        BY <1>4
      <4>3. /\ Emit(Signals(it, 1, syncs + 1)) /\ iter' = Left(it, 1) /\ snap' = it
            /\ olds' = olds /\ syncs + 1 \in 0..Syncs
        BY <1>3, <1>6, <2>4
      <4>4. QED
        BY <1>1, <1>4, <4>1, <4>2, <4>3, BatchServed
    <3>7. d \notin resized => Shows(log[d], max[d], log[SOURCE], 0, news[d])
      <4>1. ASSUME Shows(log[d], max[d], snap, 0, news[d])
            PROVE  Shows(log[d], max[d], log[SOURCE], 0, news[d])
        <5>1. log[d] \in Seq(Line) /\ news[d] \in Seq(Line) /\ max[d] \in Nat
          BY <1>1 DEF TypeInv, Ends
        <5>2. QED
          BY <4>1, <5>1, NoOlds
      <4>2. QED
        BY <3>1, <3>4, <4>1
    <3>8. QED
      BY <1>3, <2>2, <3>1, <3>4, <3>6, <3>7 DEF Served
  <2>7. QED
    BY <2>5, <2>6
<1>13. QED
  BY <1>9, <1>10, <1>11, <1>12 DEF LogInv

LEMMA AskStep ==
    ASSUME LogInv, NEW c \in Clients, ask(c)
    PROVE  LogInv'
<1>1. TypeInv /\ FlagsInv /\ LogBounded
  BY DEF LogInv
<1>2. /\ c \notin asking /\ syncs + Cardinality(asking) < Syncs
      /\ asking' = asking \cup {c}
      /\ log' = [log EXCEPT ![c] = <<>>]
      /\ news' = [news EXCEPT ![c] = <<>>] /\ olds' = [olds EXCEPT ![c] = 0]
      /\ UNCHANGED <<max, written, posted, iter, started, connects, timer, syncs, snap, chan, done, resized>>
  BY DEF ask, batches
<1>3. /\ IsFiniteSet(asking') /\ Cardinality(asking') = Cardinality(asking) + 1
      /\ Cardinality(asking) \in Nat
  <2>1. IsFiniteSet(asking)
    BY <1>1 DEF TypeInv
  <2>2. QED
    BY <1>2, <2>1, FS_AddElement, FS_CardinalityType
<1>4. syncs \in Nat /\ syncs' + Cardinality(asking') <= Syncs
  <2>1. syncs \in Nat /\ syncs' = syncs
    BY <1>1, <1>2 DEF TypeInv
  <2>2. QED
    BY <1>2, <1>3, <2>1, LogSyncAssumption
<1>5. /\ log' \in [Ends -> Seq(Line)] /\ news' \in [Clients -> Seq(Line)]
      /\ olds' \in [Clients -> Nat]
      /\ log'[c] = <<>> /\ news'[c] = <<>> /\ olds'[c] = 0
      /\ \A e \in Ends : e # c => log'[e] = log[e]
      /\ \A d \in Clients : d # c => news'[d] = news[d] /\ olds'[d] = olds[d]
  BY <1>1, <1>2 DEF TypeInv, Ends
<1>6. TypeInv'
  BY <1>1, <1>2, <1>3, <1>4, <1>5 DEF TypeInv
<1>7. FlagsInv'
  BY <1>1, <1>2 DEF FlagsInv
<1>8. LogBounded'
  <2>1. ASSUME NEW e \in Ends PROVE Len(log'[e]) <= max[e]
    <3>1. max[e] \in Nat
      BY <1>1 DEF TypeInv
    <3>2. CASE e = c
      BY <1>5, <3>1, <3>2
    <3>3. CASE e # c
      BY <1>1, <1>5, <3>3 DEF LogBounded
    <3>4. QED
      BY <3>2, <3>3
  <2>2. QED
    BY <1>2, <2>1 DEF LogBounded
<1>9. FirstInv'
  <2>1. SUFFICES ASSUME First' PROVE Copied' /\ \A d \in Clients : Served(d)'
    BY DEF FirstInv
  <2>2. First /\ syncs = 0
    BY <1>2, <1>3, <1>4, <2>1 DEF First
  <2>3. Copied /\ \A d \in Clients : Served(d)
    BY <2>2 DEF LogInv, FirstInv
  <2>4. Copied'
    BY <1>2, <2>3 DEF Copied
  <2>5. ASSUME NEW d \in Clients, d # c PROVE Served(d)'
    BY <1>2, <1>5, <2>3, <2>5 DEF Served, Ends
  <2>6. Served(c)'
    <3>1. /\ snap = <<>> /\ done[c] = 0
          /\ Stream(chan[c], olds[c], snap, Len(snap) - Len(iter))
          /\ \A i \in 1..Len(chan[c]) : chan[c][i].kind = "new"
      BY <2>2, <2>3 DEF Copied, Served
    <3>2. snap \in Seq(Line) /\ Len(snap) = 0 /\ chan[c] \in Seq(Signal)
      BY <1>1, <3>1 DEF TypeInv
    <3>3. olds[c] \in 0..Len(snap)
      BY <3>1, <3>2, StreamStarts
    <3>4. olds[c] = 0
      BY <3>2, <3>3
    <3>5. Shows(log'[c], max[c], snap, olds'[c], news'[c])
      <4>1. max[c] \in Nat \ {0}
        BY <1>1 DEF TypeInv, Ends
      <4>2. QED
        BY <1>5, <3>1, <4>1, EmptyShows
    <3>6. QED
      BY <1>2, <1>5, <3>1, <3>4, <3>5 DEF Served
  <2>7. QED
    BY <2>4, <2>5, <2>6
<1>10. QED
  BY <1>6, <1>7, <1>8, <1>9 DEF LogInv

\* A client takes a signal from its channel; the others' state is left alone.
Takes(c) ==
    /\ chan[c] # <<>>
    /\ chan' = [chan EXCEPT ![c] = Tail(@)]
    /\ log' \in [Ends -> Seq(Line)] /\ Len(log'[c]) <= max[c]
    /\ news' \in [Clients -> Seq(Line)] /\ olds' \in [Clients -> Nat]
    /\ done' \in [Clients -> 0..Syncs]
    /\ \A e \in Ends : e # c => log'[e] = log[e]
    /\ \A d \in Clients : d # c => /\ news'[d] = news[d] /\ olds'[d] = olds[d]
                                   /\ done'[d] = done[d]
    /\ UNCHANGED <<max, written, posted, iter, started, connects, timer, syncs, snap, asking, resized>>

LEMMA TakesStep ==
    ASSUME LogInv, NEW c \in Clients, Takes(c),
           First => /\ Stream(Tail(chan[c]), olds'[c], snap, Len(snap) - Len(iter))
                    /\ syncs = 0 => done'[c] = 0
                    /\ done'[c] # 0 => olds'[c] = Len(snap)
                    /\ c \notin resized => Shows(log'[c], max[c], snap, olds'[c], news'[c])
    PROVE  LogInv'
<1>1. TypeInv /\ FlagsInv /\ LogBounded
  BY DEF LogInv
<1>2. /\ chan' \in [Clients -> Seq(Signal)] /\ chan'[c] = Tail(chan[c])
      /\ \A d \in Clients : d # c => chan'[d] = chan[d]
  <2>1. Tail(chan[c]) \in Seq(Signal)
    BY <1>1 DEF TypeInv, Takes
  <2>2. QED
    BY <1>1, <2>1 DEF TypeInv, Takes
<1>3. TypeInv'
  BY <1>1, <1>2 DEF TypeInv, Takes
<1>4. FlagsInv'
  BY <1>1 DEF FlagsInv, Takes
<1>5. LogBounded'
  BY <1>1 DEF LogBounded, Takes
<1>6. FirstInv'
  <2>1. SUFFICES ASSUME First' PROVE Copied' /\ \A d \in Clients : Served(d)'
    BY DEF FirstInv
  <2>2. First /\ Copied /\ \A d \in Clients : Served(d)
    BY <2>1 DEF LogInv, FirstInv, First, Takes
  <2>3. Copied'
    BY <2>2 DEF Copied, Takes
  <2>4. ASSUME NEW d \in Clients, d # c PROVE Served(d)'
    BY <1>2, <2>2, <2>4 DEF Served, Takes, Ends
  <2>5. Served(c)'
    <3>1. ASSUME syncs = 0
          PROVE  \A i \in 1..Len(chan'[c]) : chan'[c][i].kind = "new"
      <4>1. PICK ch \in Seq(Signal) : ch = chan[c] /\ ch # <<>>
        BY <1>1 DEF TypeInv, Takes
      <4>2. \A i \in 1..Len(ch) : ch[i].kind = "new"
        BY <2>2, <3>1, <4>1 DEF Served
      <4>3. \A i \in 1..Len(Tail(ch)) : Tail(ch)[i].kind = "new"
        BY <4>1, <4>2
      <4>4. QED
        BY <1>2, <4>1, <4>3
    <3>2. QED
      BY <1>2, <2>2, <3>1 DEF Served, Takes
  <2>6. QED
    BY <2>3, <2>4, <2>5
<1>7. QED
  BY <1>3, <1>4, <1>5, <1>6 DEF LogInv

\* What holds of the head of a client's channel.
LEMMA ReceivedIs ==
    ASSUME LogInv, NEW c \in Clients, NEW kind, Receives(c, kind)
    PROVE  /\ chan[c] \in Seq(Signal) /\ chan[c] # <<>> /\ Head(chan[c]) \in Signal
           /\ Head(chan[c]).kind = kind
           /\ kind \in {"new", "old"} => Head(chan[c]).line \in Line
           /\ kind = "finished" => Head(chan[c]).sync \in 0..Syncs
           /\ log[c] \in Seq(Line) /\ max[c] \in Nat \ {0} /\ Len(log[c]) <= max[c]
           /\ news[c] \in Seq(Line) /\ olds[c] \in Nat /\ snap \in Seq(Line)
           /\ First => Served(c) /\ Copied
<1>1. chan[c] \in Seq(Signal) /\ chan[c] # <<>> /\ Head(chan[c]).kind = kind
  BY DEF LogInv, TypeInv, Receives
<1>2. Head(chan[c]) \in Signal
  BY <1>1
<1>3. /\ kind \in {"new", "old"} => Head(chan[c]).line \in Line
      /\ kind = "finished" => Head(chan[c]).sync \in 0..Syncs
  BY <1>1, <1>2 DEF Signal
<1>4. QED
  BY <1>1, <1>2, <1>3 DEF LogInv, TypeInv, LogBounded, FirstInv, Ends

LEMMA InsertStep ==
    ASSUME LogInv, NEW c \in Clients, insertLogLine(c)
    PROVE  LogInv'
<1>1. PICK line : line = Head(chan[c]).line
  OBVIOUS
<1>2. Receives(c, "new")
  BY DEF insertLogLine
<1>3. /\ chan[c] \in Seq(Signal) /\ chan[c] # <<>>
      /\ Head(chan[c]).kind = "new" /\ line \in Line
      /\ log[c] \in Seq(Line) /\ max[c] \in Nat \ {0} /\ Len(log[c]) <= max[c]
      /\ news[c] \in Seq(Line) /\ olds[c] \in Nat /\ snap \in Seq(Line)
      /\ First => Served(c) /\ Copied
  BY <1>1, <1>2, ReceivedIs
<1>4. PICK lg : lg = Append(IF Len(log[c]) >= max[c] THEN Tail(log[c]) ELSE log[c], line)
  OBVIOUS
<1>5. lg \in Seq(Line) /\ Len(lg) <= max[c]
  <2>1. CASE Len(log[c]) >= max[c]
    <3>1. PICK t \in Seq(Line) : t = Tail(log[c]) /\ Len(t) = Len(log[c]) - 1
      <4>1. log[c] # <<>>
        BY <1>3, <2>1
      <4>2. Tail(log[c]) \in Seq(Line)
        BY <1>3, <4>1
      <4>3. Len(Tail(log[c])) = Len(log[c]) - 1
        BY <1>3, <4>1
      <4>4. QED
        BY <4>2, <4>3
    <3>2. Append(t, line) \in Seq(Line) /\ Len(Append(t, line)) = Len(t) + 1
      BY <1>3
    <3>3. Len(t) + 1 <= max[c]
      BY <1>3, <3>1
    <3>4. QED
      BY <1>4, <2>1, <3>1, <3>2, <3>3
  <2>2. CASE ~(Len(log[c]) >= max[c])
    BY <1>3, <1>4, <2>2
  <2>3. QED
    BY <2>1, <2>2
<1>6. /\ log' = [log EXCEPT ![c] = lg]
      /\ news' = [news EXCEPT ![c] = Append(@, line)]
      /\ chan' = [chan EXCEPT ![c] = Tail(@)]
      /\ UNCHANGED <<max, written, posted, iter, started, connects, timer, syncs, snap, asking, resized, olds, done>>
  BY <1>1, <1>4 DEF insertLogLine, Receives, PushBack, batches
<1>7. TypeInv
  BY DEF LogInv
<1>8. Takes(c) /\ log'[c] = lg /\ news'[c] = Append(news[c], line)
  BY <1>3, <1>5, <1>6, <1>7 DEF Takes, TypeInv, Ends
<1>9. ASSUME First
      PROVE  /\ Stream(Tail(chan[c]), olds'[c], snap, Len(snap) - Len(iter))
             /\ syncs = 0 => done'[c] = 0
             /\ done'[c] # 0 => olds'[c] = Len(snap)
             /\ c \notin resized => Shows(log'[c], max[c], snap, olds'[c], news'[c])
  <2>1. Served(c)
    BY <1>3, <1>9
  <2>2. /\ olds[c] \in 0..Len(snap)
        /\ Stream(Tail(chan[c]), olds[c], snap, Len(snap) - Len(iter))
    BY <1>3, <2>1, HeadStream DEF Served
  <2>3. ASSUME c \notin resized
        PROVE  Shows(lg, max[c], snap, olds[c], Append(news[c], line))
    BY <1>3, <1>4, <2>1, <2>2, <2>3, BackShows DEF Served
  <2>4. QED
    BY <1>6, <1>8, <2>1, <2>2, <2>3 DEF Served
<1>10. QED
  BY <1>8, <1>9, TakesStep

LEMMA OlderStep ==
    ASSUME LogInv, NEW c \in Clients, syncLogMessages(c)
    PROVE  LogInv'
<1>1. PICK line : line = Head(chan[c]).line
  OBVIOUS
<1>2. Receives(c, "old")
  BY DEF syncLogMessages
<1>3. /\ chan[c] \in Seq(Signal) /\ chan[c] # <<>>
      /\ Head(chan[c]).kind = "old" /\ line \in Line
      /\ log[c] \in Seq(Line) /\ max[c] \in Nat \ {0} /\ Len(log[c]) <= max[c]
      /\ news[c] \in Seq(Line) /\ olds[c] \in Nat /\ snap \in Seq(Line)
      /\ First => Served(c) /\ Copied
  BY <1>1, <1>2, ReceivedIs
<1>4. PICK lg : lg = IF Len(log[c]) >= max[c] THEN log[c] ELSE <<line>> \o log[c]
  OBVIOUS
<1>5. lg \in Seq(Line) /\ Len(lg) <= max[c]
  <2>1. CASE Len(log[c]) >= max[c]
    BY <1>3, <1>4, <2>1
  <2>2. CASE ~(Len(log[c]) >= max[c])
    <3>0. PICK one : one = <<line>>
      OBVIOUS
    <3>1. one \in Seq(Line) /\ Len(one) = 1
      BY <1>3, <3>0
    <3>2. one \o log[c] \in Seq(Line) /\ Len(one \o log[c]) = Len(one) + Len(log[c])
      <4>1. PICK lc \in Seq(Line) : lc = log[c]
        BY <1>3
      <4>2. one \in Seq(Line)
        BY <3>1
      <4>3. one \o lc \in Seq(Line) /\ Len(one \o lc) = Len(one) + Len(lc)
        BY <4>2
      <4>4. QED
        BY <4>1, <4>3
    <3>3. 1 + Len(log[c]) <= max[c]
      BY <1>3, <2>2
    <3>4. QED
      BY <1>4, <2>2, <3>0, <3>1, <3>2, <3>3
  <2>3. QED
    BY <2>1, <2>2
<1>6. /\ log' = [log EXCEPT ![c] = lg]
      /\ olds' = [olds EXCEPT ![c] = @ + 1]
      /\ chan' = [chan EXCEPT ![c] = Tail(@)]
      /\ UNCHANGED <<max, written, posted, iter, started, connects, timer, syncs, snap, asking, resized, news, done>>
  BY <1>1, <1>4 DEF syncLogMessages, Receives, PushFront, batches
<1>7. TypeInv
  BY DEF LogInv
<1>8. Takes(c) /\ log'[c] = lg /\ olds'[c] = olds[c] + 1
  <2>1. /\ olds' \in [Clients -> Nat] /\ olds'[c] = olds[c] + 1
        /\ \A d \in Clients : d # c => olds'[d] = olds[d]
    BY <1>3, <1>6, <1>7 DEF TypeInv
  <2>2. /\ log' \in [Ends -> Seq(Line)] /\ log'[c] = lg
        /\ \A e \in Ends : e # c => log'[e] = log[e]
    BY <1>5, <1>6, <1>7 DEF TypeInv, Ends
  <2>3. QED
    BY <1>3, <1>5, <1>6, <1>7, <2>1, <2>2 DEF Takes, TypeInv
<1>9. ASSUME First
      PROVE  /\ Stream(Tail(chan[c]), olds'[c], snap, Len(snap) - Len(iter))
             /\ syncs = 0 => done'[c] = 0
             /\ done'[c] # 0 => olds'[c] = Len(snap)
             /\ c \notin resized => Shows(log'[c], max[c], snap, olds'[c], news'[c])
  <2>1. Served(c)
    BY <1>3, <1>9
  <2>2. /\ olds[c] < Len(snap) /\ line = snap[Len(snap) - olds[c]]
        /\ Stream(Tail(chan[c]), olds[c] + 1, snap, Len(snap) - Len(iter))
    BY <1>1, <1>3, <2>1, HeadStream DEF Served
  <2>3. done[c] = 0
    BY <1>3, <2>1, <2>2 DEF Served
  <2>4. ASSUME c \notin resized
        PROVE  Shows(lg, max[c], snap, olds[c] + 1, news[c])
    BY <1>3, <1>4, <2>1, <2>2, <2>4, FrontShows DEF Served
  <2>5. QED
    BY <1>6, <1>8, <2>2, <2>3, <2>4
<1>10. QED
  BY <1>8, <1>9, TakesStep

LEMMA StatusStep ==
    ASSUME LogInv, NEW c \in Clients, syncStatus(c)
    PROVE  LogInv'
<1>1. PICK sync : sync = Head(chan[c]).sync
  OBVIOUS
<1>2. Receives(c, "finished")
  BY DEF syncStatus
<1>3. /\ chan[c] \in Seq(Signal) /\ chan[c] # <<>>
      /\ Head(chan[c]).kind = "finished" /\ sync \in 0..Syncs
      /\ Len(log[c]) <= max[c] /\ snap \in Seq(Line)
      /\ First => Served(c) /\ Copied
  BY <1>1, <1>2, ReceivedIs
<1>4. /\ done' = [done EXCEPT ![c] = sync]
      /\ chan' = [chan EXCEPT ![c] = Tail(@)]
      /\ UNCHANGED <<max, written, posted, iter, started, connects, timer, syncs, snap, asking, resized, log, news, olds>>
  BY <1>1 DEF syncStatus, Receives, batches
<1>5. TypeInv
  BY DEF LogInv
<1>6. Takes(c)
  BY <1>3, <1>4, <1>5 DEF Takes, TypeInv, Ends
<1>7. ASSUME First
      PROVE  /\ Stream(Tail(chan[c]), olds'[c], snap, Len(snap) - Len(iter))
             /\ syncs = 0 => done'[c] = 0
             /\ done'[c] # 0 => olds'[c] = Len(snap)
             /\ c \notin resized => Shows(log'[c], max[c], snap, olds'[c], news'[c])
  <2>1. Served(c)
    BY <1>3, <1>7
  <2>2. /\ olds[c] = Len(snap)
        /\ Stream(Tail(chan[c]), olds[c], snap, Len(snap) - Len(iter))
    BY <1>3, <2>1, HeadStream DEF Served
  <2>3. syncs # 0
    <3>1. 1 \in 1..Len(chan[c]) /\ Head(chan[c]) = chan[c][1]
      BY <1>3
    <3>2. QED
      BY <1>3, <2>1, <3>1 DEF Served
  <2>4. QED
    BY <1>4, <2>1, <2>2, <2>3 DEF Served
<1>8. QED
  BY <1>6, <1>7, TakesStep

LEMMA SizeStep ==
    ASSUME LogInv, NEW e \in Ends, NEW size \in Sizes, setLogBufSize(e, size)
    PROVE  LogInv'
<1>1. TypeInv /\ FlagsInv /\ LogBounded
  BY DEF LogInv
<1>2. PICK old \in Seq(Line) : old = log[e]
  BY <1>1 DEF TypeInv
<1>3. PICK m \in Nat \ {0} : m = max[e]
  BY <1>1 DEF TypeInv
<1>4. size \in Nat \ {0} /\ Len(old) \in Nat /\ Len(old) <= m
  BY <1>1, <1>2, <1>3, LogSyncAssumption DEF LogBounded
<1>5. PICK pop : pop = IF m - size < Len(old) THEN m - size ELSE Len(old)
  OBVIOUS
<1>6. Min({m - size, Len(old)}) = pop
  <2>1. m - size \in Int /\ Len(old) \in Int
    BY <1>4
  <2>2. QED
    BY <1>5, <2>1, MinIs
<1>7. PICK lg : lg = IF size < m THEN SubSeq(old, pop + 1, Len(old)) ELSE old
  OBVIOUS
<1>8. lg \in Seq(Line) /\ Len(lg) <= size
  <2>1. CASE size < m
    <3>1. pop \in 0..Len(old) /\ Len(old) - pop <= size
      BY <1>4, <1>5, <2>1
    <3>2. pop + 1 \in 1..Len(old) + 1
      BY <1>4, <3>1
    <3>3. PICK s : s = SubSeq(old, pop + 1, Len(old))
      OBVIOUS
    <3>4. s \in Seq(Line)
      BY <3>2, <3>3
    <3>5. Len(s) = Len(old) - pop
      BY <1>4, <3>1, <3>2, <3>3
    <3>6. QED
      BY <1>7, <2>1, <3>1, <3>3, <3>4, <3>5
  <2>2. CASE ~(size < m)
    BY <1>4, <1>7, <2>2
  <2>3. QED
    BY <2>1, <2>2
<1>9. /\ log' = [log EXCEPT ![e] = lg]
      /\ max' = [max EXCEPT ![e] = size]
      /\ resized' = resized \cup {e}
      /\ UNCHANGED <<written, posted, iter, started, connects, timer, chan, asking, syncs, snap, news, olds, done>>
  <2>1. log' = IF size < m THEN [log EXCEPT ![e] = SubSeq(@, pop + 1, Len(@))] ELSE log
    BY <1>2, <1>3, <1>6 DEF setLogBufSize
  <2>2. log' = [log EXCEPT ![e] = lg]
    <3>1. log \in [Ends -> Seq(Line)]
      BY <1>1 DEF TypeInv
    <3>2. CASE size < m
      BY <1>2, <1>7, <2>1, <3>2
    <3>3. CASE ~(size < m)
      BY <1>2, <1>7, <2>1, <3>1, <3>3
    <3>4. QED
      BY <3>2, <3>3
  <2>3. QED
    BY <2>2 DEF setLogBufSize, source
<1>10. /\ log' \in [Ends -> Seq(Line)] /\ max' \in [Ends -> Nat \ {0}]
       /\ log'[e] = lg /\ max'[e] = size
       /\ \A f \in Ends : f # e => log'[f] = log[f] /\ max'[f] = max[f]
       /\ resized' \subseteq Ends
  BY <1>1, <1>4, <1>8, <1>9 DEF TypeInv
<1>11. TypeInv'
  BY <1>1, <1>9, <1>10 DEF TypeInv
<1>12. FlagsInv'
  BY <1>1, <1>9 DEF FlagsInv
<1>13. LogBounded'
  BY <1>1, <1>8, <1>10 DEF LogBounded
<1>14. FirstInv'
  <2>1. SUFFICES ASSUME First' PROVE Copied' /\ \A c \in Clients : Served(c)'
    BY DEF FirstInv
  <2>2. First /\ Copied /\ \A c \in Clients : Served(c)
    BY <1>9, <2>1 DEF LogInv, FirstInv, First
  <2>3. Copied'
    BY <1>9, <2>2 DEF Copied
  <2>4. ASSUME NEW c \in Clients PROVE Served(c)'
    <3>1. c \notin resized' => c \notin resized /\ c # e /\ c \in Ends
      BY <1>9 DEF Ends
    <3>2. QED
      BY <1>9, <1>10, <2>2, <3>1 DEF Served
  <2>5. QED
    BY <2>3, <2>4
<1>15. QED
  BY <1>11, <1>12, <1>13, <1>14 DEF LogInv

LEMMA NextInv == LogInv /\ [Next]_vars => LogInv'
<1> SUFFICES ASSUME LogInv, [Next]_vars PROVE LogInv'
  OBVIOUS
<1>1. CASE WriteOzw \/ WriteMain \/ newLogLine \/ Timeout
  BY <1>1, WriteStep, NewLineStep, TimeoutStep
<1>2. ASSUME NEW c \in Clients,
             \/ ask(c) \/ syncroniseLogs(c)
             \/ insertLogLine(c) \/ syncLogMessages(c) \/ syncStatus(c)
      PROVE  LogInv'
  BY <1>2, AskStep, ServeStep, InsertStep, OlderStep, StatusStep
<1>3. ASSUME NEW e \in Ends, NEW size \in Sizes, setLogBufSize(e, size)
      PROVE  LogInv'
  BY <1>3, SizeStep
<1>4. CASE UNCHANGED vars
  <2>1. UNCHANGED <<log, max, written, posted, iter, started, connects, timer, chan, asking, syncs, snap, news, olds, done, resized>>
    BY <1>4 DEF vars, source, ghosts
  <2>2. TypeInv' /\ FlagsInv' /\ LogBounded'
    BY <2>1 DEF LogInv, TypeInv, FlagsInv, LogBounded
  <2>3. FirstInv'
    BY <2>1 DEF LogInv, FirstInv, First, Copied, Served
  <2>4. QED
    BY <2>2, <2>3 DEF LogInv
<1>5. QED
  BY <1>1, <1>2, <1>3, <1>4 DEF Next

-----------------------------------------------------------------------------
(* The theorems.                                                           *)

\* The inductive invariant holds for every number of clients, sizes of logs and
\* batches, and number of calls.
THEOREM LogInductive == Spec => []LogInv
<1>1. QED
  BY InitInv, NextInv, PTL DEF Spec

\* Type correctness of the logs, the batches and the signals.
THEOREM LogTypes == Spec => []TypeOK
<1>1. LogInv => TypeOK
  <2>1. SUFFICES ASSUME LogInv PROVE TypeOK
    OBVIOUS
  <2>2. TypeInv /\ FlagsInv
    BY <2>1 DEF LogInv
  <2>3. Cardinality(asking) \in Nat
    BY <2>2, FS_CardinalityType DEF TypeInv
  <2>4. syncs \in 0..Syncs /\ connects \in 0..Syncs
    BY <2>2, <2>3, LogSyncAssumption DEF TypeInv
  <2>5. /\ \A e \in Ends : \A i \in 1..Len(log[e]) : log[e][i] \in Line
        /\ \A c \in Clients : \A i \in 1..Len(chan[c]) : chan[c][i] \in Signal
    BY <2>2 DEF TypeInv
  <2>6. QED
    BY <2>2, <2>4, <2>5 DEF TypeOK, TypeInv, FlagsInv
<1>2. QED
  BY <1>1, LogInductive, PTL

\* No log outgrows its size, from whichever end it is filled and however often it
\* is resized.
THEOREM LogBoundedAlways == Spec => []LogBounded
<1>1. LogInv => LogBounded
  BY DEF LogInv
<1>2. QED
  BY <1>1, LogInductive, PTL

\* While only one call was made, the log of a client that was not resized is
\* exactly the newest lines of what it got, in order, though batches of older
\* lines and new lines come interleaved; and it has the whole copied log when it
\* is told the end.
THEOREM FirstSyncExactAlways == Spec => []FirstSyncExact
<1>1. LogInv => FirstSyncExact
  <2>1. SUFFICES ASSUME LogInv, First, NEW c \in Clients \ resized
                 PROVE  LET all == SubSeq(snap, Len(snap) - olds[c] + 1, Len(snap)) \o news[c] IN
                        /\ IsSuffix(log[c], all)
                        /\ Len(log[c]) = Min({max[c], Len(all)})
                        /\ done[c] = 1 => olds[c] = Len(snap)
    BY DEF FirstSyncExact, First
  <2>2. /\ Served(c) /\ snap \in Seq(Line) /\ news[c] \in Seq(Line) /\ log[c] \in Seq(Line)
        /\ max[c] \in Nat /\ chan[c] \in Seq(Signal)
    BY <2>1 DEF LogInv, FirstInv, TypeInv, Ends
  <2>3. olds[c] \in 0..Len(snap)
    BY <2>2, StreamStarts DEF Served
  <2>4. Shows(log[c], max[c], snap, olds[c], news[c]) /\ (done[c] = 1 => olds[c] = Len(snap))
    BY <2>1, <2>2 DEF Served
  <2>5. LET all == SubSeq(snap, Len(snap) - olds[c] + 1, Len(snap)) \o news[c] IN
        IsSuffix(log[c], all) /\ Len(log[c]) = Min({max[c], Len(all)})
    <3>1. PICK lg \in Seq(Line), mx \in Nat, sn \in Seq(Line), nw \in Seq(Line) :
            lg = log[c] /\ mx = max[c] /\ sn = snap /\ nw = news[c]
      BY <2>2
    <3>2. PICK o \in 0..Len(sn) : o = olds[c]
      BY <2>3, <3>1
    <3>3. Shows(lg, mx, sn, o, nw)
      BY <2>4, <3>1, <3>2
    <3>4. LET all == SubSeq(sn, Len(sn) - o + 1, Len(sn)) \o nw IN
          IsSuffix(lg, all) /\ Len(lg) = Min({mx, Len(all)})
      BY <3>3, ShowsIsSuffix
    <3>5. QED
      BY <3>1, <3>2, <3>4
  <2>6. QED
    BY <2>4, <2>5
<1>2. QED
  BY <1>1, LogInductive, PTL
=============================================================================
