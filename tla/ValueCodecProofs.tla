-------------------------- MODULE ValueCodecProofs --------------------------
(***************************************************************************)
(* Proofs about ValueCodec, for any even number of numbers of each type,   *)
(* any List with labels and values of its own, any narrowing of Decimals,  *)
(* any masks and any number of writes on their way.  Casts are shown to    *)
(* fit and to keep what fits; then every edit that is written, by          *)
(* whichever client, is an instance of one lemma about setData.            *)
(***************************************************************************)
EXTENDS ValueCodec, SequenceTheorems, FiniteSetTheorems, TLAPS

-----------------------------------------------------------------------------
(* The inductive invariant.                                                *)

Bits == UNION Masks

\* What a row of the type can be, also one that the library cannot hold.
RowFits(r) ==
    CASE type \in Numbers -> r \in Int
      [] type = "List" -> \E i \in Entries, k \in Int : r = [item |-> Items[i].label, id |-> k]
      [] type = "BitSet" -> r \in SUBSET Bits
      [] type = "Bool" -> r \in BOOLEAN
      [] type = "Decimal" -> r \in Decimals
      [] OTHER -> r \in Tokens

\* What the device can be sent; it leaves out of a BitSet what it has not.
Sendable == IF type = "BitSet" THEN SUBSET Bits ELSE LibData

TypeInv ==
    /\ type \in Types /\ mask \in Masks /\ lib \in LibData
    /\ pending \in Seq(Sendable) /\ Len(pending) <= PendingBound
    /\ reported \in BOOLEAN /\ crossed \in BOOLEAN
    /\ RowFits(row)
    /\ editor = {} \/ \E r : editor = {r} /\ RowFits(r)

\* What the library will hold if nothing else happens.
Latest == IF pending = <<>> THEN lib ELSE pending[Len(pending)]

\* The topic has what the publisher's document has, a BitSet's apart.  Once
\* something crossed, what was meant is given up for what the library
\* holds.  Until then it is what the last write will bring; the row can be held
\* by the library, and is what it holds unless a report or a write is under way.
MeantInv ==
    /\ type # "BitSet" => topic = doc
    /\ crossed => meant = lib
    /\ ~crossed =>
         /\ Visible(meant) = Visible(Latest)
         /\ type \in Numbers => row \in LibData
         /\ type = "BitSet" => row \subseteq RowMask
         /\ pending = <<>> /\ ~reported =>
              /\ row = Shown(lib)
              /\ type # "BitSet" => doc = row

CodecInv == TypeInv /\ MeantInv

-----------------------------------------------------------------------------
(* Casts.                                                                  *)

\* The number of numbers of a type is twice that of its non-negative ones.
LEMMA SizeIsEven ==
    ASSUME type \in Numbers
    PROVE  \E h \in Nat \ {0} : Size = 2 * h /\ Size \div 2 = h
<1>1. Size \in Nat \ {0} /\ Size % 2 = 0
  BY CodecAssumption DEF Size
<1>2. \A s \in Nat \ {0} : s % 2 = 0 => \E h \in Nat \ {0} : s = 2 * h /\ s \div 2 = h
  <2> TAKE s \in Nat \ {0}
  <2> HAVE s % 2 = 0
  <2>1. s \div 2 \in Nat /\ s = 2 * (s \div 2)
    OBVIOUS
  <2>2. s \div 2 # 0
    BY <2>1
  <2>3. QED
    BY <2>1, <2>2
<1>3. QED
  BY <1>1, <1>2

\* Division by any positive number.
LEMMA Remainders ==
    ASSUME NEW k \in Nat \ {0}
    PROVE  /\ \A a \in Int : a % k \in 0..(k - 1)
           /\ \A a \in 0..(k - 1) : a % k = a
           /\ \A a \in (-k)..(-1) : a % k = a + k
<1>1. \A a \in Int : a % k \in 0..(k - 1)
  OBVIOUS
<1>2. \A a \in 0..(k - 1) : a % k = a
  OBVIOUS
<1>3. \A a \in (-k)..(-1) : a % k = a + k
  OBVIOUS
<1>4. QED
  BY <1>1, <1>2, <1>3

LEMMA NumbersAre ==
    ASSUME type \in Numbers, NEW h \in Nat \ {0}, Size = 2 * h, Size \div 2 = h
    PROVE  LibData = IF type = "Byte" THEN 0..(2 * h - 1) ELSE (-h)..(h - 1)
BY DEF LibData, Numbers

\* A cast makes data of the type of any number, ...
LEMMA CastFits ==
    ASSUME type \in Numbers, NEW v \in Int
    PROVE  Cast(v) \in LibData
<1>1. PICK h \in Nat \ {0} : Size = 2 * h /\ Size \div 2 = h
  BY SizeIsEven
<1>2. PICK low : low = v % Size
  OBVIOUS
<1>3. low \in 0..(2 * h - 1)
  BY <1>1, <1>2, Remainders
<1>4. Cast(v) = IF type = "Byte" \/ low < h THEN low ELSE low - 2 * h
  BY <1>1, <1>2 DEF Cast
<1>5. QED
  BY <1>1, <1>3, <1>4, NumbersAre

\* ... leaves alone what is, ...
LEMMA CastKeeps ==
    ASSUME type \in Numbers, NEW v \in LibData
    PROVE  Cast(v) = v /\ v \in Int
<1>1. PICK h \in Nat \ {0} : Size = 2 * h /\ Size \div 2 = h
  BY SizeIsEven
<1>2. v \in IF type = "Byte" THEN 0..(2 * h - 1) ELSE (-h)..(h - 1)
  BY <1>1, NumbersAre
<1>3. PICK k \in Nat \ {0} : k = Size
  BY <1>1
<1>4. CASE v \in 0..(2 * h - 1) /\ (type = "Byte" \/ v < h)
  <2>1. v \in 0..(k - 1)
    BY <1>1, <1>3, <1>4
  <2>2. v % k = v
    BY <2>1, Remainders
  <2>3. QED
    BY <1>1, <1>3, <1>4, <2>2 DEF Cast
<1>5. CASE type # "Byte" /\ v \in (-h)..(-1)
  <2>1. v \in (-k)..(-1)
    BY <1>1, <1>3, <1>5
  <2>2. v % k = v + k
    BY <2>1, Remainders
  <2>3. ~(v + k < h) /\ v + k - k = v /\ v \in Int
    BY <1>1, <1>3, <1>5
  <2>4. QED
    BY <1>1, <1>3, <1>5, <2>2, <2>3 DEF Cast
<1>6. QED
  BY <1>2, <1>4, <1>5

\* ... and sees of a number only its lowest bits.
LEMMA CastSame ==
    ASSUME NEW v, NEW w, v % Size = w % Size
    PROVE  Cast(v) = Cast(w)
BY DEF Cast

-----------------------------------------------------------------------------
(* Rows and what is sent for them.                                         *)

\* A label names one entry.
LEMMA LabelIs ==
    ASSUME type = "List", NEW i \in Entries, NEW r, r.item = Items[i].label
    PROVE  DataOf(r) = i
<1>1. \A j \in Entries : Items[j].label = r.item <=> j = i
  BY CodecAssumption
<1>2. (CHOOSE j \in Entries : Items[j].label = r.item) = i
  BY <1>1
<1>3. QED
  BY <1>2 DEF DataOf, Numbers

\* What is sent for a row is data of the type; for a BitSet it is the row.
LEMMA DataFits ==
    ASSUME type \in Types, NEW r, RowFits(r)
    PROVE  DataOf(r) \in Sendable
<1>1. CASE type \in Numbers
  BY <1>1, CastFits DEF RowFits, DataOf, Sendable, Numbers
<1>2. CASE type = "List"
  <2>1. PICK i \in Entries, k \in Int : r = [item |-> Items[i].label, id |-> k]
    BY <1>2 DEF RowFits, Numbers
  <2>2. r.item = Items[i].label
    BY <2>1
  <2>3. DataOf(r) = i
    BY <1>2, <2>2, LabelIs
  <2>4. QED
    BY <1>2, <2>3 DEF Sendable, LibData
<1>3. CASE type = "BitSet"
  BY <1>3 DEF RowFits, DataOf, Sendable, Numbers
<1>4. CASE type = "Decimal"
  <2>1. r \in Decimals
    BY <1>4 DEF RowFits, Numbers
  <2>2. DataOf(r) = Float[r]
    BY <1>4 DEF DataOf, Numbers
  <2>3. QED
    BY <1>4, <2>1, <2>2 DEF Sendable, LibData
<1>5. CASE type \in {"Bool", "Token"}
  BY <1>5 DEF RowFits, DataOf, Sendable, LibData, Numbers
<1>6. QED
  BY <1>1, <1>2, <1>3, <1>4, <1>5 DEF Types

\* The row of data of the library fits, ...
LEMMA ShownFits ==
    ASSUME type \in Types, mask \in Masks, NEW d \in LibData
    PROVE  /\ RowFits(Shown(d))
           /\ type \in Numbers => Shown(d) \in LibData
           /\ type = "BitSet" => Shown(d) \subseteq RowMask
<1>1. CASE type \in Numbers
  <2>1. Shown(d) = d /\ d \in Int
    BY <1>1, CastKeeps DEF Shown, Visible, Numbers
  <2>2. QED
    BY <1>1, <2>1 DEF RowFits, Numbers
<1>2. CASE type = "List"
  <2>1. d \in Entries
    BY <1>2 DEF LibData
  <2>2. Items[d].value \in Int /\ Shown(d) = [item |-> Items[d].label, id |-> Items[d].value]
    <3>1. Items[d] \in [label : STRING, value : Nat]
      BY <2>1, CodecAssumption, ElementOfSeq DEF Entries
    <3>2. Items[d].value \in Int
      BY <3>1
    <3>3. QED
      BY <1>2, <3>2 DEF Shown
  <2>3. QED
    BY <1>2, <2>1, <2>2 DEF RowFits, Numbers
<1>3. CASE type = "BitSet"
  <2>1. d \subseteq mask /\ mask \subseteq Bits
    BY <1>3 DEF LibData, Bits
  <2>2. Shown(d) = d \cap RowMask
    BY <1>3 DEF Shown, Visible
  <2>3. QED
    BY <1>3, <2>1, <2>2 DEF RowFits, Numbers
<1>4. CASE type = "Decimal"
  <2>1. d \in Decimals
    BY <1>4, CodecAssumption DEF LibData
  <2>2. Shown(d) = d
    BY <1>4 DEF Shown, Visible
  <2>3. QED
    BY <1>4, <2>1, <2>2 DEF RowFits, Numbers
<1>5. CASE type \in {"Bool", "Token"}
  BY <1>5 DEF Shown, Visible, RowFits, LibData, Numbers
<1>6. QED
  BY <1>1, <1>2, <1>3, <1>4, <1>5 DEF Types

\* An end of the writes on their way.
LEMMA Ends ==
    ASSUME NEW S, NEW p \in Seq(S)
    PROVE  /\ p \o <<>> = p
           /\ \A d \in S : /\ p \o <<d>> \in Seq(S) /\ p \o <<d>> # <<>>
                           /\ (p \o <<d>>)[Len(p \o <<d>>)] = d
           /\ p # <<>> => /\ Len(p) \in Nat \ {0} /\ Head(p) \in S /\ p[Len(p)] \in S
                          /\ Tail(p) \in Seq(S) /\ Len(Tail(p)) = Len(p) - 1
                          /\ Tail(p) = <<>> => p[Len(p)] = Head(p)
                          /\ Tail(p) # <<>> => Tail(p)[Len(Tail(p))] = p[Len(p)]
<1>1. p \o <<>> = p
  OBVIOUS
<1>2. ASSUME NEW d \in S
      PROVE  /\ p \o <<d>> \in Seq(S) /\ p \o <<d>> # <<>>
             /\ (p \o <<d>>)[Len(p \o <<d>>)] = d
  OBVIOUS
<1>3. ASSUME p # <<>>
      PROVE  /\ Len(p) \in Nat \ {0} /\ Head(p) \in S /\ p[Len(p)] \in S
             /\ Tail(p) \in Seq(S) /\ Len(Tail(p)) = Len(p) - 1
  BY <1>3
<1>4. ASSUME p # <<>>, Tail(p) = <<>>
      PROVE  p[Len(p)] = Head(p)
  <2>1. Len(Tail(p)) = 0
    BY <1>4, EmptySeq
  <2>2. Len(p) = 1
    BY <1>3, <1>4, <2>1
  <2>3. QED
    BY <1>4, <2>2
<1>5. ASSUME p # <<>>, Tail(p) # <<>>
      PROVE  Tail(p)[Len(Tail(p))] = p[Len(p)]
  BY <1>3, <1>5
<1>6. QED
  BY <1>1, <1>2, <1>3, <1>4, <1>5

-----------------------------------------------------------------------------
(* Edits.                                                                  *)

\* An edit of a row that the code sorts out: r is a row the library can hold,
\* and what is sent for it is what the client means.
Clear(r, intent) ==
    /\ type \in Numbers => r \in LibData
    /\ type = "BitSet" => r \subseteq RowMask
    /\ Visible(intent) = Visible(DataOf(r))

\* setData finds no difference only where nothing different would be sent.
LEMMA SameSends ==
    ASSUME TypeInv, NEW r, RowFits(r), Same(r)
    PROVE  /\ type \notin {"List", "BitSet"}
           /\ DataOf(r) = DataOf(row)
           /\ type \in Numbers /\ r \in LibData /\ row \in LibData => r = row
<1>1. type \notin {"List", "BitSet"}
  BY DEF Same, Numbers
<1>2. CASE type = "Int"
  <2>1. r % Size = row % Size
    BY <1>2 DEF Same, Numbers
  <2>2. Cast(r) = Cast(row)
    BY <2>1, CastSame
  <2>3. QED
    BY <1>1, <1>2, <2>2, CastKeeps DEF DataOf, Numbers
<1>3. CASE type # "Int"
  BY <1>1, <1>3 DEF Same
<1>4. QED
  BY <1>1, <1>2, <1>3

\* Whoever writes a row: what the row and the writes on their way may be is
\* kept, and so is what they come to, if the code sorts this edit out.
LEMMA SetDataKeeps ==
    ASSUME CodecInv, NEW r, RowFits(r), NEW intent, NEW lossy \in BOOLEAN,
           setData(r, intent, lossy),
           ~lossy => Clear(r, intent)
    PROVE  /\ UNCHANGED <<type, mask, lib, reported>>
           /\ pending' \in Seq(Sendable) /\ Len(pending') <= PendingBound
           /\ crossed' \in BOOLEAN
           /\ RowFits(row')
           /\ MeantInv'
<1> USE DEF CodecInv
<1>1. PICK sent : sent = IF Same(r) THEN <<>> ELSE Sends(r)
  OBVIOUS
<1>2. /\ Len(pending \o sent) <= PendingBound
      /\ pending' = pending \o sent
      /\ row' = IF Same(r) THEN row ELSE r
      /\ UNCHANGED <<type, mask, lib, reported, doc, topic>>
  BY <1>1 DEF setData
<1>3. /\ crossed' \in BOOLEAN
      /\ crossed' <=> crossed \/ lossy \/ ~Fresh \/ Undoes(r)
      /\ crossed' => meant' = lib'
      /\ ~crossed' => meant' = intent
  BY DEF setData, Means, TypeInv
<1>4. DataOf(r) \in Sendable
  BY DataFits DEF TypeInv
<1>5. sent = <<>> \/ sent = <<DataOf(r)>>
  BY <1>1 DEF Sends
<1>6. pending \in Seq(Sendable)
  BY DEF TypeInv
<1>7. pending' \in Seq(Sendable) /\ RowFits(row')
  <2>1. pending' \in Seq(Sendable)
    BY <1>2, <1>4, <1>5, <1>6, Ends
  <2>2. RowFits(row')
    BY <1>2 DEF TypeInv
  <2>3. QED
    BY <2>1, <2>2
<1>8. UNCHANGED <<type, mask, lib, reported, doc, topic>> => \A d : Visible(d)' = Visible(d)
  BY DEF Visible, RowMask
<1>9. ASSUME ~crossed'
      PROVE  /\ Visible(meant') = Visible(Latest')
             /\ type \in Numbers => row' \in LibData
             /\ type = "BitSet" => row' \subseteq RowMask
             /\ pending' = <<>> /\ ~reported =>
                  row' = Shown(lib) /\ (type # "BitSet" => doc = row')
  <2>1. /\ Clear(r, intent) /\ Fresh /\ ~Undoes(r) /\ meant' = intent
        /\ type \in Numbers => row \in LibData
        /\ type = "BitSet" => row \subseteq RowMask
        /\ pending = <<>> /\ ~reported => row = Shown(lib) /\ (type # "BitSet" => doc = row)
    BY <1>3, <1>9 DEF MeantInv
  <2>2. Visible(meant') = Visible(DataOf(r))
    BY <2>1 DEF Clear
  <2>3. Visible(DataOf(row)) = Visible(Latest)
    BY <2>1 DEF Fresh, Latest, Last
  <2>4. CASE Same(r)
    <3>1. pending' = pending /\ row' = row
      BY <1>1, <1>2, <1>6, <2>4, Ends
    <3>2. Latest' = Latest
      BY <1>2, <3>1 DEF Latest
    <3>3. DataOf(r) = DataOf(row)
      BY <2>4, SameSends
    <3>4. QED
      BY <2>1, <2>2, <2>3, <3>1, <3>2, <3>3
  <2>5. CASE ~Same(r) /\ sent = <<>>
    <3>1. type = "BitSet" /\ Visible(r) = Visible(lib) /\ Sends(r) = <<>>
      BY <1>1, <2>5 DEF Sends
    <3>2. pending = <<>>
      BY <2>1, <3>1 DEF Undoes
    <3>3. pending' = <<>> /\ row' = r
      BY <1>2, <1>6, <2>5, <3>2, Ends
    <3>4. Latest' = lib
      BY <1>2, <3>3 DEF Latest
    <3>5. DataOf(r) = r /\ r \subseteq RowMask
      BY <2>1, <3>1 DEF DataOf, Clear, Numbers
    <3>6. Visible(r) = r /\ Shown(lib) = Visible(lib)
      BY <3>1, <3>5 DEF Visible, Shown
    <3>7. QED
      BY <2>2, <3>1, <3>3, <3>4, <3>5, <3>6 DEF Numbers
  <2>6. CASE ~Same(r) /\ sent = <<DataOf(r)>>
    <3>1. pending' # <<>> /\ pending'[Len(pending')] = DataOf(r) /\ row' = r
      BY <1>2, <1>4, <1>6, <2>6, Ends
    <3>2. Latest' = DataOf(r)
      BY <3>1 DEF Latest
    <3>3. QED
      BY <2>1, <2>2, <3>1, <3>2 DEF Clear
  <2>7. QED
    BY <1>5, <2>4, <2>5, <2>6
<1>10. UNCHANGED <<type, mask, lib>> => LibData' = LibData /\ RowMask' = RowMask /\ Shown(lib)' = Shown(lib)
  BY DEF LibData, RowMask, Shown, Visible, Size
<1>11. MeantInv'
  BY <1>2, <1>3, <1>8, <1>9, <1>10 DEF MeantInv
<1>12. QED
  BY <1>2, <1>3, <1>7, <1>11

-----------------------------------------------------------------------------
(* Steps.                                                                  *)

LEMMA CodecInit == InitCodec => CodecInv
<1> SUFFICES ASSUME InitCodec PROVE CodecInv
  OBVIOUS
<1> USE DEF InitCodec
<1>1. /\ RowFits(row)
      /\ type \in Numbers => row \in LibData
      /\ type = "BitSet" => row \subseteq RowMask
  BY ShownFits
<1>2. TypeInv
  <2>1. pending \in Seq(Sendable) /\ Len(pending) = 0
    BY EmptySeq
  <2>2. Len(pending) <= PendingBound
    BY <2>1, CodecAssumption
  <2>3. QED
    BY <1>1, <2>1, <2>2 DEF TypeInv
<1>3. MeantInv
  BY <1>1 DEF MeantInv, Latest, Encoded
<1>4. QED
  BY <1>2, <1>3 DEF CodecInv

\* What depends on the type and the mask alone is the same after each step.
LEMMA TypeStays ==
    ASSUME UNCHANGED <<type, mask>>
    PROVE  /\ LibData' = LibData /\ Sendable' = Sendable /\ RowMask' = RowMask
           /\ \A r : RowFits(r)' <=> RowFits(r)
           /\ \A d : Visible(d)' = Visible(d) /\ Shown(d)' = Shown(d)
<1>1. Size' = Size
  BY DEF Size
<1>2. LibData' = LibData /\ RowMask' = RowMask
  BY <1>1 DEF LibData, RowMask
<1>3. \A d : Visible(d)' = Visible(d)
  BY <1>2 DEF Visible
<1>4. \A d : Shown(d)' = Shown(d)
  BY <1>3 DEF Shown
<1>5. QED
  BY <1>2, <1>3, <1>4 DEF Sendable, RowFits

LEMMA ReportsKeep ==
    ASSUME CodecInv, NEW d \in LibData, deviceReports(d)
    PROVE  CodecInv'
<1> USE DEF CodecInv
<1>1. /\ lib' = d /\ reported' = TRUE
      /\ UNCHANGED <<type, mask, pending, row, doc, topic, editor>>
      /\ crossed' = (crossed \/ (d # lib /\ pending # <<>>))
      /\ meant' = IF crossed' THEN lib' ELSE IF d = lib THEN meant ELSE d
  BY DEF deviceReports, Means
<1>2. TypeInv'
  BY <1>1, TypeStays DEF TypeInv
<1>3. ASSUME ~crossed' PROVE Visible(meant') = Visible(Latest')
  <2>1. ~crossed /\ (d = lib \/ pending = <<>>)
    BY <1>1, <1>3
  <2>2. Visible(meant) = Visible(Latest)
    BY <2>1 DEF MeantInv
  <2>3. CASE d = lib
    BY <1>1, <1>3, <2>2, <2>3 DEF Latest
  <2>4. CASE d # lib
    BY <1>1, <1>3, <2>1, <2>4 DEF Latest
  <2>5. QED
    BY <2>3, <2>4
<1>4. MeantInv'
  BY <1>1, <1>3, TypeStays DEF MeantInv
<1>5. QED
  BY <1>2, <1>4

LEMMA TakesKeep ==
    ASSUME CodecInv, deviceTakes
    PROVE  CodecInv'
<1> USE DEF CodecInv
<1>1. /\ pending # <<>> /\ pending' = Tail(pending)
      /\ lib' = IF type = "BitSet" THEN Head(pending) \cap mask ELSE Head(pending)
      /\ reported' = TRUE
      /\ UNCHANGED <<type, mask, row, doc, topic, editor>>
      /\ crossed' = crossed
      /\ meant' = IF crossed' THEN lib' ELSE meant
  BY DEF deviceTakes, Means
<1>2. /\ Len(pending) \in Nat \ {0} /\ Head(pending) \in Sendable
      /\ Tail(pending) \in Seq(Sendable) /\ Len(Tail(pending)) = Len(pending) - 1
      /\ Tail(pending) = <<>> => pending[Len(pending)] = Head(pending)
      /\ Tail(pending) # <<>> => Tail(pending)[Len(Tail(pending))] = pending[Len(pending)]
  BY <1>1, Ends DEF TypeInv
<1>3. lib' \in LibData /\ Visible(lib') = Visible(Head(pending))
  <2>1. CASE type = "BitSet"
    BY <1>1, <2>1 DEF LibData, Visible, RowMask
  <2>2. CASE type # "BitSet"
    BY <1>1, <1>2, <2>2 DEF Sendable
  <2>3. QED
    BY <2>1, <2>2
<1>4. TypeInv'
  <2>1. Len(pending') <= PendingBound
    BY <1>1, <1>2, CodecAssumption DEF TypeInv
  <2>2. QED
    BY <1>1, <1>2, <1>3, <2>1, TypeStays DEF TypeInv
<1>5. Visible(Latest') = Visible(Latest)
  <2>1. CASE Tail(pending) = <<>>
    BY <1>1, <1>2, <1>3, <2>1 DEF Latest
  <2>2. CASE Tail(pending) # <<>>
    BY <1>1, <1>2, <2>2 DEF Latest
  <2>3. QED
    BY <2>1, <2>2
<1>6. MeantInv'
  BY <1>1, <1>5, TypeStays DEF MeantInv
<1>7. QED
  BY <1>4, <1>6

LEMMA RefusesKeep ==
    ASSUME CodecInv, deviceRefuses
    PROVE  CodecInv'
<1> USE DEF CodecInv
<1>1. /\ pending # <<>> /\ pending' = Tail(pending)
      /\ reported' \in {reported, TRUE}
      /\ UNCHANGED <<type, mask, lib, row, doc, topic, editor>>
      /\ crossed' = TRUE /\ meant' = lib'
  BY DEF deviceRefuses, Means
<1>2. Len(pending) \in Nat \ {0} /\ Tail(pending) \in Seq(Sendable) /\ Len(Tail(pending)) = Len(pending) - 1
  BY <1>1, Ends DEF TypeInv
<1>3. TypeInv'
  <2>1. Len(pending') <= PendingBound
    BY <1>1, <1>2, CodecAssumption DEF TypeInv
  <2>2. QED
    BY <1>1, <1>2, <2>1, TypeStays DEF TypeInv
<1>4. MeantInv'
  BY <1>1 DEF MeantInv
<1>5. QED
  BY <1>3, <1>4

\* The topic of other types than BitSets has what their new document has,
\* published or not.
LEMMA ReadKeeps ==
    ASSUME CodecInv, convertValueID,
           type # "BitSet" => topic' = doc'
    PROVE  CodecInv'
<1> USE DEF CodecInv
<1>1. /\ reported' = FALSE
      /\ row' = Shown(lib) /\ doc' = ReEncoded(row')
      /\ UNCHANGED <<type, mask, lib, pending, editor>>
      /\ crossed' = (crossed /\ pending # <<>>)
      /\ meant' = IF crossed' THEN lib' ELSE meant
  BY DEF convertValueID, Means
<1>2. /\ RowFits(row')
      /\ type \in Numbers => row' \in LibData
      /\ type = "BitSet" => row' \subseteq RowMask
  BY <1>1, ShownFits DEF TypeInv
<1>3. TypeInv'
  BY <1>1, <1>2, TypeStays DEF TypeInv
<1>4. ~crossed' => Visible(meant') = Visible(Latest')
  BY <1>1 DEF MeantInv, Latest
<1>5. type # "BitSet" => doc' = row'
  BY <1>1 DEF ReEncoded, Encoded
<1>6. MeantInv'
  BY <1>1, <1>2, <1>4, <1>5, TypeStays DEF MeantInv
<1>7. QED
  BY <1>3, <1>6

LEMMA ChangedKeeps ==
    ASSUME CodecInv, NEW attributes \in BOOLEAN, valueChanged(attributes)
    PROVE  CodecInv'
<1>1. /\ convertValueID
      /\ topic' = IF Differs(row') \/ attributes THEN doc' ELSE topic
  BY DEF valueChanged
<1>2. ASSUME type # "BitSet" PROVE topic' = doc'
  <2>1. doc' = row'
    BY <1>1, <1>2 DEF convertValueID, ReEncoded, Encoded
  <2>2. Differs(row') <=> doc # row'
    BY <1>2 DEF Differs
  <2>3. topic = doc
    BY <1>2 DEF CodecInv, MeantInv
  <2>4. QED
    BY <1>1, <2>1, <2>2, <2>3
<1>3. QED
  BY <1>1, <1>2, ReadKeeps

LEMMA RefreshedKeeps ==
    ASSUME CodecInv, valueRefreshed
    PROVE  CodecInv'
BY ReadKeeps DEF valueRefreshed

\* An edit that may leave an editor closed.
LEMMA EditKeeps ==
    ASSUME CodecInv, NEW r, RowFits(r), NEW intent, NEW lossy \in BOOLEAN,
           setData(r, intent, lossy),
           ~lossy => Clear(r, intent),
           editor' = editor \/ editor' = {}
    PROVE  CodecInv'
<1>1. /\ UNCHANGED <<type, mask, lib, reported>>
      /\ pending' \in Seq(Sendable) /\ Len(pending') <= PendingBound
      /\ crossed' \in BOOLEAN
      /\ RowFits(row')
      /\ MeantInv'
  BY SetDataKeeps
<1>2. TypeInv'
  BY <1>1, TypeStays DEF CodecInv, TypeInv
<1>3. QED
  BY <1>1, <1>2 DEF CodecInv

LEMMA NumberKeeps ==
    ASSUME CodecInv, NEW v, setValueNumber(v)
    PROVE  CodecInv'
<1>1. type \in Numbers /\ v \in 0..(Size - 1) /\ editor' = editor
  BY DEF setValueNumber
<1>2. v \in Int
  BY <1>1
<1>3. PICK intent : intent = Cast(v)
  OBVIOUS
<1>4. PICK lossy \in BOOLEAN : lossy <=> intent # v
  OBVIOUS
<1>5. setData(v, intent, lossy)
  BY <1>3, <1>4 DEF setValueNumber, setData, Means
<1>6. RowFits(v)
  BY <1>1, <1>2 DEF RowFits, Numbers
<1>7. ASSUME ~lossy PROVE Clear(v, intent)
  <2>1. v = Cast(v) /\ Cast(v) \in LibData
    BY <1>1, <1>2, <1>3, <1>4, <1>7, CastFits
  <2>2. QED
    BY <1>1, <1>3, <2>1 DEF Clear, DataOf, Numbers
<1>8. QED
  BY <1>1, <1>5, <1>6, <1>7, EditKeeps

LEMMA ListKeeps ==
    ASSUME CodecInv, NEW v, setValueList(v)
    PROVE  CodecInv'
<1>1. PICK i \in Entries :
        /\ type = "List" /\ editor' = editor
        /\ setData([item |-> Items[i].label, id |-> i - 1], i, FALSE)
  BY DEF setValueList
<1>2. PICK r : r = [item |-> Items[i].label, id |-> i - 1]
  OBVIOUS
<1>3. i - 1 \in Int
  BY CodecAssumption DEF Entries
<1>4. RowFits(r)
  BY <1>1, <1>2, <1>3 DEF RowFits, Numbers
<1>5. r.item = Items[i].label
  BY <1>2
<1>6. DataOf(r) = i
  BY <1>1, <1>5, LabelIs
<1>7. Clear(r, i)
  BY <1>1, <1>6 DEF Clear, Numbers
<1>8. setData(r, i, FALSE)
  BY <1>1, <1>2
<1>9. QED
  BY <1>1, <1>4, <1>7, <1>8, EditKeeps

\* Bits that are switched in the row are switched in what the client means.
LEMMA EditedIs ==
    ASSUME CodecInv, type = "BitSet", NEW on, NEW off, on \cap off = {},
           ~crossed, Fresh, on \cup off \subseteq RowMask
    PROVE  Clear(Edited(row, on, off), Edited(meant, on, off))
<1>1. row \subseteq RowMask /\ Visible(meant) = Visible(Latest)
  BY DEF CodecInv, MeantInv
<1>2. Visible(DataOf(row)) = Visible(Latest)
  BY DEF Fresh, Latest, Last
<1>3. \A d : Visible(d) = d \cap RowMask /\ DataOf(d) = d
  BY DEF Visible, DataOf, Numbers
<1>4. row \cap RowMask = meant \cap RowMask
  BY <1>1, <1>2, <1>3
<1>5. \A x \in on : x \in RowMask
  OBVIOUS
<1>6. Edited(row, on, off) \subseteq RowMask
  BY <1>1, <1>5 DEF Edited
<1>7. Edited(meant, on, off) \cap RowMask = Edited(row, on, off) \cap RowMask
  BY <1>4 DEF Edited
<1>8. QED
  BY <1>3, <1>6, <1>7 DEF Clear, Numbers

\* A BitSet is edited, in its row or from what an editor began with.
LEMMA BitsKeep ==
    ASSUME CodecInv, type = "BitSet", NEW r \in SUBSET Bits,
           NEW on \in SUBSET Bits, NEW off, on \cap off = {},
           NEW lossy \in BOOLEAN, setData(Edited(r, on, off), Edited(meant, on, off), lossy),
           ~lossy => r = row /\ on \cup off \subseteq RowMask,
           editor' = editor \/ editor' = {}
    PROVE  CodecInv'
<1>1. PICK e, intent : e = Edited(r, on, off) /\ intent = Edited(meant, on, off)
  OBVIOUS
<1>2. RowFits(e)
  BY <1>1 DEF RowFits, Edited, Numbers
<1>3. CASE crossed \/ ~Fresh
  <2>1. PICK given \in BOOLEAN : given = TRUE
    OBVIOUS
  <2>2. setData(e, intent, given)
    BY <1>1, <1>3, <2>1 DEF setData, Means
  <2>3. QED
    BY <1>2, <2>1, <2>2, EditKeeps
<1>4. CASE ~crossed /\ Fresh
  <2>1. ~lossy => Clear(e, intent)
    BY <1>1, <1>4, EditedIs
  <2>2. QED
    BY <1>1, <1>2, <2>1, EditKeeps
<1>5. QED
  BY <1>3, <1>4

LEMMA BitSetKeeps ==
    ASSUME CodecInv, NEW on \in SUBSET Bits, NEW off \in SUBSET Bits, setValueBitSet(on, off)
    PROVE  CodecInv'
<1>1. type = "BitSet" /\ on \cap off = {} /\ editor' = editor
  BY DEF setValueBitSet
<1>2. PICK lossy \in BOOLEAN : lossy <=> ~(on \cup off \subseteq RowMask)
  OBVIOUS
<1>3. setData(Edited(row, on, off), Edited(meant, on, off), lossy)
  BY <1>2 DEF setValueBitSet, setData, Means
<1>4. row \in SUBSET Bits
  BY <1>1 DEF CodecInv, TypeInv, RowFits, Numbers
<1>5. QED
  BY <1>1, <1>2, <1>3, <1>4, BitsKeep

LEMMA BoolKeeps ==
    ASSUME CodecInv, NEW d \in BOOLEAN, setValueBool(d)
    PROVE  CodecInv'
<1>1. type = "Bool" /\ setData(d, d, FALSE) /\ editor' = editor
  BY DEF setValueBool
<1>2. RowFits(d) /\ Clear(d, d)
  BY <1>1 DEF RowFits, Clear, DataOf, Numbers
<1>3. QED
  BY <1>1, <1>2, EditKeeps

\* A Decimal is meant as the float it is sent as.
LEMMA DecimalKeeps ==
    ASSUME CodecInv, NEW d, setValueDecimal(d)
    PROVE  CodecInv'
<1>1. type = "Decimal" /\ d \in Decimals /\ setData(d, Float[d], FALSE) /\ editor' = editor
  BY DEF setValueDecimal
<1>2. RowFits(d) /\ Clear(d, Float[d])
  BY <1>1 DEF RowFits, Clear, DataOf, Numbers
<1>3. QED
  BY <1>1, <1>2, EditKeeps

LEMMA TokenKeeps ==
    ASSUME CodecInv, NEW d, setValueToken(d)
    PROVE  CodecInv'
<1>1. type = "Token" /\ d \in Tokens /\ setData(d, d, FALSE) /\ editor' = editor
  BY DEF setValueToken
<1>2. RowFits(d) /\ Clear(d, d)
  BY <1>1 DEF RowFits, Clear, DataOf, Numbers
<1>3. QED
  BY <1>1, <1>2, EditKeeps

LEMMA ModelDataKeeps ==
    ASSUME CodecInv, NEW d \in LibData, setModelData(d), editor' = {}
    PROVE  CodecInv'
<1>1. CASE type = "List"
  <2>1. PICK r : r = [row EXCEPT !.item = Items[d].label] /\ setData(r, d, FALSE)
    BY <1>1 DEF setModelData, Numbers
  <2>2. d \in Entries
    BY <1>1 DEF LibData
  <2>3. PICK i \in Entries, k \in Int : row = [item |-> Items[i].label, id |-> k]
    BY <1>1 DEF CodecInv, TypeInv, RowFits, Numbers
  <2>4. r = [item |-> Items[d].label, id |-> k]
    BY <2>1, <2>3
  <2>5. RowFits(r) /\ r.item = Items[d].label
    BY <1>1, <2>2, <2>4 DEF RowFits, Numbers
  <2>6. DataOf(r) = d
    BY <1>1, <2>2, <2>5, LabelIs
  <2>7. Clear(r, d)
    BY <1>1, <2>6 DEF Clear, Numbers
  <2>8. QED
    BY <2>1, <2>5, <2>7, EditKeeps
<1>2. CASE type \in Numbers
  <2>1. setData(d, d, FALSE)
    BY <1>2 DEF setModelData, Numbers
  <2>2. d \in Int /\ Cast(d) = d
    BY <1>2, CastKeeps
  <2>3. RowFits(d) /\ Clear(d, d)
    BY <1>2, <2>2 DEF RowFits, Clear, DataOf, Numbers
  <2>4. QED
    BY <2>1, <2>3, EditKeeps
<1>3. CASE type = "Bool"
  <2>1. setData(d, d, FALSE) /\ d \in BOOLEAN
    BY <1>3 DEF setModelData, LibData
  <2>2. RowFits(d) /\ Clear(d, d)
    BY <1>3, <2>1 DEF RowFits, Clear, DataOf, Numbers
  <2>3. QED
    BY <2>1, <2>2, EditKeeps
<1>4. QED
  BY <1>1, <1>2, <1>3 DEF setModelData

\* An editor that ends and leaves the row as it is, its edit lost or not.
LEMMA LeavesKeep ==
    ASSUME CodecInv, NEW crosses \in BOOLEAN, leavesRow(crosses), crosses = crossed \/ crosses = TRUE,
           editor' = {}
    PROVE  CodecInv'
<1>1. /\ UNCHANGED <<type, mask, lib, pending, reported, row, doc, topic>>
      /\ crossed' = crosses
      /\ meant' = IF crossed' THEN lib' ELSE meant
  BY DEF leavesRow, Means
<1>2. TypeInv'
  BY <1>1, TypeStays DEF CodecInv, TypeInv
<1>3. Latest' = Latest
  BY <1>1 DEF Latest
<1>4. MeantInv'
  BY <1>1, <1>3, TypeStays DEF CodecInv, MeantInv
<1>5. QED
  BY <1>2, <1>4 DEF CodecInv

LEMMA CommitsKeep ==
    ASSUME CodecInv, commits
    PROVE  CodecInv'
<1>1. PICK r \in editor :
        /\ editor' = {}
        /\ \/ \E on, off \in SUBSET RowMask : setModelDataBitSet(r, on, off)
           \/ \E d \in LibData : setModelData(d)
           \/ losesEdit
  BY DEF commits
<1>2. RowFits(r)
  BY <1>1 DEF CodecInv, TypeInv
<1>3. ASSUME NEW on \in SUBSET RowMask, NEW off \in SUBSET RowMask, setModelDataBitSet(r, on, off)
      PROVE  CodecInv'
  <2>1. type = "BitSet" /\ on \cap off = {} /\ on \cup off \subseteq RowMask
    BY <1>3 DEF setModelDataBitSet
  <2>2. PICK lossy \in BOOLEAN : lossy <=> r # row
    OBVIOUS
  <2>3. setData(Edited(r, on, off), Edited(meant, on, off), lossy)
    BY <1>3, <2>2 DEF setModelDataBitSet, setData, Means
  <2>4. r \in SUBSET Bits
    BY <1>2, <2>1 DEF RowFits, Numbers
  <2>5. on \in SUBSET Bits
    BY DEF CodecInv, TypeInv, RowMask, Bits
  <2>6. QED
    BY <1>1, <2>1, <2>2, <2>3, <2>4, <2>5, BitsKeep
<1>4. CASE losesEdit
  BY <1>1, <1>4, LeavesKeep DEF losesEdit
<1>5. QED
  BY <1>1, <1>3, <1>4, ModelDataKeeps

LEMMA CloseKeeps ==
    ASSUME CodecInv, closeEditor
    PROVE  CodecInv'
<1>1. editor' = {} /\ leavesRow(crossed) /\ crossed \in BOOLEAN
  BY DEF closeEditor, CodecInv, TypeInv
<1>2. QED
  BY <1>1, LeavesKeep

LEMMA EditorKeeps ==
    ASSUME CodecInv, setEditorData
    PROVE  CodecInv'
<1>1. editor' = {row} /\ UNCHANGED <<type, mask, lib, pending, reported, row, doc, topic, meant, crossed>>
  BY DEF setEditorData
<1>2. TypeInv'
  BY <1>1, TypeStays DEF CodecInv, TypeInv
<1>3. Latest' = Latest
  BY <1>1 DEF Latest
<1>4. MeantInv'
  BY <1>1, <1>3, TypeStays DEF CodecInv, MeantInv
<1>5. QED
  BY <1>2, <1>4 DEF CodecInv

LEMMA CodecNext == CodecInv /\ [NextCodec]_vars => CodecInv'
<1> SUFFICES ASSUME CodecInv, [NextCodec]_vars PROVE CodecInv'
  OBVIOUS
<1>1. ASSUME NEW d \in LibData, deviceReports(d) PROVE CodecInv'
  BY <1>1, ReportsKeep
<1>2. CASE deviceTakes
  BY <1>2, TakesKeep
<1>3. CASE deviceRefuses
  BY <1>3, RefusesKeep
<1>4. CASE valueRefreshed
  BY <1>4, RefreshedKeeps
<1>5. ASSUME NEW attributes \in BOOLEAN, valueChanged(attributes) PROVE CodecInv'
  BY <1>5, ChangedKeeps
<1>6. ASSUME NEW v \in 0..Sizes["Int"], setValueNumber(v) \/ setValueList(v) PROVE CodecInv'
  BY <1>6, NumberKeeps, ListKeeps
<1>7. ASSUME NEW on \in SUBSET UNION Masks, NEW off \in SUBSET UNION Masks, setValueBitSet(on, off)
      PROVE  CodecInv'
  BY <1>7, BitSetKeeps DEF Bits
<1>8. ASSUME NEW d \in BOOLEAN, setValueBool(d) PROVE CodecInv'
  BY <1>8, BoolKeeps
<1>9. ASSUME NEW d \in Decimals, setValueDecimal(d) PROVE CodecInv'
  BY <1>9, DecimalKeeps
<1>10. ASSUME NEW d \in Tokens, setValueToken(d) PROVE CodecInv'
  BY <1>10, TokenKeeps
<1>11. CASE setEditorData
  BY <1>11, EditorKeeps
<1>12. CASE commits
  BY <1>12, CommitsKeep
<1>13. CASE closeEditor
  BY <1>13, CloseKeeps
<1>14. CASE UNCHANGED vars
  <2>1. UNCHANGED <<type, mask, lib, pending, reported, row, doc, topic, editor, meant, crossed>>
    BY <1>14 DEF vars
  <2>2. Latest' = Latest
    BY <2>1 DEF Latest
  <2>3. QED
    BY <2>1, <2>2, TypeStays DEF CodecInv, TypeInv, MeantInv
<1>15. QED
  BY <1>1, <1>2, <1>3, <1>4, <1>5, <1>6, <1>7, <1>8, <1>9, <1>10, <1>11, <1>12, <1>13, <1>14 DEF NextCodec

-----------------------------------------------------------------------------
(* The theorems.                                                           *)

\* CodecInv holds in every reachable state: nothing that the clients, the
\* device and the reports do in any order takes the writes on their way, the
\* row and what was meant apart, unless it is noted in crossed.
THEOREM CodecInductive == SpecCodec => []CodecInv
BY CodecInit, CodecNext, PTL DEF SpecCodec

\* Whatever pvt_valueModelDataChanged makes of the wider variants and JSON
\* numbers that come in, the library is sent and holds data of the type.
THEOREM CodecTypes == SpecCodec => []TypeOKCodec
<1>1. CodecInv => TypeOKCodec
  <2> SUFFICES ASSUME CodecInv PROVE TypeOKCodec
    OBVIOUS
  <2>1. \A d \in Range(pending) : d \in Sendable
    BY DEF CodecInv, TypeInv, Range
  <2>2. Cardinality(editor) <= 1
    <3>1. editor = {} \/ \E r : editor = {r}
      BY DEF CodecInv, TypeInv
    <3>2. Cardinality({}) = 0 /\ \A r : Cardinality({r}) = 1
      BY FS_EmptySet, FS_Singleton
    <3>3. Cardinality(editor) = 0 \/ Cardinality(editor) = 1
      BY <3>1, <3>2, Zenon
    <3>4. QED
      BY <3>3
  <2>3. QED
    BY <2>1, <2>2 DEF CodecInv, TypeInv, TypeOKCodec, Sendable
<1>2. QED
  BY <1>1, CodecInductive, PTL

\* What the clients edit in setvalue and in the editors, and what the device
\* changes itself, is what it has when all is settled, and row and topic show
\* it; with the exceptions that EditsArrive names.
THEOREM EditsArriveAlways == SpecCodec => []EditsArrive
<1>1. CodecInv => EditsArrive
  <2> SUFFICES ASSUME CodecInv, Settled PROVE /\ Visible(lib) = Visible(meant)
                                              /\ row = Shown(lib)
                                              /\ type # "BitSet" => topic = Encoded(row)
    BY DEF EditsArrive
  <2>1. Latest = lib
    BY DEF Latest, Settled
  <2>2. QED
    BY <2>1 DEF CodecInv, MeantInv, Settled, Encoded
<1>2. QED
  BY <1>1, CodecInductive, PTL
=============================================================================
