------------------------- MODULE AssociationsProofs -------------------------
(***************************************************************************)
(* Proofs about Associations: type correctness, GroupsOfValidNodes and     *)
(* MembersWereListed.  The inductive invariant says of every row, and of   *)
(* every group event in the queue, that its node is one of the library's   *)
(* or that the report of its leaving follows; and of the members of a row  *)
(* the library may not have listed, that such a report follows.            *)
(***************************************************************************)
EXTENDS Associations, FiniteSetTheorems, WellFoundedInduction, TLAPS

\* A set of numbers that is not empty has a least one.
LEMMA LeastOf ==
    ASSUME NEW T \in SUBSET Nat, T # {}
    PROVE  \E x \in T : \A y \in T : x <= y
<1>1. PICK x \in T : \A y \in T : <<y, x>> \notin OpToRel(<, Nat)
  BY WFMin, NatLessThanWellFounded
<1>2. \A y \in T : ~ (y < x)
  BY <1>1 DEF OpToRel
<1>3. QED
  BY <1>2

\* f solves the recursion of KeptUpTo up to n.
Upto(s, S, f, n) ==
    f = [i \in 0..n |->
           IF i = 0 THEN <<>>
           ELSE IF s[i] \in S THEN Append(f[i - 1], s[i]) ELSE f[i - 1]]

\* The recursion of KeptUpTo has a solution on every initial segment.
LEMMA UptoExists ==
    ASSUME NEW s, NEW S, NEW n \in Nat
    PROVE  \E f : Upto(s, S, f, n)
<1> DEFINE Bad == {k \in Nat : ~ \E f : Upto(s, S, f, k)}
<1>1. SUFFICES ASSUME Bad # {} PROVE FALSE
  OBVIOUS
<1>2. PICK b \in Bad : \A k \in Bad : b <= k
  <2> HIDE DEF Bad
  <2>1. Bad \in SUBSET Nat
    BY DEF Bad
  <2>2. QED
    BY <1>1, <2>1, LeastOf
<1>3. CASE b = 0
  <2>1. Upto(s, S, [i \in 0..0 |-> <<>>], 0)
    BY DEF Upto
  <2>2. QED
    BY <1>3, <2>1
<1>4. CASE b # 0
  <2>1. b - 1 \in Nat /\ b - 1 \notin Bad
    BY <1>2, <1>4
  <2>2. PICK f : Upto(s, S, f, b - 1)
    BY <2>1
  <2> DEFINE g == [i \in 0..b |->
                     IF i < b THEN f[i]
                     ELSE IF s[b] \in S THEN Append(f[b - 1], s[b]) ELSE f[b - 1]]
  <2>3. \A i \in 0..b - 1 : f[i] = IF i = 0 THEN <<>>
           ELSE IF s[i] \in S THEN Append(f[i - 1], s[i]) ELSE f[i - 1]
    BY <2>2, <2>1 DEF Upto
  <2>4. \A i \in 0..b : g[i] = IF i = 0 THEN <<>>
           ELSE IF s[i] \in S THEN Append(g[i - 1], s[i]) ELSE g[i - 1]
    <3>1. TAKE i \in 0..b
    <3>2. CASE i < b
      BY <2>3, <3>2, <2>1
    <3>3. CASE i = b
      BY <1>4, <3>3, <2>1
    <3>4. QED
      BY <3>2, <3>3, <2>1
  <2>5. Upto(s, S, g, b)
    <3> HIDE DEF g
    <3>1. g = [i \in 0..b |-> g[i]]
      BY DEF g
    <3>2. QED
      BY <2>4, <3>1 DEF Upto
  <2>6. QED
    BY <2>5
<1>5. QED
  BY <1>3, <1>4

\* So KeptUpTo is one.
LEMMA KeptIs ==
    ASSUME NEW X, NEW s \in Seq(X), NEW S
    PROVE  Upto(s, S, KeptUpTo(s, S), Len(s))
<1>1. Len(s) \in Nat
  OBVIOUS
<1>2. PICK f : Upto(s, S, f, Len(s))
  BY <1>1, UptoExists
<1>3. QED
  BY <1>2 DEF Upto, KeptUpTo

\* No entry twice.
Distinct(m) == \A i, j \in 1..Len(m) : m[i] = m[j] => i = j

\* What is kept of the first n entries.
KeptGood(X, s, S, m, n) ==
    /\ m \in Seq(X)
    /\ \A i \in 1..Len(m) : \E j \in 1..n : m[i] = s[j] /\ s[j] \in S
    /\ Distinct(s) => Distinct(m)

\* One more entry.
LEMMA KeptStep ==
    ASSUME NEW X, NEW s \in Seq(X), NEW S, NEW m, NEW n \in Nat, n + 1 \in 1..Len(s),
           KeptGood(X, s, S, m, n)
    PROVE  KeptGood(X, s, S, IF s[n + 1] \in S THEN Append(m, s[n + 1]) ELSE m, n + 1)
<1>1. CASE s[n + 1] \notin S
  BY <1>1 DEF KeptGood
<1>2. CASE s[n + 1] \in S
  <2> DEFINE a == Append(m, s[n + 1])
  <2>1. m \in Seq(X) /\ s[n + 1] \in X
    BY DEF KeptGood
  <2>2. /\ a \in Seq(X) /\ Len(a) = Len(m) + 1 /\ Len(m) \in Nat
        /\ \A i \in 1..Len(m) : a[i] = m[i]
        /\ a[Len(m) + 1] = s[n + 1]
    BY <2>1
  <2> HIDE DEF a
  <2>3. \A i \in 1..Len(m) : \E j \in 1..n : m[i] = s[j] /\ s[j] \in S
    BY DEF KeptGood
  <2>4. \A i \in 1..Len(a) : \E j \in 1..n + 1 : a[i] = s[j] /\ s[j] \in S
    <3>1. TAKE i \in 1..Len(a)
    <3>2. CASE i \in 1..Len(m)
      <4>1. PICK j \in 1..n : m[i] = s[j] /\ s[j] \in S
        BY <2>3, <3>2
      <4>2. QED
        BY <4>1, <2>2, <3>2
    <3>3. CASE i = Len(m) + 1
      BY <3>3, <2>2, <1>2
    <3>4. QED
      BY <3>1, <3>2, <3>3, <2>2
  <2>5. ASSUME Distinct(s), NEW i \in 1..Len(a), NEW j \in 1..Len(a), a[i] = a[j]
        PROVE  i = j
    <3>1. ASSUME NEW k \in 1..Len(m) PROVE a[k] # s[n + 1]
      <4>1. PICK l \in 1..n : m[k] = s[l]
        BY <2>3
      <4>2. l \in 1..Len(s) /\ l # n + 1
        OBVIOUS
      <4>3. QED
        BY <4>1, <4>2, <2>2, <2>5 DEF Distinct
    <3>2. Distinct(m)
      BY <2>5 DEF KeptGood
    <3>3. CASE i \in 1..Len(m) /\ j \in 1..Len(m)
      BY <3>2, <3>3, <2>2, <2>5 DEF Distinct
    <3>4. QED
      BY <3>1, <3>3, <2>2, <2>5
  <2>6. KeptGood(X, s, S, a, n + 1)
    BY <2>2, <2>4, <2>5 DEF KeptGood, Distinct
  <2>7. QED
    BY <1>2, <2>6 DEF a
<1>3. QED
  BY <1>1, <1>2

\* Keep has entries of the sequence that are in the set, and each place of the
\* sequence at most once.
LEMMA KeepIs ==
    ASSUME NEW X, NEW s \in Seq(X), NEW S
    PROVE  KeptGood(X, s, S, Keep(s, S), Len(s))
<1> DEFINE F == KeptUpTo(s, S)
           Bad == {n \in 0..Len(s) : ~ KeptGood(X, s, S, F[n], n)}
<1>1. Len(s) \in Nat
  OBVIOUS
<1>2. /\ F[0] = <<>>
      /\ \A n \in 1..Len(s) :
           F[n] = IF s[n] \in S THEN Append(F[n - 1], s[n]) ELSE F[n - 1]
  <2>1. Upto(s, S, F, Len(s))
    BY KeptIs
  <2> HIDE DEF F
  <2>2. \A i \in 0..Len(s) :
          F[i] = IF i = 0 THEN <<>>
                 ELSE IF s[i] \in S THEN Append(F[i - 1], s[i]) ELSE F[i - 1]
    BY <1>1, <2>1 DEF Upto
  <2>3. QED
    BY <1>1, <2>2
<1> HIDE DEF F
<1>3. Bad = {}
  <2>1. SUFFICES ASSUME Bad # {} PROVE FALSE
    OBVIOUS
  <2>2. PICK b \in Bad : \A k \in Bad : b <= k
    <3>1. Bad \in SUBSET Nat
      BY <1>1
    <3> HIDE DEF Bad
    <3>2. QED
      BY <2>1, <3>1, LeastOf
  <2>3. KeptGood(X, s, S, F[0], 0)
    BY <1>2 DEF KeptGood, Distinct
  <2>4. b \in 0..Len(s) /\ b # 0
    BY <2>2, <2>3
  <2>5. KeptGood(X, s, S, F[b - 1], b - 1)
    BY <1>1, <2>2, <2>4
  <2>6. b - 1 \in Nat /\ (b - 1) + 1 = b /\ b \in 1..Len(s)
    BY <1>1, <2>4
  <2>7. KeptGood(X, s, S, IF s[b] \in S THEN Append(F[b - 1], s[b]) ELSE F[b - 1], b)
    <3>1. ASSUME NEW n \in Nat, n + 1 = b, KeptGood(X, s, S, F[n], n)
          PROVE  KeptGood(X, s, S, IF s[b] \in S THEN Append(F[n], s[b]) ELSE F[n], b)
      BY <2>6, <3>1, KeptStep
    <3>2. QED
      BY <2>5, <2>6, <3>1
  <2>8. QED
    BY <1>2, <2>2, <2>6, <2>7
<1>4. QED
  BY <1>1, <1>3 DEF Keep, F

\* SetToSeq lists a finite set, each element once.
LEMMA SetToSeqIs ==
    ASSUME NEW S, IsFiniteSet(S)
    PROVE  SetToSeq(S) \in Seq(S) /\ Distinct(SetToSeq(S))
<1>1. Cardinality(S) \in Nat /\ ExistsBijection(1..Cardinality(S), S)
  BY FS_CardinalityType
<1>2. PICK f \in [1..Cardinality(S) -> S] : IsInjective(f)
  BY <1>1 DEF ExistsBijection, Bijection, Injection
<1>3. SetToSeq(S) \in [1..Cardinality(S) -> S] /\ IsInjective(SetToSeq(S))
  BY <1>2 DEF SetToSeq
<1>4. QED
  BY <1>1, <1>3 DEF Distinct, IsInjective

-----------------------------------------------------------------------------
(* The rows of the table.                                                  *)

\* A table: finitely many rows, no member twice, no group twice.
RowsOK(r) ==
    /\ DOMAIN r \subseteq Nat /\ IsFiniteSet(DOMAIN r)
    /\ \A k \in DOMAIN r : r[k] \in Row /\ Distinct(r[k].members)
    /\ \A k, j \in DOMAIN r : r[k].pair = r[j].pair => k = j

\* What becomes of the table when a group is refreshed: the other rows that
\* are left are as they were, the row of the group has members it had before
\* and members that the library lists.
Refreshed(r, p, s, ia) ==
    /\ RowsOK(s)
    /\ \A k \in DOMAIN s :
         \/ k \in DOMAIN r /\ s[k] = r[k]
         \/ /\ s[k].pair = p
            /\ \A i \in 1..Len(s[k].members) :
                 \/ s[k].members[i] \in ia
                 \/ \E j \in DOMAIN r : /\ r[j].pair = p
                                        /\ s[k].members[i] \in ToSet(r[j].members)

LEMMA RowNumberIs ==
    ASSUME NEW r, RowsOK(r), NEW p, HasRow(r, p)
    PROVE  RowNumber(r, p) \in DOMAIN r /\ r[RowNumber(r, p)].pair = p
<1>1. RowsOf(r, p) \in SUBSET Nat /\ RowsOf(r, p) # {}
  BY DEF RowsOK, RowsOf, HasRow
<1>2. PICK k \in RowsOf(r, p) : \A j \in RowsOf(r, p) : k <= j
  BY <1>1, LeastOf
<1>3. RowNumber(r, p) \in RowsOf(r, p)
  BY <1>2 DEF RowNumber
<1>4. QED
  BY <1>3 DEF RowsOf

\* The group that addGroup adds may take the number of a row: there is still one
\* row of it, and no row of it is changed.
LEMMA AddGroupIs ==
    ASSUME NEW r, RowsOK(r), NEW p \in Pairs
    PROVE  /\ RowsOK(addGroup(r, p))
           /\ HasRow(addGroup(r, p), p)
           /\ \A k \in DOMAIN addGroup(r, p) :
                \/ k \in DOMAIN r /\ addGroup(r, p)[k] = r[k]
                \/ addGroup(r, p)[k] = [pair |-> p, members |-> <<>>]
<1>1. CASE HasRow(r, p)
  BY <1>1 DEF addGroup
<1>2. CASE ~HasRow(r, p)
  <2> DEFINE n == Cardinality(DOMAIN r)
             a == addGroup(r, p)
             empty == [pair |-> p, members |-> <<>>]
  <2>1. n \in Nat
    BY FS_CardinalityType DEF RowsOK
  <2>2. a = [k \in DOMAIN r \cup {n} |-> IF k = n THEN empty ELSE r[k]]
    BY <1>2 DEF addGroup
  <2>3. empty \in Row /\ Distinct(empty.members) /\ empty.pair = p
    BY DEF Row, Distinct
  <2>4. \A k \in DOMAIN r : r[k].pair # p
    BY <1>2 DEF HasRow, RowsOf
  <2>5. DOMAIN a \subseteq Nat /\ IsFiniteSet(DOMAIN a)
    BY <2>1, <2>2, FS_AddElement DEF RowsOK
  <2> HIDE DEF a, n, empty
  <2>6. /\ n \in DOMAIN a /\ a[n] = empty
        /\ \A k \in DOMAIN a : k # n => k \in DOMAIN r /\ a[k] = r[k]
    BY <2>2
  <2>7. \A k \in DOMAIN a : a[k] \in Row /\ Distinct(a[k].members)
    BY <2>3, <2>6 DEF RowsOK
  <2>8. \A k, j \in DOMAIN a : a[k].pair = a[j].pair => k = j
    BY <2>3, <2>4, <2>6 DEF RowsOK
  <2>9. HasRow(a, p)
    BY <2>3, <2>6 DEF HasRow, RowsOf
  <2>10. QED
    BY <2>5, <2>6, <2>7, <2>8, <2>9 DEF RowsOK, a, empty
<1>3. QED
  BY <1>1, <1>2

\* Two lists without repetition and without a common element make one.
LEMMA JoinedIs ==
    ASSUME NEW X, NEW m \in Seq(X), NEW n \in Seq(X), Distinct(m), Distinct(n),
           \A i \in 1..Len(m), j \in 1..Len(n) : m[i] # n[j]
    PROVE  Distinct(m \o n)
<1>1. PICK w : w = m \o n
  OBVIOUS
<1>2. /\ Len(w) = Len(m) + Len(n) /\ Len(m) \in Nat /\ Len(n) \in Nat
      /\ \A i \in 1..Len(m) : w[i] = m[i]
      /\ \A i \in 1..Len(n) : w[Len(m) + i] = n[i]
  BY <1>1
<1>3. SUFFICES ASSUME NEW i \in 1..Len(w), NEW j \in 1..Len(w), w[i] = w[j], i < j
               PROVE  FALSE
  <2>1. ASSUME NEW i \in 1..Len(w), NEW j \in 1..Len(w), w[i] = w[j]
        PROVE  i = j
    BY <1>2, <1>3, <2>1
  <2>2. QED
    BY <1>1, <2>1 DEF Distinct
<1>4. CASE j <= Len(m)
  <2>1. i \in 1..Len(m) /\ j \in 1..Len(m) /\ i # j
    BY <1>2, <1>3, <1>4
  <2>2. m[i] = m[j]
    BY <1>2, <1>3, <2>1
  <2>3. QED
    BY <2>1, <2>2 DEF Distinct
<1>5. CASE i > Len(m)
  <2>1. PICK k \in 1..Len(n) : i = Len(m) + k
    <3>1. i - Len(m) \in 1..Len(n) /\ i = Len(m) + (i - Len(m))
      BY <1>2, <1>5
    <3>2. QED
      BY <3>1
  <2>2. PICK l \in 1..Len(n) : j = Len(m) + l
    <3>1. j - Len(m) \in 1..Len(n) /\ j = Len(m) + (j - Len(m))
      BY <1>2, <1>3, <1>5
    <3>2. QED
      BY <3>1
  <2>3. n[k] = n[l]
    BY <1>2, <1>3, <2>1, <2>2
  <2>4. QED
    BY <1>2, <1>3, <2>1, <2>2, <2>3 DEF Distinct
<1>6. CASE i <= Len(m) /\ j > Len(m)
  <2>1. PICK l \in 1..Len(n) : j = Len(m) + l
    <3>1. j - Len(m) \in 1..Len(n) /\ j = Len(m) + (j - Len(m))
      BY <1>2, <1>6
    <3>2. QED
      BY <3>1
  <2>2. QED
    BY <1>2, <1>3, <1>6, <2>1
<1>7. QED
  BY <1>2, <1>4, <1>5, <1>6

LEMMA WithNewIs ==
    ASSUME NEW m \in Seq(Targets), Distinct(m), NEW ia \in Seq(Targets), Distinct(ia)
    PROVE  /\ WithNew(m, ia) \in Seq(Targets) /\ Distinct(WithNew(m, ia))
           /\ ToSet(WithNew(m, ia)) \subseteq ToSet(m) \cup ToSet(ia)
<1>1. PICK n : n = Keep(ia, ToSet(ia) \ ToSet(m))
  OBVIOUS
<1>2. KeptGood(Targets, ia, ToSet(ia) \ ToSet(m), n, Len(ia))
  BY <1>1, KeepIs
<1>3. n \in Seq(Targets) /\ Distinct(n) /\ \A i \in 1..Len(n) : n[i] \in ToSet(ia) \ ToSet(m)
  BY <1>2 DEF KeptGood
<1>4. \A i \in 1..Len(m), j \in 1..Len(n) : m[i] # n[j]
  BY <1>3 DEF ToSet
<1>5. m \o n \in Seq(Targets) /\ Distinct(m \o n)
  BY <1>3, <1>4, JoinedIs
<1>6. ASSUME NEW x \in ToSet(m \o n)
      PROVE  x \in ToSet(m) \cup ToSet(ia)
  <2>1. PICK i \in 1..Len(m) + Len(n) : x = (m \o n)[i]
    BY <1>3, <1>6 DEF ToSet
  <2>2. CASE i <= Len(m)
    BY <1>3, <2>1, <2>2 DEF ToSet
  <2>3. CASE i > Len(m)
    BY <1>3, <2>1, <2>3
  <2>4. QED
    BY <1>3, <2>1, <2>2, <2>3
<1>7. QED
  BY <1>1, <1>5, <1>6 DEF WithNew

\* pvt_nodeGroupChanged keeps the table sound whatever it finds behind the end of
\* the listing.
LEMMA RefreshIs ==
    ASSUME NEW r, RowsOK(r), NEW p \in Pairs, NEW s \in Refresh(r, p),
           ozwGroups[p] \in SUBSET Targets, IsFiniteSet(ozwGroups[p])
    PROVE  Refreshed(r, p, s, IF p[1] \in ozwNodes THEN ozwGroups[p] ELSE {})
<1> DEFINE set == IF p[1] \in ozwNodes THEN ozwGroups[p] ELSE {}
           a == addGroup(r, p)
           k == RowNumber(a, p)
           ia == SetToSeq(set)
           m == WithNew(a[k].members, ia)
<1>1. /\ RowsOK(a) /\ HasRow(a, p)
      /\ \A l \in DOMAIN a : \/ l \in DOMAIN r /\ a[l] = r[l]
                             \/ a[l] = [pair |-> p, members |-> <<>>]
  BY AddGroupIs
<1>2. set \in SUBSET Targets /\ IsFiniteSet(set)
  BY FS_EmptySet
<1>3. PICK S : s = [a EXCEPT ![k].members = Keep(m, S)]
  BY DEF Refresh
<1> HIDE DEF a
<1>4. k \in DOMAIN a /\ a[k].pair = p
  BY <1>1, RowNumberIs
<1> HIDE DEF k, set
<1>5. /\ a[k] \in Row /\ a[k].members \in Seq(Targets) /\ Distinct(a[k].members)
  BY <1>1, <1>4 DEF RowsOK, Row
<1>6. ia \in Seq(set) /\ Distinct(ia)
  BY <1>2, SetToSeqIs
<1> HIDE DEF ia
<1>7. ia \in Seq(Targets) /\ ToSet(ia) \subseteq set
  BY <1>2, <1>6 DEF ToSet
<1>8. /\ m \in Seq(Targets) /\ Distinct(m)
      /\ ToSet(m) \subseteq ToSet(a[k].members) \cup set
  BY <1>5, <1>6, <1>7, WithNewIs
<1> HIDE DEF m
<1> DEFINE kept == Keep(m, S)
<1>9. KeptGood(Targets, m, S, kept, Len(m))
  BY <1>8, KeepIs
<1> HIDE DEF kept
<1>10. kept \in Seq(Targets) /\ Distinct(kept)
  BY <1>8, <1>9 DEF KeptGood
<1>11. \A i \in 1..Len(kept) : kept[i] \in ToSet(m)
  BY <1>8, <1>9 DEF KeptGood, ToSet
<1>12. s = [a EXCEPT ![k].members = kept]
  BY <1>3 DEF kept
<1>13. /\ DOMAIN s = DOMAIN a
       /\ s[k] = [pair |-> p, members |-> kept]
       /\ \A l \in DOMAIN s : l # k => s[l] = a[l]
  BY <1>4, <1>5, <1>12 DEF Row
<1>14. /\ s[k] \in Row /\ s[k].pair = p /\ s[k].members = kept
  BY <1>10, <1>13 DEF Row
<1>15. \A l \in DOMAIN s : s[l].pair = a[l].pair
  BY <1>4, <1>13, <1>14
<1>16. RowsOK(s)
  BY <1>1, <1>10, <1>13, <1>14, <1>15 DEF RowsOK
<1>17. ASSUME NEW i \in 1..Len(kept)
       PROVE  \/ kept[i] \in set
              \/ \E j \in DOMAIN r : r[j].pair = p /\ kept[i] \in ToSet(r[j].members)
  <2>1. CASE a[k] = [pair |-> p, members |-> <<>>]
    <3>1. ToSet(a[k].members) = {}
      BY <2>1 DEF ToSet
    <3>2. QED
      BY <1>8, <1>11, <3>1
  <2>2. CASE k \in DOMAIN r /\ a[k] = r[k]
    BY <1>4, <1>8, <1>11, <2>2
  <2>3. QED
    BY <1>1, <1>4, <2>1, <2>2
<1>18. ASSUME NEW l \in DOMAIN s
       PROVE  \/ l \in DOMAIN r /\ s[l] = r[l]
              \/ /\ s[l].pair = p
                 /\ \A i \in 1..Len(s[l].members) :
                      \/ s[l].members[i] \in set
                      \/ \E j \in DOMAIN r : /\ r[j].pair = p
                                             /\ s[l].members[i] \in ToSet(r[j].members)
  <2>1. CASE l = k
    BY <1>14, <1>17, <2>1
  <2>2. CASE l # k /\ a[l] = [pair |-> p, members |-> <<>>]
    <3>1. s[l].pair = p /\ Len(s[l].members) = 0
      BY <1>13, <2>2
    <3>2. QED
      BY <3>1
  <2>3. CASE l # k /\ l \in DOMAIN r /\ a[l] = r[l]
    BY <1>13, <2>3
  <2>4. QED
    BY <1>1, <1>13, <2>1, <2>2, <2>3
<1>19. QED
  BY <1>16, <1>18 DEF Refreshed, set

-----------------------------------------------------------------------------
(* The inductive invariant.                                                *)

\* A report that takes the rows of the node away.
Removes(m, n) == m.type = "driverReset" \/ (m.type = "nodeRemoved" /\ m.node = n)

\* Such a report waits, at place i of the queue or behind it.
Leaves(n, i) == \E j \in 1..Len(queue) : i <= j /\ Removes(queue[j], n)

TypeInv ==
    /\ ozwNodes \subseteq Nodes /\ validNodes \subseteq Nodes
    /\ device \in [Pairs -> SUBSET Targets]
    /\ ozwGroups \in [Pairs -> SUBSET Targets]
    /\ listed \in [Pairs -> SUBSET Targets]
    /\ \A p \in Pairs : IsFiniteSet(device[p]) /\ IsFiniteSet(ozwGroups[p])
    /\ queue \in Seq(Message)
    /\ RowsOK(rows)

\* The library's members are among those it listed.
ListedInv == \A p \in Pairs : ozwGroups[p] \subseteq listed[p]

\* A group event is about a node of the library, or the report that it left
\* follows.
QueueInv ==
    \A i \in 1..Len(queue) :
      queue[i].type = "nodeGroupChanged" =>
        queue[i].pair[1] \in ozwNodes \/ Leaves(queue[i].pair[1], i)

\* So is a row; and unless the report that its node left follows, the library
\* listed its members since.
RowsInv ==
    \A k \in DOMAIN rows :
      \/ Leaves(rows[k].pair[1], 1)
      \/ /\ rows[k].pair[1] \in ozwNodes
         /\ \A i \in 1..Len(rows[k].members) : rows[k].members[i] \in listed[rows[k].pair]

AssociationsInv == TypeInv /\ ListedInv /\ QueueInv /\ RowsInv

LEMMA InitInv == Init => AssociationsInv
<1> SUFFICES ASSUME Init PROVE AssociationsInv
  OBVIOUS
<1>1. DOMAIN rows = {}
  BY DEF Init
<1>2. \A p \in Pairs : device[p] = {} /\ ozwGroups[p] = {} /\ listed[p] = {}
  BY DEF Init
<1>3. IsFiniteSet(DOMAIN rows)
  BY <1>1, FS_EmptySet
<1>4. RowsOK(rows)
  BY <1>1, <1>3 DEF RowsOK
<1>5. \A p \in Pairs : IsFiniteSet(device[p]) /\ IsFiniteSet(ozwGroups[p])
  BY <1>2, FS_EmptySet
<1>6. TypeInv
  BY <1>4, <1>5 DEF Init, TypeInv
<1>7. QED
  BY <1>1, <1>2, <1>6 DEF AssociationsInv, ListedInv, QueueInv, RowsInv, Init

\* What is appended does not take a report away.
LEMMA PostedIs ==
    ASSUME TypeInv, NEW m \in Message, Post(m)
    PROVE  /\ queue' \in Seq(Message) /\ Len(queue') = Len(queue) + 1 /\ Len(queue) \in Nat
           /\ \A i \in 1..Len(queue) : queue'[i] = queue[i]
           /\ queue'[Len(queue) + 1] = m
           /\ \A n, i : Leaves(n, i) => Leaves(n, i)'
           /\ \A n : \A i \in 1..Len(queue) + 1 : Removes(m, n) => Leaves(n, i)'
<1>1. /\ queue' \in Seq(Message) /\ Len(queue') = Len(queue) + 1 /\ Len(queue) \in Nat
      /\ \A i \in 1..Len(queue) : queue'[i] = queue[i]
      /\ queue'[Len(queue) + 1] = m
  BY DEF TypeInv, Post
<1>2. ASSUME NEW n, NEW i, Leaves(n, i)
      PROVE  Leaves(n, i)'
  BY <1>1, <1>2 DEF Leaves
<1>3. ASSUME NEW n, NEW i \in 1..Len(queue) + 1, Removes(m, n)
      PROVE  Leaves(n, i)'
  BY <1>1, <1>3 DEF Leaves
<1>4. QED
  BY <1>1, <1>2, <1>3

\* A report that waits behind the head, or that the head is not, still waits.
LEMMA DeliveredIs ==
    ASSUME TypeInv, NEW t, Deliver(t)
    PROVE  /\ queue' \in Seq(Message)
           /\ Head(queue) \in Message /\ Head(queue).type = t /\ Head(queue) = queue[1]
           /\ 1 \in 1..Len(queue)
           /\ \A i \in 1..Len(queue') : i + 1 \in 1..Len(queue) /\ queue'[i] = queue[i + 1]
           /\ \A n : \A i \in Nat \ {0} : Leaves(n, i + 1) => Leaves(n, i)'
           /\ \A n : Leaves(n, 1) /\ ~Removes(Head(queue), n) => Leaves(n, 1)'
<1>1. /\ queue # <<>> /\ queue \in Seq(Message) /\ queue' = Tail(queue)
      /\ Head(queue).type = t
  BY DEF TypeInv, Deliver
<1>2. /\ queue' \in Seq(Message) /\ Head(queue) \in Message /\ Head(queue) = queue[1]
      /\ Len(queue) \in Nat \ {0} /\ Len(queue') = Len(queue) - 1
      /\ \A i \in 1..Len(queue') : i + 1 \in 1..Len(queue) /\ queue'[i] = queue[i + 1]
  BY <1>1
<1>3. ASSUME NEW n, NEW j \in 2..Len(queue), Removes(queue[j], n)
      PROVE  /\ j - 1 \in 1..Len(queue')
             /\ Removes(queue'[j - 1], n)
  <2>1. j - 1 \in 1..Len(queue') /\ (j - 1) + 1 = j
    BY <1>2
  <2>2. queue'[j - 1] = queue[j]
    BY <1>2, <2>1
  <2>3. QED
    BY <1>3, <2>1, <2>2
<1>4. ASSUME NEW n, NEW i \in Nat \ {0}, Leaves(n, i + 1)
      PROVE  Leaves(n, i)'
  <2>1. PICK j \in 1..Len(queue) : i + 1 <= j /\ Removes(queue[j], n)
    BY <1>4 DEF Leaves
  <2>2. j \in 2..Len(queue) /\ i <= j - 1
    BY <1>2, <2>1
  <2>3. QED
    BY <1>3, <2>1, <2>2 DEF Leaves
<1>5. ASSUME NEW n, Leaves(n, 1), ~Removes(Head(queue), n)
      PROVE  Leaves(n, 1)'
  <2>1. PICK j \in 1..Len(queue) : 1 <= j /\ Removes(queue[j], n)
    BY <1>5 DEF Leaves
  <2>2. j \in 2..Len(queue)
    BY <1>2, <1>5, <2>1
  <2>3. 1 <= j - 1
    BY <2>2
  <2>4. QED
    BY <1>3, <2>1, <2>2, <2>3 DEF Leaves
<1>6. QED
  BY <1>1, <1>2, <1>4, <1>5

-----------------------------------------------------------------------------
(* Each action preserves it.                                               *)

LEMMA NodeAddedStep ==
    ASSUME AssociationsInv, NEW n \in Nodes, OzwNodeAdded(n)
    PROVE  AssociationsInv'
<1> DEFINE m == [type |-> "nodeAdded", node |-> n]
<1>1. TypeInv /\ ListedInv /\ QueueInv /\ RowsInv /\ m \in Message /\ Post(m)
  BY DEF AssociationsInv, OzwNodeAdded, Message
<1>2. /\ queue' \in Seq(Message) /\ Len(queue') = Len(queue) + 1 /\ Len(queue) \in Nat
      /\ \A i \in 1..Len(queue) : queue'[i] = queue[i]
      /\ queue'[Len(queue) + 1] = m
      /\ \A o, i : Leaves(o, i) => Leaves(o, i)'
  BY <1>1, PostedIs
<1>3. /\ n \notin ozwNodes /\ ozwNodes' = ozwNodes \cup {n}
      /\ \A p \in Pairs : listed'[p] = IF p[1] = n THEN {} ELSE listed[p]
      /\ \A p \in Pairs : ozwGroups'[p] = IF p[1] = n THEN {} ELSE ozwGroups[p]
      /\ UNCHANGED <<device, validNodes, rows>>
  BY DEF OzwNodeAdded
<1>4. TypeInv'
  <2>1. \A p \in Pairs : IsFiniteSet(ozwGroups'[p])
    BY <1>1, <1>3, FS_EmptySet DEF TypeInv
  <2>2. /\ ozwGroups' \in [Pairs -> SUBSET Targets]
        /\ listed' \in [Pairs -> SUBSET Targets]
    BY <1>1 DEF OzwNodeAdded, TypeInv
  <2>3. QED
    BY <1>1, <1>2, <1>3, <2>1, <2>2 DEF TypeInv
<1>5. ListedInv'
  BY <1>1, <1>3 DEF ListedInv
<1>6. QueueInv'
  BY <1>1, <1>2, <1>3 DEF QueueInv
<1>7. RowsInv'
  <2>1. SUFFICES ASSUME NEW k \in DOMAIN rows, ~Leaves(rows[k].pair[1], 1)'
                 PROVE  /\ rows[k].pair[1] \in ozwNodes'
                        /\ \A i \in 1..Len(rows[k].members) :
                             rows[k].members[i] \in listed'[rows[k].pair]
    BY <1>3 DEF RowsInv
  <2>2. /\ rows[k].pair[1] \in ozwNodes
        /\ \A i \in 1..Len(rows[k].members) : rows[k].members[i] \in listed[rows[k].pair]
    BY <1>1, <1>2, <1>3, <2>1 DEF RowsInv
  <2>3. rows[k].pair \in Pairs /\ rows[k].pair[1] # n
    BY <1>1, <1>3, <2>2 DEF TypeInv, RowsOK, Row
  <2>4. QED
    BY <1>3, <2>2, <2>3
<1>8. QED
  BY <1>4, <1>5, <1>6, <1>7 DEF AssociationsInv

\* A node that leaves, or all of them: the report follows everything there is.
LEMMA LeavingStep ==
    ASSUME AssociationsInv, NEW m \in Message, Post(m), m.type # "nodeGroupChanged",
           ozwNodes' \subseteq ozwNodes,
           \A o \in ozwNodes : o \in ozwNodes' \/ Removes(m, o),
           UNCHANGED <<device, ozwGroups, validNodes, rows, listed>>
    PROVE  AssociationsInv'
<1>1. TypeInv /\ ListedInv /\ QueueInv /\ RowsInv
  BY DEF AssociationsInv
<1>2. /\ queue' \in Seq(Message) /\ Len(queue') = Len(queue) + 1 /\ Len(queue) \in Nat
      /\ \A i \in 1..Len(queue) : queue'[i] = queue[i]
      /\ queue'[Len(queue) + 1] = m
      /\ \A o, i : Leaves(o, i) => Leaves(o, i)'
      /\ \A o : \A i \in 1..Len(queue) + 1 : Removes(m, o) => Leaves(o, i)'
  BY <1>1, PostedIs
<1>3. TypeInv'
  BY <1>1, <1>2 DEF TypeInv
<1>4. ListedInv'
  BY <1>1 DEF ListedInv
<1>5. QueueInv'
  <2>1. SUFFICES ASSUME NEW i \in 1..Len(queue'), queue'[i].type = "nodeGroupChanged"
                 PROVE  queue'[i].pair[1] \in ozwNodes' \/ Leaves(queue[i].pair[1], i)'
    BY <1>2 DEF QueueInv
  <2>2. i \in 1..Len(queue) /\ queue'[i] = queue[i]
    BY <1>2, <2>1
  <2>3. queue[i].pair[1] \in ozwNodes \/ Leaves(queue[i].pair[1], i)
    BY <1>1, <2>1, <2>2 DEF QueueInv
  <2>4. QED
    BY <1>2, <2>2, <2>3
<1>6. RowsInv'
  BY <1>1, <1>2 DEF RowsInv
<1>7. QED
  BY <1>3, <1>4, <1>5, <1>6 DEF AssociationsInv

LEMMA GroupStep ==
    ASSUME AssociationsInv, NEW p \in Pairs, OzwGroup(p)
    PROVE  AssociationsInv'
<1> DEFINE m == [type |-> "nodeGroupChanged", pair |-> p]
<1>1. TypeInv /\ ListedInv /\ QueueInv /\ RowsInv /\ m \in Message /\ Post(m)
  BY DEF AssociationsInv, OzwGroup, Message
<1>2. /\ queue' \in Seq(Message) /\ Len(queue') = Len(queue) + 1 /\ Len(queue) \in Nat
      /\ \A i \in 1..Len(queue) : queue'[i] = queue[i]
      /\ queue'[Len(queue) + 1] = m
      /\ \A o, i : Leaves(o, i) => Leaves(o, i)'
  BY <1>1, PostedIs
<1>3. /\ p[1] \in ozwNodes
      /\ ozwGroups' = [ozwGroups EXCEPT ![p] = device[p]]
      /\ listed' = [listed EXCEPT ![p] = @ \cup device[p]]
      /\ UNCHANGED <<ozwNodes, device, validNodes, rows>>
  BY DEF OzwGroup
<1>4. /\ ozwGroups' \in [Pairs -> SUBSET Targets] /\ listed' \in [Pairs -> SUBSET Targets]
      /\ \A q \in Pairs : /\ listed[q] \subseteq listed'[q]
                          /\ ozwGroups'[q] = IF q = p THEN device[p] ELSE ozwGroups[q]
      /\ device[p] \subseteq listed'[p]
  BY <1>1, <1>3 DEF TypeInv
<1>5. TypeInv'
  BY <1>1, <1>2, <1>3, <1>4 DEF TypeInv
<1>6. ListedInv'
  BY <1>1, <1>4 DEF ListedInv
<1>7. QueueInv'
  BY <1>1, <1>2, <1>3 DEF QueueInv
<1>8. RowsInv'
  <2>1. \A k \in DOMAIN rows : rows[k].pair \in Pairs
    BY <1>1 DEF TypeInv, RowsOK, Row
  <2>2. QED
    BY <1>1, <1>2, <1>3, <1>4, <2>1 DEF RowsInv
<1>9. QED
  BY <1>5, <1>6, <1>7, <1>8 DEF AssociationsInv

\* A report is handled that takes rows away or none: those that are left have
\* nodes that it does not remove.
LEMMA ReportStep ==
    ASSUME AssociationsInv, NEW t, t # "nodeGroupChanged", Deliver(t),
           validNodes' \subseteq Nodes, RowsOK(rows'),
           \A k \in DOMAIN rows' : /\ k \in DOMAIN rows /\ rows'[k] = rows[k]
                                   /\ ~Removes(Head(queue), rows[k].pair[1]),
           UNCHANGED <<ozwNodes, device, ozwGroups, listed>>
    PROVE  AssociationsInv'
<1>1. TypeInv /\ ListedInv /\ QueueInv /\ RowsInv
  BY DEF AssociationsInv
<1>2. /\ queue' \in Seq(Message)
      /\ \A i \in 1..Len(queue') : i + 1 \in 1..Len(queue) /\ queue'[i] = queue[i + 1]
      /\ \A n : \A i \in Nat \ {0} : Leaves(n, i + 1) => Leaves(n, i)'
      /\ \A n : Leaves(n, 1) /\ ~Removes(Head(queue), n) => Leaves(n, 1)'
  BY <1>1, DeliveredIs
<1>3. TypeInv'
  BY <1>1, <1>2 DEF TypeInv
<1>4. ListedInv'
  BY <1>1 DEF ListedInv
<1>5. QueueInv'
  BY <1>1, <1>2 DEF QueueInv
<1>6. RowsInv'
  BY <1>1, <1>2 DEF RowsInv
<1>7. QED
  BY <1>3, <1>4, <1>5, <1>6 DEF AssociationsInv

LEMMA GroupChangedStep ==
    ASSUME AssociationsInv, pvt_nodeGroupChanged
    PROVE  AssociationsInv'
<1>1. /\ TypeInv /\ ListedInv /\ QueueInv /\ RowsInv
      /\ Deliver("nodeGroupChanged")
      /\ UNCHANGED <<ozwNodes, device, ozwGroups, validNodes, listed>>
  BY DEF AssociationsInv, pvt_nodeGroupChanged
<1>2. /\ queue' \in Seq(Message)
      /\ Head(queue) \in Message /\ Head(queue).type = "nodeGroupChanged"
      /\ Head(queue) = queue[1] /\ 1 \in 1..Len(queue)
      /\ \A i \in 1..Len(queue') : i + 1 \in 1..Len(queue) /\ queue'[i] = queue[i + 1]
      /\ \A n : \A i \in Nat \ {0} : Leaves(n, i + 1) => Leaves(n, i)'
      /\ \A n : Leaves(n, 1) /\ ~Removes(Head(queue), n) => Leaves(n, 1)'
  BY <1>1, DeliveredIs
<1>3. \A n : Leaves(n, 1) => Leaves(n, 1)'
  BY <1>2 DEF Removes
<1>4. PICK p \in Pairs : p = Head(queue).pair
  BY <1>2 DEF Message
<1>5. p[1] \in ozwNodes \/ Leaves(p[1], 1)
  BY <1>1, <1>2, <1>4 DEF QueueInv
<1>6. /\ ozwGroups[p] \in SUBSET Targets /\ IsFiniteSet(ozwGroups[p])
      /\ RowsOK(rows)
  BY <1>1 DEF TypeInv
<1>7. Refreshed(rows, p, rows', IF p[1] \in ozwNodes THEN ozwGroups[p] ELSE {})
  <2>1. CASE rows' \in Refresh(rows, p)
    BY <1>6, <2>1, RefreshIs
  <2>2. CASE rows' = addGroup(rows, p)
    <3>1. /\ RowsOK(rows')
          /\ \A k \in DOMAIN rows' :
               \/ k \in DOMAIN rows /\ rows'[k] = rows[k]
               \/ rows'[k] = [pair |-> p, members |-> <<>>]
      BY <1>6, <2>2, AddGroupIs
    <3>2. QED
      BY <3>1 DEF Refreshed
  <2>3. QED
    BY <1>4, <2>1, <2>2 DEF pvt_nodeGroupChanged
<1>8. TypeInv'
  BY <1>1, <1>2, <1>7 DEF TypeInv, Refreshed
<1>9. ListedInv'
  BY <1>1 DEF ListedInv
<1>10. QueueInv'
  BY <1>1, <1>2 DEF QueueInv
<1>11. RowsInv'
  <2>1. ASSUME NEW k \in DOMAIN rows', k \in DOMAIN rows, rows'[k] = rows[k]
        PROVE  \/ Leaves(rows[k].pair[1], 1)'
               \/ /\ rows'[k].pair[1] \in ozwNodes
                  /\ \A i \in 1..Len(rows'[k].members) : rows'[k].members[i] \in listed[rows'[k].pair]
    BY <1>1, <1>3, <2>1 DEF RowsInv
  <2>2. ASSUME NEW k \in DOMAIN rows', rows'[k].pair = p, ~Leaves(p[1], 1)',
               \A i \in 1..Len(rows'[k].members) :
                 \/ rows'[k].members[i] \in IF p[1] \in ozwNodes THEN ozwGroups[p] ELSE {}
                 \/ \E j \in DOMAIN rows : /\ rows[j].pair = p
                                           /\ rows'[k].members[i] \in ToSet(rows[j].members)
        PROVE  /\ p[1] \in ozwNodes
               /\ \A i \in 1..Len(rows'[k].members) : rows'[k].members[i] \in listed[p]
    <3>1. ~Leaves(p[1], 1) /\ p[1] \in ozwNodes
      BY <1>3, <1>5, <2>2
    <3>2. ASSUME NEW i \in 1..Len(rows'[k].members)
          PROVE  rows'[k].members[i] \in listed[p]
      <4>1. CASE rows'[k].members[i] \in ozwGroups[p]
        BY <1>1, <4>1 DEF ListedInv
      <4>2. ASSUME NEW j \in DOMAIN rows, rows[j].pair = p,
                   rows'[k].members[i] \in ToSet(rows[j].members)
            PROVE  rows'[k].members[i] \in listed[p]
        <5>1. rows[j].members \in Seq(Targets)
          BY <1>6 DEF RowsOK, Row
        <5>2. PICK l \in 1..Len(rows[j].members) : rows'[k].members[i] = rows[j].members[l]
          BY <4>2, <5>1 DEF ToSet
        <5>3. QED
          BY <1>1, <3>1, <4>2, <5>2 DEF RowsInv
      <4>3. QED
        BY <2>2, <3>1, <4>1, <4>2
    <3>3. QED
      BY <3>1, <3>2
  <2>3. QED
    BY <1>1, <1>7, <2>1, <2>2 DEF RowsInv, Refreshed
<1>12. QED
  BY <1>8, <1>9, <1>10, <1>11 DEF AssociationsInv

LEMMA ClientStep ==
    ASSUME AssociationsInv, NEW p \in Pairs, NEW t \in Targets,
           AddAssociation(p, t) \/ RemoveAssociation(p, t)
    PROVE  AssociationsInv'
<1>1. /\ UNCHANGED <<ozwNodes, ozwGroups, queue, validNodes, rows, listed>>
      /\ \/ device' = [device EXCEPT ![p] = @ \cup {Effective(p, t)}]
         \/ device' = [device EXCEPT ![p] = @ \ {Effective(p, t)}]
  BY DEF AddAssociation, RemoveAssociation
<1>2. Effective(p, t) \in Targets
  BY AssociationsAssumption DEF Effective, Targets
<1>3. TypeInv
  BY DEF AssociationsInv
<1>4. /\ IsFiniteSet(device[p] \cup {Effective(p, t)})
      /\ IsFiniteSet(device[p] \ {Effective(p, t)})
  BY <1>3, FS_AddElement, FS_RemoveElement DEF TypeInv
<1>5. /\ device' \in [Pairs -> SUBSET Targets]
      /\ \A q \in Pairs : IsFiniteSet(device'[q])
  BY <1>1, <1>2, <1>3, <1>4 DEF TypeInv
<1>6. TypeInv'
  BY <1>1, <1>3, <1>5 DEF TypeInv
<1>7. QED
  BY <1>1, <1>6 DEF AssociationsInv, ListedInv, QueueInv, RowsInv, Leaves

LEMMA SlotStep ==
    ASSUME AssociationsInv, pvt_nodeAdded \/ pvt_nodeRemoved \/ pvt_driverReset
    PROVE  AssociationsInv'
<1>1. TypeInv /\ RowsOK(rows)
  BY DEF AssociationsInv, TypeInv
<1>2. CASE pvt_nodeAdded
  <2>1. /\ Deliver("nodeAdded") /\ Head(queue) \in Message /\ Head(queue).type = "nodeAdded"
        /\ UNCHANGED <<ozwNodes, device, ozwGroups, rows, listed>>
        /\ validNodes' = validNodes \cup {Head(queue).node}
    BY <1>1, <1>2, DeliveredIs DEF pvt_nodeAdded
  <2>2. validNodes' \subseteq Nodes
    BY <1>1, <2>1 DEF TypeInv, Message
  <2>3. \A k \in DOMAIN rows : ~Removes(Head(queue), rows[k].pair[1])
    BY <2>1 DEF Removes
  <2>4. QED
    BY <1>1, <2>1, <2>2, <2>3, ReportStep
<1>3. CASE pvt_nodeRemoved
  <2> DEFINE n == Head(queue).node
  <2>1. /\ Deliver("nodeRemoved") /\ Head(queue) \in Message
        /\ Head(queue).type = "nodeRemoved"
        /\ UNCHANGED <<ozwNodes, device, ozwGroups, listed>>
        /\ validNodes' = validNodes \ {n} /\ rows' = delNode(rows, n)
    BY <1>1, <1>3, DeliveredIs DEF pvt_nodeRemoved
  <2>2. /\ DOMAIN rows' \subseteq DOMAIN rows
        /\ \A k \in DOMAIN rows' : rows'[k] = rows[k] /\ rows[k].pair[1] # n
    BY <2>1 DEF delNode
  <2>3. IsFiniteSet(DOMAIN rows')
    BY <1>1, <2>2, FS_Subset DEF RowsOK
  <2>4. RowsOK(rows')
    BY <1>1, <2>2, <2>3 DEF RowsOK
  <2>5. \A k \in DOMAIN rows' : ~Removes(Head(queue), rows[k].pair[1])
    BY <2>1, <2>2 DEF Removes
  <2>6. validNodes' \subseteq Nodes
    BY <1>1, <2>1 DEF TypeInv
  <2>7. QED
    BY <2>1, <2>2, <2>4, <2>5, <2>6, ReportStep
<1>4. CASE pvt_driverReset
  <2>1. /\ Deliver("driverReset") /\ validNodes' = {}
        /\ UNCHANGED <<ozwNodes, device, ozwGroups, listed>>
    BY <1>4 DEF pvt_driverReset
  <2>2. DOMAIN rows' = {}
    BY <1>4 DEF pvt_driverReset
  <2>3. RowsOK(rows')
    BY <2>2, FS_EmptySet DEF RowsOK
  <2>4. QED
    BY <2>1, <2>2, <2>3, ReportStep
<1>5. QED
  BY <1>2, <1>3, <1>4

LEMMA NextInv == AssociationsInv /\ [Next]_vars => AssociationsInv'
<1> SUFFICES ASSUME AssociationsInv, [Next]_vars PROVE AssociationsInv'
  OBVIOUS
<1>1. ASSUME NEW n \in Nodes, OzwNodeRemoved(n)
      PROVE  AssociationsInv'
  <2> DEFINE m == [type |-> "nodeRemoved", node |-> n]
  <2>1. m \in Message /\ Post(m) /\ m.type # "nodeGroupChanged"
    BY <1>1 DEF OzwNodeRemoved, Message
  <2>2. \A o \in ozwNodes : o \in ozwNodes' \/ Removes(m, o)
    BY <1>1 DEF OzwNodeRemoved, Removes
  <2>3. /\ ozwNodes' \subseteq ozwNodes
        /\ UNCHANGED <<device, ozwGroups, validNodes, rows, listed>>
    BY <1>1 DEF OzwNodeRemoved
  <2> HIDE DEF m
  <2>4. QED
    BY <2>1, <2>2, <2>3, LeavingStep
<1>2. CASE OzwDriverReset
  <2> DEFINE m == [type |-> "driverReset"]
  <2>1. m \in Message /\ Post(m) /\ m.type # "nodeGroupChanged"
    BY <1>2 DEF OzwDriverReset, Message
  <2>2. \A o \in ozwNodes : o \in ozwNodes' \/ Removes(m, o)
    <3>1. m.type = "driverReset"
      OBVIOUS
    <3> HIDE DEF m
    <3>2. QED
      BY <3>1 DEF Removes
  <2>3. /\ ozwNodes' \subseteq ozwNodes
        /\ UNCHANGED <<device, ozwGroups, validNodes, rows, listed>>
    BY <1>2 DEF OzwDriverReset
  <2> HIDE DEF m
  <2>4. QED
    BY <2>1, <2>2, <2>3, LeavingStep
<1>3. CASE Ozw
  BY <1>1, <1>2, <1>3, NodeAddedStep, GroupStep DEF Ozw
<1>4. CASE Slot
  BY <1>4, SlotStep, GroupChangedStep DEF Slot
<1>5. CASE Client
  BY <1>5, ClientStep DEF Client
<1>6. CASE UNCHANGED vars
  BY <1>6 DEF vars, AssociationsInv, TypeInv, ListedInv, QueueInv, RowsInv, Leaves
<1>7. QED
  BY <1>3, <1>4, <1>5, <1>6 DEF Next

\* The inductive invariant holds whatever the nodes, the groups and the length of
\* the queue.
THEOREM AssociationsInductive == Spec => []AssociationsInv
<1>1. QED
  BY InitInv, NextInv, PTL DEF Spec

\* Type correctness of the group table and of the library's groups.
THEOREM AssociationTypes == Spec => []TypeOK
<1>1. AssociationsInv => TypeOK
  BY DEF AssociationsInv, TypeInv, TypeOK, RowsOK, Row
<1>2. QED
  BY <1>1, AssociationsInductive, PTL

\* pvt_nodeGroupChanged does not ask whether the node is valid: when every event
\* is handled, still no group of a node that left is there, because the report
\* that it left is always behind the last event of one of its groups.
THEOREM GroupsOfValidNodesAlways == Spec => []GroupsOfValidNodes
<1>1. AssociationsInv => GroupsOfValidNodes
  <2>1. SUFFICES ASSUME AssociationsInv PROVE GroupsOfValidNodes
    OBVIOUS
  <2>2. queue = <<>> => \A k \in DOMAIN rows : ~Leaves(rows[k].pair[1], 1)
    BY DEF Leaves
  <2>3. QED
    BY <2>1, <2>2 DEF AssociationsInv, TypeInv, RowsOK, RowsInv, GroupsOfValidNodes
<1>2. QED
  BY <1>1, AssociationsInductive, PTL

\* No group ever shows a member twice, nor, when every event is handled, one that
\* the library did not list since the node was added, though row numbers are
\* reused and the refresh compares the wrong entries.
THEOREM MembersWereListedAlways == Spec => []MembersWereListed
<1>1. AssociationsInv => MembersWereListed
  <2>1. SUFFICES ASSUME AssociationsInv, NEW k \in DOMAIN rows
                 PROVE  /\ Distinct(rows[k].members)
                        /\ queue = <<>> =>
                             ToSet(rows[k].members) \subseteq listed[rows[k].pair]
    BY DEF MembersWereListed, Distinct
  <2>2. Distinct(rows[k].members) /\ rows[k].members \in Seq(Targets)
    BY <2>1 DEF AssociationsInv, TypeInv, RowsOK, Row
  <2>3. ASSUME queue = <<>>
        PROVE  \A i \in 1..Len(rows[k].members) : rows[k].members[i] \in listed[rows[k].pair]
    <3>1. ~Leaves(rows[k].pair[1], 1)
      BY <2>3 DEF Leaves
    <3>2. QED
      BY <2>1, <3>1 DEF AssociationsInv, RowsInv
  <2>4. QED
    BY <2>2, <2>3 DEF ToSet
<1>2. QED
  BY <1>1, AssociationsInductive, PTL
=============================================================================
