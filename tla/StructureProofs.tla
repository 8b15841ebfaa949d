--------------------------- MODULE StructureProofs ---------------------------
(***************************************************************************)
(* Proofs about CBar and Swing for every set of bars and every number of   *)
(* them.  CBars: one append replaces the last k rows by one row (StepShape, *)
(* with what the loop of merge_with_last_if_needed guarantees about k);    *)
(* each property is then preserved by that replacement.  Swings: a rebuild *)
(* is followed row by row (Built); it never gets beyond one swing.         *)
(***************************************************************************)
EXTENDS Swing, FiniteLemmas, SequenceTheorems

\* What max and min compute when k rows are merged into bar b: the merged
\* range bounds the bar and each popped row, and each bound is attained.
LEMMA MergedRange ==
    ASSUME NEW rs \in Seq(CBarRow), NEW b \in Bars, NEW k \in 0 .. Len(rs)
    PROVE  /\ Merged(rs, b, k).high \in Int
           /\ b.high <= Merged(rs, b, k).high
           /\ \A i \in Popped(rs, k) : rs[i].high <= Merged(rs, b, k).high
           /\ \/ Merged(rs, b, k).high = b.high
              \/ \E i \in Popped(rs, k) : Merged(rs, b, k).high = rs[i].high
           /\ Merged(rs, b, k).low \in Int
           /\ Merged(rs, b, k).low <= b.low
           /\ \A i \in Popped(rs, k) : Merged(rs, b, k).low <= rs[i].low
           /\ \/ Merged(rs, b, k).low = b.low
              \/ \E i \in Popped(rs, k) : Merged(rs, b, k).low = rs[i].low
<1> DEFINE span == Len(rs) - k + 1 .. Len(rs)
           highs == [i \in span |-> rs[i].high]
           lows == [i \in span |-> rs[i].low]
           H == {b.high} \cup {rs[i].high : i \in span}
           L == {b.low} \cup {rs[i].low : i \in span}
<1>1. b.high \in Int /\ b.low \in Int
  BY BarsAssumption
<1>2. \A i \in span : rs[i] \in CBarRow
  OBVIOUS
<1>3. \A i \in span : rs[i].high \in Int /\ rs[i].low \in Int
  BY <1>2 DEF CBarRow
<1>4. IsFiniteSet(span)
  <2>1. Len(rs) - k + 1 \in Int /\ Len(rs) \in Int
    OBVIOUS
  <2> QED BY <2>1, FS_Interval, Zenon
<1>5. IsFiniteSet(H) /\ IsFiniteSet(L)
  <2>1. highs \in [span -> Int]
    BY <1>3
  <2>2. lows \in [span -> Int]
    BY <1>3
  <2>3. b.high \in H
    OBVIOUS
  <2>4. b.low \in L
    OBVIOUS
  <2>5. \A x \in H : x = b.high \/ \E i \in span : x = highs[i]
    OBVIOUS
  <2>6. \A x \in L : x = b.low \/ \E i \in span : x = lows[i]
    OBVIOUS
  <2> HIDE DEF span, highs, lows, H, L
  <2>7. IsFiniteSet(H)
    BY <1>4, <2>1, <2>3, <2>5, CoveredFinite, ZenonT(30)
  <2>8. IsFiniteSet(L)
    BY <1>4, <2>2, <2>4, <2>6, CoveredFinite, ZenonT(30)
  <2> QED BY <2>7, <2>8
<1>6. H \in SUBSET Int /\ H # {} /\ L \in SUBSET Int /\ L # {}
  BY <1>1, <1>3
<1>7. /\ Max(H) \in H /\ \A x \in H : x <= Max(H)
      /\ Min(L) \in L /\ \A x \in L : Min(L) <= x
  <2> HIDE DEF H, L
  <2> QED BY <1>5, <1>6, FiniteMaxMin
<1>8. Merged(rs, b, k).high = Max(H) /\ Merged(rs, b, k).low = Min(L)
  BY DEF Merged, Popped
<1>9. /\ b.high \in H /\ b.low \in L
      /\ \A i \in span : rs[i].high \in H /\ rs[i].low \in L
      /\ \A x \in H : x \in Int /\ (x = b.high \/ \E i \in span : x = rs[i].high)
      /\ \A x \in L : x \in Int /\ (x = b.low \/ \E i \in span : x = rs[i].low)
  BY <1>1, <1>3
<1>10. Popped(rs, k) = span
  BY DEF Popped
<1> HIDE DEF span, H, L
<1> QED BY <1>7, <1>8, <1>9, <1>10

\* The loop of merge_with_last_if_needed stops, and where it stops no row is
\* left or the next one is clear of the merged range.
LEMMA PopCountStops ==
    ASSUME NEW rs \in Seq(CBarRow), NEW b \in Bars
    PROVE  /\ PopCount(rs, b) \in 0 .. Len(rs)
           /\ PopCount(rs, b) < Len(rs) =>
                  ~Inclusive(rs[Len(rs) - PopCount(rs, b)],
                             Merged(rs, b, PopCount(rs, b)))
<1>1. Stops(rs, b) \in SUBSET Nat /\ Len(rs) \in Stops(rs, b)
  BY DEF Stops
<1>2. Min(Stops(rs, b)) \in Stops(rs, b)
  BY <1>1, MinNat
<1> QED BY <1>2 DEF PopCount, Stops

\* What one append does to the rows: the last k of them give way to one row,
\* the others keep everything but their label.
StepShape(b, k) ==
    LET n == Len(sbars) + 1
        l == Len(rows) - k + 1
        m == Merged(rows, b, k)
    IN  /\ Len(rows') = l
        /\ \A i \in 1 .. l - 1 :
               /\ rows'[i].id = rows[i].id
               /\ rows'[i].start = rows[i].start
               /\ rows'[i].end = rows[i].end
               /\ rows'[i].high = rows[i].high
               /\ rows'[i].low = rows[i].low
        /\ rows'[l].id = cbarIds + 1
        /\ rows'[l].start = (IF k = 0 THEN n ELSE rows[l].start)
        /\ rows'[l].end = n
        /\ rows'[l].high = m.high
        /\ rows'[l].low = m.low

\* Appending a bar to well-typed rows yields well-typed rows of that shape,
\* labelled by the three-row rule, for the k at which the loop stops.
LEMMA OnSBarShape ==
    ASSUME CBarTypeOK, NEW b \in Bars, OnSBar(b)
    PROVE  /\ rows' \in Seq(CBarRow)
           /\ \E k \in 0 .. Len(rows) :
                 /\ StepShape(b, k)
                 /\ k < Len(rows) =>
                        ~Inclusive(rows[Len(rows) - k], Merged(rows, b, k))
           /\ \A i \in 1 .. Len(rows') : rows'[i].fractal = LabelAt(rows', i)
<1> DEFINE k == PopCount(rows, b)
           n == Len(sbars) + 1
           l == Len(rows) - k + 1
           m == Merged(rows, b, k)
           kept == SubSeq(rows, 1, Len(rows) - k)
           last == [id |-> cbarIds + 1,
                    start |-> IF k = 0 THEN n ELSE rows[l].start,
                    end |-> n, high |-> m.high, low |-> m.low, fractal |-> "none"]
           new == Append(kept, last)
<1>1. rows \in Seq(CBarRow) /\ sbars \in Seq(Bars) /\ cbarIds \in Nat
  BY DEF CBarTypeOK
<1>2. k \in 0 .. Len(rows) /\ (k < Len(rows) => ~Inclusive(rows[Len(rows) - k], m))
  BY <1>1, PopCountStops
<1>3. m.high \in Int /\ m.low \in Int
  BY <1>1, <1>2, MergedRange
<1>4. new = MergedRows(rows, b, n, cbarIds + 1)
  BY DEF MergedRows
<1>5. n \in Nat \ {0} /\ cbarIds + 1 \in Nat \ {0} /\ Len(rows) \in Nat
  BY <1>1
<1> HIDE DEF k, n, m
<1>6. k # 0 => rows[l].start \in Nat \ {0}
  <2> SUFFICES ASSUME k # 0 PROVE rows[l].start \in Nat \ {0}
    OBVIOUS
  <2>1. l \in 1 .. Len(rows)
    BY <1>2, <1>5
  <2>2. rows[l] \in CBarRow
    BY <1>1, <2>1, ElementOfSeq
  <2> QED BY <2>2 DEF CBarRow
<1>7. last \in CBarRow
  BY <1>3, <1>5, <1>6 DEF CBarRow, Labels
<1>8. /\ kept \in Seq(CBarRow) /\ Len(kept) = l - 1
      /\ \A i \in 1 .. l - 1 : kept[i] = rows[i]
  BY <1>1, <1>2, <1>5
<1>9. /\ new \in Seq(CBarRow) /\ Len(new) = l
      /\ \A i \in 1 .. l - 1 : new[i] = rows[i]
      /\ new[l] = last
  <2>1. l \in Nat /\ l - 1 \in Nat
    BY <1>2, <1>5
  <2> HIDE DEF kept, last, l
  <2>2. /\ new \in Seq(CBarRow) /\ Len(new) = Len(kept) + 1
        /\ \A i \in 1 .. Len(kept) : new[i] = kept[i]
        /\ new[Len(kept) + 1] = last
    BY <1>7, <1>8, AppendProperties
  <2>3. Len(kept) + 1 = l /\ Len(kept) = l - 1 /\ Len(kept) \in Nat
    BY <1>8, <2>1
  <2> QED BY <1>8, <2>2, <2>3
<1>10. rows' = [i \in 1 .. Len(new) |-> [new[i] EXCEPT !.fractal = LabelAt(new, i)]]
  BY <1>4 DEF OnSBar, Labelled, n
<1> HIDE DEF new
<1>11. \A i \in 1 .. l : LabelAt(new, i) \in Labels
  BY DEF LabelAt, Verify, Labels
<1>12. \A i \in 1 .. l : /\ [new[i] EXCEPT !.fractal = LabelAt(new, i)] \in CBarRow
                         /\ new[i] \in CBarRow
  <2>1. \A i \in 1 .. l : new[i] \in CBarRow
    BY <1>9
  <2> QED BY <2>1, <1>11 DEF CBarRow
<1>13. rows' \in Seq(CBarRow) /\ Len(rows') = l
  <2>1. l \in Nat /\ Len(new) = l
    BY <1>2, <1>5, <1>9
  <2> HIDE DEF kept, last, l
  <2>2. rows' \in [1 .. l -> CBarRow]
    BY <1>10, <1>12, <2>1
  <2> QED BY <2>1, <2>2
<1>14. \A i \in 1 .. l :
          /\ rows'[i].id = new[i].id
          /\ rows'[i].start = new[i].start
          /\ rows'[i].end = new[i].end
          /\ rows'[i].high = new[i].high
          /\ rows'[i].low = new[i].low
          /\ rows'[i].fractal = LabelAt(new, i)
  BY <1>9, <1>10, <1>12 DEF CBarRow
<1>15. \A i \in 1 .. l : LabelAt(new, i) = LabelAt(rows', i)
  <2> SUFFICES ASSUME NEW i \in 1 .. l PROVE LabelAt(new, i) = LabelAt(rows', i)
    OBVIOUS
  <2>1. CASE ~(1 < i /\ i < l)
    BY <2>1, <1>9, <1>13 DEF LabelAt
  <2>2. CASE 1 < i /\ i < l
    <3>1. i - 1 \in 1 .. l /\ i + 1 \in 1 .. l
      BY <2>2, <1>9
    <3> QED BY <2>2, <3>1, <1>9, <1>13, <1>14 DEF LabelAt, Verify, IsTop, IsBottom
  <2> QED BY <2>1, <2>2
<1>16. StepShape(b, k)
  <2>1. l \in 1 .. l
    BY <1>2, <1>5
  <2>2. \A i \in 1 .. l - 1 : i \in 1 .. l
    BY <1>2, <1>5
  <2> QED BY <1>9, <1>13, <1>14, <2>1, <2>2 DEF StepShape, n, m
<1>17. \A i \in 1 .. Len(rows') : rows'[i].fractal = LabelAt(rows', i)
  BY <1>13, <1>14, <1>15
<1> QED BY <1>2, <1>13, <1>16, <1>17 DEF m

-----------------------------------------------------------------------------
(* The inductive invariant.                                                *)

\* The spans of the rows follow each other, none reaching beyond the bars: what
\* Partition says of neighbours, of any two rows.
SpansOrdered ==
    /\ \A i \in 1 .. Len(rows) : rows[i].end <= Len(sbars)
    /\ \A i, j \in 1 .. Len(rows) : i < j => rows[i].end < rows[j].start

\* Ids increase along the rows and none is ahead of the generator.
IdsIncrease ==
    /\ \A i \in 1 .. Len(rows) : rows[i].id <= cbarIds
    /\ \A i, j \in 1 .. Len(rows) : i < j => rows[i].id < rows[j].id

\* Every stored label is the one the three-row rule gives now.
LabelsCurrent == \A i \in 1 .. Len(rows) : rows[i].fractal = LabelAt(rows, i)

CBarInv ==
    /\ CBarTypeOK
    /\ SpansOrdered
    /\ IdsIncrease
    /\ LabelsCurrent
    /\ Partition
    /\ NonInclusive
    /\ RangeIsEnvelope

LEMMA InitInv == CBarInit => CBarInv
BY DEF CBarInit, CBarInv, CBarTypeOK, SpansOrdered, IdsIncrease, LabelsCurrent,
       Partition, NonInclusive, RangeIsEnvelope, NoId

\* The state after an append is well typed: in particular the reported id is
\* None or the id of a row that was there.
LEMMA TypeStep ==
    ASSUME CBarTypeOK, NEW b \in Bars, OnSBar(b)
    PROVE  CBarTypeOK'
<1>1. rows \in Seq(CBarRow) /\ rows' \in Seq(CBarRow)
  BY OnSBarShape DEF CBarTypeOK
<1>2. sbars' \in Seq(Bars) /\ cbarIds' \in Nat
  BY DEF CBarTypeOK, OnSBar
<1>3. backtrack' \in Nat
  <2> DEFINE n == IF Len(rows) < Len(rows') THEN Len(rows) ELSE Len(rows')
             changed == {i \in 1 .. n : rows[i] # rows'[i]}
  <2>1. n \in Nat /\ n <= Len(rows) /\ n <= Len(rows')
    BY <1>1
  <2>2. changed \in SUBSET Nat
    BY <2>1
  <2>3. \A i \in 1 .. Len(rows) : rows[i].id \in Nat
    <3>1. \A i \in 1 .. Len(rows) : rows[i] \in CBarRow
      BY <1>1
    <3> QED BY <3>1 DEF CBarRow
  <2>4. changed # {} => Min(changed) \in 1 .. Len(rows)
    <3>1. changed # {} => Min(changed) \in changed
      <4> HIDE DEF changed
      <4> QED BY <2>2, MinNat
    <3> QED BY <3>1, <2>1
  <2>5. Len(rows) > Len(rows') => n + 1 \in 1 .. Len(rows)
    BY <1>1
  <2>6. backtrack' = IF changed # {} THEN rows[Min(changed)].id
                     ELSE IF Len(rows) > Len(rows') THEN rows[n + 1].id ELSE NoId
    BY DEF OnSBar, FirstChangedId
  <2> HIDE DEF changed, n
  <2> QED BY <2>3, <2>4, <2>5, <2>6 DEF NoId
<1> QED BY <1>1, <1>2, <1>3 DEF CBarTypeOK

\* Fields of the rows before and after a step, as the arithmetic needs them.
LEMMA RowTypes ==
    ASSUME NEW rs \in Seq(CBarRow)
    PROVE  /\ Len(rs) \in Nat
           /\ \A i \in 1 .. Len(rs) :
                 /\ rs[i] \in CBarRow
                 /\ rs[i].id \in Nat \ {0}
                 /\ rs[i].start \in Nat \ {0}
                 /\ rs[i].end \in Nat \ {0}
                 /\ rs[i].high \in Int
                 /\ rs[i].low \in Int
<1>1. \A i \in 1 .. Len(rs) : rs[i] \in CBarRow
  OBVIOUS
<1>2. \A r \in CBarRow : /\ r.id \in Nat \ {0} /\ r.start \in Nat \ {0}
                         /\ r.end \in Nat \ {0} /\ r.high \in Int /\ r.low \in Int
  BY DEF CBarRow
<1>3. Len(rs) \in Nat
  OBVIOUS
<1> QED BY <1>1, <1>2, <1>3

\* The new row continues the old ones where the popped rows began.
LEMMA SpansStep ==
    ASSUME CBarTypeOK, SpansOrdered, Partition, NEW b \in Bars, OnSBar(b)
    PROVE  SpansOrdered' /\ Partition'
<1>1. rows \in Seq(CBarRow) /\ rows' \in Seq(CBarRow) /\ sbars \in Seq(Bars)
  BY OnSBarShape DEF CBarTypeOK
<1>2. PICK k \in 0 .. Len(rows) : StepShape(b, k)
  BY OnSBarShape
<1> DEFINE n == Len(sbars) + 1
           l == Len(rows) - k + 1
<1>3. /\ Len(rows') = l /\ l \in 1 .. Len(rows) + 1
      /\ \A i \in 1 .. l - 1 : rows'[i].start = rows[i].start /\ rows'[i].end = rows[i].end
      /\ rows'[l].start = (IF k = 0 THEN n ELSE rows[l].start)
      /\ rows'[l].end = n
  BY <1>1, <1>2 DEF StepShape
<1>4. sbars' = Append(sbars, b) /\ Len(sbars') = n /\ n \in Nat /\ n = Len(sbars) + 1
  BY <1>1 DEF OnSBar
<1>5. k = 0 => l = Len(rows) + 1
  BY <1>1
<1>6. k # 0 => l \in 1 .. Len(rows)
  BY <1>1
<1>7. Len(rows) \in Nat /\ \A i \in 1 .. Len(rows) : rows[i].start \in Nat /\ rows[i].end \in Nat
  BY <1>1, RowTypes
<1> HIDE DEF l, n
<1>8. \A i \in 1 .. l - 1 : i \in 1 .. Len(rows)
  BY <1>3, <1>7
<1>9. \A i \in 1 .. l - 1 : rows[i].end < rows'[l].start
  <2>1. CASE k = 0
    BY <1>3, <1>4, <1>7, <1>8, <2>1 DEF SpansOrdered
  <2>2. CASE k # 0
    BY <1>3, <1>6, <1>8, <2>2 DEF SpansOrdered
  <2> QED BY <2>1, <2>2
<1>10. SpansOrdered'
  <2>1. \A i \in 1 .. l : rows'[i].end <= n
    <3>1. \A i \in 1 .. l - 1 : rows[i].end <= Len(sbars)
      BY <1>8 DEF SpansOrdered
    <3>2. \A i \in 1 .. l - 1 : rows'[i].end <= n
      BY <3>1, <1>3, <1>4, <1>7, <1>8
    <3>3. \A i \in 1 .. l : i \in 1 .. l - 1 \/ i = l
      BY <1>3
    <3> QED BY <3>2, <3>3, <1>3, <1>4
  <2>2. \A i, j \in 1 .. l : i < j => rows'[i].end < rows'[j].start
    <3> SUFFICES ASSUME NEW i \in 1 .. l, NEW j \in 1 .. l, i < j
                 PROVE  rows'[i].end < rows'[j].start
      OBVIOUS
    <3>1. i \in 1 .. l - 1 /\ (j \in 1 .. l - 1 \/ j = l)
      BY <1>3, <1>7
    <3> QED BY <3>1, <1>3, <1>8, <1>9 DEF SpansOrdered
  <2> QED BY <1>3, <1>4, <2>1, <2>2 DEF SpansOrdered
<1>11. Partition'
  <2>1. rows' # <<>> /\ sbars' # <<>>
    BY <1>1, <1>3, <1>4
  <2>2. rows'[1].start = 1
    <3>1. CASE Len(rows) = 0
      <4>1. k = 0 /\ l = 1 /\ rows = <<>> /\ sbars = <<>> BY <1>1, <1>5, <3>1 DEF Partition
      <4> QED BY <1>3, <1>4, <4>1
    <3>2. CASE Len(rows) # 0
      <4>1. rows # <<>> /\ rows[1].start = 1 BY <3>2, <1>1 DEF Partition
      <4>2. CASE l = 1 BY <1>3, <1>5, <4>1, <4>2, <3>2, <1>7
      <4>3. CASE l # 1 BY <1>3, <1>7, <4>1, <4>3
      <4> QED BY <4>2, <4>3
    <3> QED BY <3>1, <3>2
  <2>3. rows'[Len(rows')].end = Len(sbars')
    BY <1>3, <1>4
  <2>4. \A i \in 1 .. l : rows'[i].start <= rows'[i].end
    <3>1. \A i \in 1 .. l - 1 : rows'[i].start <= rows'[i].end
      BY <1>3, <1>8 DEF Partition
    <3>2. rows'[l].start <= rows'[l].end
      <4>1. CASE k = 0 BY <4>1, <1>3, <1>4
      <4>2. CASE k # 0
        <5>1. rows[l].start <= rows[l].end /\ rows[l].end <= Len(sbars)
          BY <1>6, <4>2 DEF Partition, SpansOrdered
        <5> QED BY <5>1, <4>2, <1>3, <1>4, <1>6, <1>7
      <4> QED BY <4>1, <4>2
    <3>3. \A i \in 1 .. l : i \in 1 .. l - 1 \/ i = l
      BY <1>3
    <3> QED BY <3>1, <3>2, <3>3
  <2>5. \A i \in 1 .. l - 1 : rows'[i + 1].start = rows'[i].end + 1
    <3> SUFFICES ASSUME NEW i \in 1 .. l - 1 PROVE rows'[i + 1].start = rows'[i].end + 1
      OBVIOUS
    <3>1. CASE i + 1 < l
      <4>1. i + 1 \in 1 .. l - 1 /\ i \in 1 .. Len(rows) - 1 BY <3>1, <1>3, <1>7
      <4> QED BY <4>1, <1>3 DEF Partition
    <3>2. CASE i + 1 = l /\ k = 0
      <4>1. i = Len(rows) /\ rows # <<>> BY <3>2, <1>5, <1>7, <1>3, <1>8, <1>1
      <4>2. rows[i].end = Len(sbars) BY <4>1 DEF Partition
      <4> QED BY <4>2, <3>2, <1>3, <1>4
    <3>3. CASE i + 1 = l /\ k # 0
      <4>1. i \in 1 .. Len(rows) - 1 BY <3>3, <1>6, <1>7, <1>3
      <4>2. rows[i + 1].start = rows[i].end + 1 BY <4>1 DEF Partition
      <4> QED BY <4>2, <3>3, <1>3
    <3> QED BY <3>1, <3>2, <3>3, <1>3
  <2> QED BY <2>1, <2>2, <2>3, <2>4, <2>5, <1>3 DEF Partition
<1> QED BY <1>10, <1>11

\* No neighbours of the new rows are inclusive: the old pairs were not, and
\* the loop stopped where the new row is clear of the one before it.
LEMMA NonInclusiveStep ==
    ASSUME CBarTypeOK, NonInclusive, NEW b \in Bars, OnSBar(b)
    PROVE  NonInclusive'
<1>1. rows \in Seq(CBarRow) /\ Len(rows) \in Nat
  BY DEF CBarTypeOK
<1>2. PICK k \in 0 .. Len(rows) :
        /\ StepShape(b, k)
        /\ k < Len(rows) => ~Inclusive(rows[Len(rows) - k], Merged(rows, b, k))
  BY OnSBarShape
<1> DEFINE l == Len(rows) - k + 1
<1>3. Len(rows') = l
  BY <1>2 DEF StepShape
<1> SUFFICES ASSUME NEW i \in 1 .. l - 1 PROVE ~Inclusive(rows'[i], rows'[i + 1])
  BY <1>3 DEF NonInclusive
<1>4. CASE i + 1 < l
  <2>1. i \in 1 .. Len(rows) - 1 /\ i + 1 \in 1 .. l - 1
    BY <1>1, <1>4
  <2>2. ~Inclusive(rows[i], rows[i + 1])
    BY <2>1 DEF NonInclusive
  <2> QED BY <1>2, <2>1, <2>2 DEF StepShape, Inclusive
<1>5. CASE i + 1 = l
  <2>1. k < Len(rows) /\ Len(rows) - k = i
    BY <1>1, <1>5
  <2>2. ~Inclusive(rows[i], Merged(rows, b, k))
    BY <1>2, <2>1
  <2> QED BY <1>2, <1>5, <2>2 DEF StepShape, Inclusive
<1> QED BY <1>1, <1>4, <1>5

\* Every bar from the start of row l on lies in the span of a row from l on:
\* the first of those rows that reaches it.
LEMMA SpanCovers ==
    ASSUME CBarTypeOK, Partition, NEW l \in 1 .. Len(rows),
           NEW j \in rows[l].start .. Len(sbars)
    PROVE  \E i \in l .. Len(rows) : j \in rows[i].start .. rows[i].end
<1> DEFINE Reach == {i \in l .. Len(rows) : j <= rows[i].end}
<1>1. /\ rows \in Seq(CBarRow) /\ Len(rows) \in Nat
      /\ \A i \in 1 .. Len(rows) : rows[i].start \in Nat /\ rows[i].end \in Nat
  BY RowTypes DEF CBarTypeOK
<1>2. j \in Int /\ rows[l].start <= j /\ j <= Len(sbars)
  BY <1>1
<1>3. rows # <<>>
  BY <1>1
<1>4. Len(rows) \in Reach
  BY <1>1, <1>2, <1>3 DEF Partition
<1>5. Reach \in SUBSET Nat
  BY <1>1
<1>6. PICK i \in Reach : \A h \in Reach : i <= h
  <2> HIDE DEF Reach
  <2> QED BY <1>4, <1>5, LeastNat
<1>7. i \in l .. Len(rows) /\ j <= rows[i].end
  OBVIOUS
<1>8. CASE i = l
  BY <1>1, <1>2, <1>7, <1>8
<1>9. CASE i # l
  <2>1. i - 1 \in l .. Len(rows) /\ i - 1 \in 1 .. Len(rows) - 1 /\ i - 1 < i
    BY <1>1, <1>7, <1>9
  <2>2. i - 1 \notin Reach
    <3>1. i - 1 \in Nat /\ i \in Nat BY <1>1, <1>7, <2>1
    <3> HIDE DEF Reach
    <3> QED BY <1>6, <2>1, <3>1
  <2>3. rows[i - 1].end < j
    BY <1>1, <1>2, <2>1, <2>2
  <2>4. rows[i].start = rows[i - 1].end + 1
    BY <2>1 DEF Partition
  <2>5. rows[i].start \in Nat /\ rows[i].end \in Nat /\ rows[i - 1].end \in Nat
    BY <1>1, <1>7, <2>1
  <2>6. j \in rows[i].start .. rows[i].end
    BY <1>2, <1>7, <2>3, <2>4, <2>5
  <2> QED BY <1>7, <2>6
<1> QED BY <1>8, <1>9

\* A new row's range is the envelope of the bars it took over and of the new
\* one; nothing changes for the rows that stay.
LEMMA EnvelopeStep ==
    ASSUME CBarTypeOK, SpansOrdered, Partition, RangeIsEnvelope,
           NEW b \in Bars, OnSBar(b)
    PROVE  RangeIsEnvelope'
<1>1. /\ rows \in Seq(CBarRow) /\ Len(rows) \in Nat
      /\ \A i \in 1 .. Len(rows) :
            /\ rows[i].start \in Nat \ {0} /\ rows[i].end \in Nat \ {0}
            /\ rows[i].high \in Int /\ rows[i].low \in Int
  BY RowTypes DEF CBarTypeOK
<1>2. PICK k \in 0 .. Len(rows) : StepShape(b, k)
  BY OnSBarShape
<1> DEFINE n == Len(sbars) + 1
           l == Len(rows) - k + 1
           m == Merged(rows, b, k)
<1>3. /\ sbars \in Seq(Bars) /\ n \in Nat
      /\ \A j \in 1 .. Len(sbars) : sbars'[j] = sbars[j] /\ sbars[j] \in Bars
      /\ sbars'[n] = b
  BY DEF CBarTypeOK, OnSBar
<1>4. \A c \in Bars : c.high \in Int /\ c.low \in Int
  BY BarsAssumption
<1>5. Len(rows') = l /\ l \in 1 .. Len(rows) + 1
  BY <1>1, <1>2 DEF StepShape
<1> SUFFICES ASSUME NEW i \in 1 .. l
    PROVE  LET span == rows'[i].start .. rows'[i].end
           IN  /\ \A j \in span : sbars'[j].high <= rows'[i].high /\ sbars'[j].low >= rows'[i].low
               /\ \E j \in span : sbars'[j].high = rows'[i].high
               /\ \E j \in span : sbars'[j].low = rows'[i].low
  BY <1>5 DEF RangeIsEnvelope
<1>6. CASE i < l
  <2>1. i \in 1 .. l - 1 /\ i \in 1 .. Len(rows)
    BY <1>5, <1>1, <1>6
  <2>2. /\ rows'[i].start = rows[i].start /\ rows'[i].end = rows[i].end
        /\ rows'[i].high = rows[i].high /\ rows'[i].low = rows[i].low
    BY <1>2, <2>1 DEF StepShape
  <2>3. \A j \in rows[i].start .. rows[i].end : j \in 1 .. Len(sbars)
    BY <1>1, <1>3, <2>1 DEF SpansOrdered
  <2> QED BY <1>3, <2>1, <2>2, <2>3, ZenonT(30) DEF RangeIsEnvelope
<1>7. CASE i = l
  <2>1. /\ rows'[l].start = (IF k = 0 THEN n ELSE rows[l].start)
        /\ rows'[l].end = n /\ rows'[l].high = m.high /\ rows'[l].low = m.low
    BY <1>2 DEF StepShape
  <2>2. /\ m.high \in Int /\ b.high <= m.high
        /\ \A p \in l .. Len(rows) : rows[p].high <= m.high
        /\ m.high = b.high \/ \E p \in l .. Len(rows) : m.high = rows[p].high
    BY <1>1, MergedRange DEF Popped
  <2>3. /\ m.low \in Int /\ m.low <= b.low
        /\ \A p \in l .. Len(rows) : m.low <= rows[p].low
        /\ m.low = b.low \/ \E p \in l .. Len(rows) : m.low = rows[p].low
    BY <1>1, MergedRange DEF Popped
  <2>4. k # 0 => l \in 1 .. Len(rows)
    BY <1>1
  <2>5. k = 0 => l .. Len(rows) = {}
    BY <1>1
  <2>6. rows'[l].start \in Nat \ {0} /\ rows'[l].start <= n
    <3>1. CASE k = 0 BY <3>1, <2>1, <1>3
    <3>2. CASE k # 0
      <4>1. rows[l].start <= rows[l].end /\ rows[l].end <= Len(sbars)
        BY <2>4, <3>2 DEF Partition, SpansOrdered
      <4> QED BY <4>1, <3>2, <2>1, <2>4, <1>1, <1>3
    <3> QED BY <3>1, <3>2
  <2> DEFINE span == rows'[l].start .. n
  <2>7. n \in span
    BY <2>6, <1>3
  <2>8. \A p \in l .. Len(rows) : \A j \in rows[p].start .. rows[p].end :
            j \in span /\ j \in 1 .. Len(sbars)
    <3> SUFFICES ASSUME NEW p \in l .. Len(rows), NEW j \in rows[p].start .. rows[p].end
                 PROVE  j \in span /\ j \in 1 .. Len(sbars)
      OBVIOUS
    <3>1. k # 0 /\ p \in 1 .. Len(rows) /\ l \in 1 .. Len(rows) BY <2>4, <2>5, <1>5
    <3>2. rows[p].end <= Len(sbars) BY <3>1 DEF SpansOrdered
    <3>3. rows[l].start <= rows[p].start
      <4>1. CASE p = l BY <4>1, <1>1, <3>1
      <4>2. CASE l < p
        <5>1. rows[l].end < rows[p].start BY <4>2, <3>1 DEF SpansOrdered
        <5>2. rows[l].start <= rows[l].end BY <3>1 DEF Partition
        <5>3. /\ rows[l].start \in Nat /\ rows[l].end \in Nat /\ rows[p].start \in Nat
          BY <3>1, <1>1 DEF Partition
        <5> QED BY <5>1, <5>2, <5>3
      <4> QED BY <4>1, <4>2, <1>1, <3>1
    <3>4. rows'[l].start = rows[l].start BY <3>1, <2>1
    <3>5. /\ rows[l].start \in Nat \ {0} /\ rows[p].start \in Nat /\ rows[p].end \in Nat
          /\ Len(sbars) \in Nat /\ j \in Int
      BY <3>1, <1>1 DEF Partition
    <3>6. rows[l].start <= j /\ j <= Len(sbars) /\ 1 <= j BY <3>2, <3>3, <3>5, SMTT(30)
    <3>7. n \in Nat /\ Len(sbars) < n BY <3>5, <1>3
    <3> QED BY <3>4, <3>5, <3>6, <3>7
  <2>9. \A j \in span : j = n \/ \E p \in l .. Len(rows) : j \in rows[p].start .. rows[p].end
    <3> SUFFICES ASSUME NEW j \in span, j # n
                 PROVE  \E p \in l .. Len(rows) : j \in rows[p].start .. rows[p].end
      OBVIOUS
    <3>1. j \in rows'[l].start .. Len(sbars) BY <2>6, <1>3
    <3>2. k # 0 BY <3>1, <2>1, <1>3
    <3> QED BY <3>1, <3>2, <2>1, <2>4, SpanCovers
  <2>10. \A j \in span : sbars'[j].high <= m.high /\ sbars'[j].low >= m.low
    <3> SUFFICES ASSUME NEW j \in span
                 PROVE  sbars'[j].high <= m.high /\ sbars'[j].low >= m.low
      OBVIOUS
    <3>1. CASE j = n BY <3>1, <1>3, <1>4, <2>2, <2>3
    <3>2. CASE j # n
      <4>1. PICK p \in l .. Len(rows) : j \in rows[p].start .. rows[p].end
        BY <2>9, <3>2
      <4>2. p \in 1 .. Len(rows) /\ j \in 1 .. Len(sbars) BY <4>1, <1>5, <2>8
      <4>3. sbars[j].high <= rows[p].high /\ sbars[j].low >= rows[p].low
        BY <4>1, <4>2 DEF RangeIsEnvelope
      <4>4. rows[p].high <= m.high /\ m.low <= rows[p].low BY <2>2, <2>3
      <4>5. sbars'[j] = sbars[j] /\ sbars[j].high \in Int /\ sbars[j].low \in Int
        BY <4>2, <1>3, <1>4
      <4>6. rows[p].high \in Int /\ rows[p].low \in Int /\ m.high \in Int /\ m.low \in Int
        BY <4>2, <1>1, <2>2, <2>3
      <4> QED BY ONLY <4>3, <4>4, <4>5, <4>6, SMTT(30)
    <3> QED BY <3>1, <3>2
  <2>11. \E j \in span : sbars'[j].high = m.high
    <3>1. CASE m.high = b.high BY <3>1, <2>7, <1>3
    <3>2. CASE \E p \in l .. Len(rows) : m.high = rows[p].high
      <4>1. PICK p \in l .. Len(rows) : m.high = rows[p].high BY <3>2
      <4>2. PICK j \in rows[p].start .. rows[p].end : sbars[j].high = rows[p].high
        BY <1>5 DEF RangeIsEnvelope
      <4> QED BY <4>1, <4>2, <2>8, <1>3
    <3> QED BY <3>1, <3>2, <2>2
  <2>12. \E j \in span : sbars'[j].low = m.low
    <3>1. CASE m.low = b.low BY <3>1, <2>7, <1>3
    <3>2. CASE \E p \in l .. Len(rows) : m.low = rows[p].low
      <4>1. PICK p \in l .. Len(rows) : m.low = rows[p].low BY <3>2
      <4>2. PICK j \in rows[p].start .. rows[p].end : sbars[j].low = rows[p].low
        BY <1>5 DEF RangeIsEnvelope
      <4> QED BY <4>1, <4>2, <2>8, <1>3
    <3> QED BY <3>1, <3>2, <2>3
  <2> HIDE DEF m, n
  <2> QED BY <2>1, <2>10, <2>11, <2>12, <1>7
<1> QED BY <1>5, <1>6, <1>7

\* The new row has the next id of the generator, the others keep theirs.
LEMMA IdsStep ==
    ASSUME CBarTypeOK, IdsIncrease, NEW b \in Bars, OnSBar(b)
    PROVE  IdsIncrease'
<1>1. /\ rows \in Seq(CBarRow) /\ Len(rows) \in Nat /\ cbarIds \in Nat
      /\ \A i \in 1 .. Len(rows) : rows[i].id \in Nat
  BY RowTypes DEF CBarTypeOK
<1>2. PICK k \in 0 .. Len(rows) : StepShape(b, k)
  BY OnSBarShape
<1> DEFINE l == Len(rows) - k + 1
<1>3. /\ Len(rows') = l /\ rows'[l].id = cbarIds + 1
      /\ \A i \in 1 .. l - 1 : rows'[i].id = rows[i].id /\ i \in 1 .. Len(rows)
      /\ l \in Nat
  BY <1>1, <1>2 DEF StepShape
<1>4. cbarIds' = cbarIds + 1
  BY DEF OnSBar
<1> HIDE DEF l
<1>5. \A i \in 1 .. l : i = l \/ i \in 1 .. l - 1
  BY <1>3
<1>6. \A i \in 1 .. l - 1 : rows'[i].id \in Nat /\ rows'[i].id <= cbarIds
  BY <1>1, <1>3 DEF IdsIncrease
<1>7. \A i \in 1 .. l : rows'[i].id <= cbarIds'
  BY <1>1, <1>3, <1>4, <1>5, <1>6
<1>8. \A i, j \in 1 .. l : i < j => rows'[i].id < rows'[j].id
  <2> SUFFICES ASSUME NEW i \in 1 .. l, NEW j \in 1 .. l, i < j
               PROVE  rows'[i].id < rows'[j].id
    OBVIOUS
  <2>1. i \in 1 .. l - 1
    BY <1>3
  <2>2. CASE j = l
    BY <2>1, <2>2, <1>1, <1>3, <1>6
  <2>3. CASE j \in 1 .. l - 1
    BY <2>1, <2>3, <1>3 DEF IdsIncrease
  <2> QED BY <2>2, <2>3, <1>5
<1> QED BY <1>3, <1>7, <1>8 DEF IdsIncrease

\* One append takes the invariant to the invariant.
LEMMA NextInv == CBarInv /\ [CBarNext]_cbarVars => CBarInv'
<1> SUFFICES ASSUME CBarInv, [CBarNext]_cbarVars PROVE CBarInv'
  OBVIOUS
<1>1. CASE CBarNext
  <2>1. PICK b \in Bars : OnSBar(b)
    BY <1>1 DEF CBarNext
  <2>2. CBarTypeOK'
    BY <2>1, TypeStep DEF CBarInv
  <2>3. SpansOrdered' /\ Partition'
    BY <2>1, SpansStep DEF CBarInv
  <2>4. IdsIncrease'
    BY <2>1, IdsStep DEF CBarInv
  <2>5. LabelsCurrent'
    BY <2>1, OnSBarShape DEF CBarInv, LabelsCurrent
  <2>6. NonInclusive'
    BY <2>1, NonInclusiveStep DEF CBarInv
  <2>7. RangeIsEnvelope'
    BY <2>1, EnvelopeStep DEF CBarInv
  <2> QED BY <2>2, <2>3, <2>4, <2>5, <2>6, <2>7 DEF CBarInv
<1>2. CASE UNCHANGED cbarVars
  <2>1. sbars' = sbars /\ rows' = rows /\ cbarIds' = cbarIds /\ backtrack' = backtrack
    BY <1>2 DEF cbarVars
  <2> QED BY <2>1 DEF CBarInv, CBarTypeOK, SpansOrdered, IdsIncrease, LabelsCurrent,
                      LabelAt, Partition, NonInclusive, RangeIsEnvelope
<1> QED BY <1>1, <1>2

\* The invariant holds throughout: every theorem below rests on it.
THEOREM InvHolds == CBarSpec => []CBarInv
<1>1. CBarInit => CBarInv
  BY InitInv
<1>2. CBarInv /\ [CBarNext]_cbarVars => CBarInv'
  BY NextInv
<1> QED BY <1>1, <1>2, PTL DEF CBarSpec

\* Whatever bars arrive, the two managers' state is well typed.
THEOREM TypeCorrect == CBarSpec => []CBarTypeOK
<1>1. CBarInv => CBarTypeOK
  BY DEF CBarInv
<1> QED BY <1>1, InvHolds, PTL

\* The rows cut the bars into consecutive stretches, however many bars arrive
\* and however many rows a merge swallows.
THEOREM PartitionHolds == CBarSpec => []Partition
<1>1. CBarInv => Partition
  BY DEF CBarInv
<1> QED BY <1>1, InvHolds, PTL

\* Neighbouring rows never contain one another: the defining promise of the
\* layer, kept by merging on until the row before is clear.
THEOREM NonInclusiveHolds == CBarSpec => []NonInclusive
<1>1. CBarInv => NonInclusive
  BY DEF CBarInv
<1> QED BY <1>1, InvHolds, PTL

\* A row's range is exactly the envelope of its bars.
THEOREM EnvelopeHolds == CBarSpec => []RangeIsEnvelope
<1>1. CBarInv => RangeIsEnvelope
  BY DEF CBarInv
<1> QED BY <1>1, InvHolds, PTL

\* A label means strictly higher (lower) than both neighbours on both sides:
\* verify compares with ties allowed, NonInclusive leaves it none.
THEOREM FractalsStrictHolds == CBarSpec => []FractalsStrict
<1>1. CBarInv => FractalsStrict
  <2> SUFFICES ASSUME CBarInv, NEW i \in 1 .. Len(rows), rows[i].fractal # "none"
               PROVE  /\ 1 < i /\ i < Len(rows)
                      /\ rows[i].fractal = "top" => \A n \in {i - 1, i + 1} :
                             rows[n].high < rows[i].high /\ rows[n].low < rows[i].low
                      /\ rows[i].fractal = "bottom" => \A n \in {i - 1, i + 1} :
                             rows[n].high > rows[i].high /\ rows[n].low > rows[i].low
    BY DEF FractalsStrict
  <2>1. rows[i].fractal = LabelAt(rows, i)
    BY DEF CBarInv, LabelsCurrent
  <2>2. 1 < i /\ i < Len(rows)
    BY <2>1 DEF LabelAt
  <2>3. rows \in Seq(CBarRow)
    BY DEF CBarInv, CBarTypeOK
  <2>4. i - 1 \in 1 .. Len(rows) - 1 /\ i \in 1 .. Len(rows) - 1 /\ i + 1 \in 1 .. Len(rows)
    BY <2>2, <2>3
  <2>5. \A n \in {i - 1, i, i + 1} : rows[n].high \in Int /\ rows[n].low \in Int
    BY <2>3, <2>4, RowTypes
  <2>6. ~Inclusive(rows[i - 1], rows[i]) /\ ~Inclusive(rows[i], rows[i + 1])
    <3>1. \A p \in 1 .. Len(rows) - 1 : ~Inclusive(rows[p], rows[p + 1])
      BY DEF CBarInv, NonInclusive
    <3>2. (i - 1) + 1 = i
      BY <2>4
    <3> QED BY <3>1, <3>2, <2>4
  <2>7. rows[i].fractal = Verify(rows[i - 1], rows[i], rows[i + 1])
    BY <2>1, <2>2 DEF LabelAt
  <2>8. rows[i].fractal = "top" => IsTop(rows[i - 1], rows[i], rows[i + 1])
    BY <2>7 DEF Verify
  <2>9. rows[i].fractal = "bottom" => IsBottom(rows[i - 1], rows[i], rows[i + 1])
    BY <2>7 DEF Verify
  <2> QED BY <2>2, <2>5, <2>6, <2>8, <2>9, SMTT(30) DEF IsTop, IsBottom, Inclusive
<1> QED BY <1>1, InvHolds, PTL

\* An id, once given to a row, never comes to mean another place, span or
\* range, however many rows are merged away in between.
THEOREM IdsStableHolds == CBarSpec => IdsStable
<1> DEFINE Same(i, j) ==
             rows[i].id = rows'[j].id =>
                 i = j /\ [rows[i] EXCEPT !.fractal = "none"]
                          = [rows'[j] EXCEPT !.fractal = "none"]
<1>1. ASSUME CBarInv, NEW b \in Bars, OnSBar(b),
             NEW i \in 1 .. Len(rows), NEW j \in 1 .. Len(rows')
      PROVE  Same(i, j)
  <2>1. /\ rows \in Seq(CBarRow) /\ Len(rows) \in Nat /\ cbarIds \in Nat
        /\ \A p \in 1 .. Len(rows) : rows[p].id \in Nat /\ rows[p] \in CBarRow
    BY <1>1, RowTypes DEF CBarInv, CBarTypeOK
  <2>2. rows' \in Seq(CBarRow)
    BY <1>1, OnSBarShape DEF CBarInv
  <2>3. PICK k \in 0 .. Len(rows) : StepShape(b, k)
    BY <1>1, OnSBarShape DEF CBarInv
  <2> DEFINE l == Len(rows) - k + 1
  <2>4. Len(rows') = l
    BY <2>3 DEF StepShape
  <2>5. CASE j = l
    <3>1. rows'[j].id = cbarIds + 1 BY <2>3, <2>5 DEF StepShape
    <3>2. rows[i].id <= cbarIds BY <1>1 DEF CBarInv, IdsIncrease
    <3>3. rows[i].id \in Nat BY <2>1
    <3> QED BY <2>1, <3>1, <3>2, <3>3
  <2>6. CASE j \in 1 .. l - 1
    <3>1. j \in 1 .. Len(rows)
      BY <2>1, <2>6
    <3>2. /\ rows'[j].id = rows[j].id
          /\ rows'[j].start = rows[j].start /\ rows'[j].end = rows[j].end
          /\ rows'[j].high = rows[j].high /\ rows'[j].low = rows[j].low
      BY <2>3, <2>6 DEF StepShape
    <3>3. rows[i].id = rows[j].id => i = j
      BY <1>1, <2>1, <3>1 DEF CBarInv, IdsIncrease
    <3>4. rows[j] \in CBarRow /\ rows'[j] \in CBarRow
      BY <2>1, <2>2, <3>1
    <3>5. [rows[j] EXCEPT !.fractal = "none"] = [rows'[j] EXCEPT !.fractal = "none"]
      BY <3>2, <3>4 DEF CBarRow
    <3> QED BY <3>2, <3>3, <3>5
  <2> QED BY <2>1, <2>4, <2>5, <2>6
<1>2. CBarInv /\ [CBarNext]_cbarVars =>
        [\A i \in 1 .. Len(rows), j \in 1 .. Len(rows') : Same(i, j)]_cbarVars
  <2> HIDE DEF Same
  <2> QED BY <1>1 DEF CBarNext
<1> QED BY <1>2, InvHolds, PTL DEF CBarSpec, IdsStable

\* A subscriber that drops its copy from the reported row on misses no change.
THEOREM BacktrackSoundHolds == CBarSpec => BacktrackSound
<1> DEFINE kept == IF backtrack' = NoId THEN Len(rows)
                   ELSE IndexOf(rows, backtrack') - 1
           Sound == /\ kept <= Len(rows')
                    /\ \A i \in 1 .. kept : rows'[i] = rows[i]
<1>1. ASSUME CBarInv, NEW b \in Bars, OnSBar(b)
      PROVE  Sound
  <2>1. /\ rows \in Seq(CBarRow) /\ Len(rows) \in Nat
        /\ \A p \in 1 .. Len(rows) : rows[p].id \in Nat \ {0}
    BY <1>1, RowTypes DEF CBarInv, CBarTypeOK
  <2>2. rows' \in Seq(CBarRow) /\ Len(rows') \in Nat
    BY <1>1, OnSBarShape DEF CBarInv
  <2>3. \A p, q \in 1 .. Len(rows) : rows[p].id = rows[q].id => p = q
    BY <1>1, <2>1 DEF CBarInv, IdsIncrease
  <2>4. \A p \in 1 .. Len(rows) : IndexOf(rows, rows[p].id) = p
    <3> SUFFICES ASSUME NEW p \in 1 .. Len(rows) PROVE IndexOf(rows, rows[p].id) = p
      OBVIOUS
    <3> DEFINE H == {i \in 1 .. Len(rows) : rows[i].id = rows[p].id}
    <3>1. H = {p} BY <2>3
    <3>2. IndexOf(rows, rows[p].id) = Min(H) BY DEF IndexOf
    <3>3. H \in SUBSET Nat /\ H # {} BY <3>1, <2>1
    <3>4. Min(H) \in H
      <4> HIDE DEF H
      <4> QED BY <3>3, MinNat
    <3> QED BY <3>1, <3>2, <3>4
  <2> DEFINE n == IF Len(rows) < Len(rows') THEN Len(rows) ELSE Len(rows')
             changed == {i \in 1 .. n : rows[i] # rows'[i]}
  <2>5. n \in Nat /\ n <= Len(rows) /\ n <= Len(rows')
    BY <2>1, <2>2
  <2>6. backtrack' = IF changed # {} THEN rows[Min(changed)].id
                     ELSE IF Len(rows) > Len(rows') THEN rows[n + 1].id ELSE NoId
    BY <1>1 DEF OnSBar, FirstChangedId
  <2>7. CASE changed # {}
    <3>1. changed \in SUBSET Nat BY <2>5
    <3>2. Min(changed) \in changed /\ \A i \in changed : Min(changed) <= i
      <4> HIDE DEF changed
      <4> QED BY <2>7, <3>1, MinNat
    <3> DEFINE c == Min(changed)
    <3>3. c \in 1 .. n /\ c \in 1 .. Len(rows) BY <3>2, <2>5
    <3>4. \A i \in 1 .. c - 1 : rows'[i] = rows[i]
      <4> SUFFICES ASSUME NEW i \in 1 .. c - 1 PROVE rows'[i] = rows[i]
        OBVIOUS
      <4>1. i \in 1 .. n /\ i < c BY <3>3, <2>5
      <4>2. i \notin changed
        <5>1. c \in Nat /\ i \in Nat BY <3>3, <4>1
        <5> HIDE DEF changed
        <5> QED BY <3>2, <4>1, <5>1
      <4> QED BY <4>1, <4>2
    <3>5. backtrack' = rows[c].id BY <2>6, <2>7
    <3> HIDE DEF c
    <3>6. backtrack' # NoId /\ IndexOf(rows, backtrack') = c
      BY <3>3, <3>5, <2>1, <2>4 DEF NoId
    <3>7. kept = c - 1 BY <3>6
    <3> QED BY <3>3, <3>4, <3>7, <2>5
  <2>8. CASE changed = {} /\ Len(rows) > Len(rows')
    <3>1. n = Len(rows') /\ n + 1 \in 1 .. Len(rows) BY <2>1, <2>2, <2>8
    <3>2. backtrack' = rows[n + 1].id BY <2>6, <2>8
    <3>3. \A i \in 1 .. n : rows'[i] = rows[i] BY <2>8
    <3> HIDE DEF n
    <3>4. backtrack' # NoId /\ IndexOf(rows, backtrack') = n + 1
      BY <3>1, <3>2, <2>1, <2>4 DEF NoId
    <3>5. kept = n BY <3>4, <2>5
    <3> QED BY <3>1, <3>3, <3>5, <2>2
  <2>9. CASE changed = {} /\ ~(Len(rows) > Len(rows'))
    <3>1. kept = Len(rows) BY <2>6, <2>9
    <3>2. n = Len(rows) BY <2>1, <2>2, <2>9
    <3> QED BY <3>1, <3>2, <2>1, <2>2, <2>9
  <2> QED BY <2>7, <2>8, <2>9
<1>2. CBarInv /\ [CBarNext]_cbarVars => [Sound]_cbarVars
  <2> HIDE DEF Sound
  <2> QED BY <1>1 DEF CBarNext
<1> QED BY <1>2, InvHolds, PTL DEF CBarSpec, BacktrackSound

-----------------------------------------------------------------------------
(* The rebuild of the swings: the loop.                                    *)

Begun(ids) == [w |-> <<>>, ids |-> ids, candRow |-> 0, candPivot |-> 0]

\* What one turn of the loop does to what it has built.
Turn(cs, s, p) == IF Kind(cs, p) = "none" THEN s ELSE Visited(cs, s, p)

\* The loop can be run: each turn is defined by the one before it.
LEMMA WalkDefined ==
    ASSUME NEW cs, Len(cs) \in Nat, NEW ids
    PROVE  /\ Walk(cs, ids)[0] = Begun(ids)
           /\ \A p \in 1 .. Len(cs) : Walk(cs, ids)[p] = Turn(cs, Walk(cs, ids)[p - 1], p)
<1> DEFINE Runs(n, f) == f = [p \in 0 .. n |-> IF p = 0 THEN Begun(ids) ELSE Turn(cs, f[p - 1], p)]
           Stuck == {n \in Nat : ~ \E f : Runs(n, f)}
<1>1. Stuck = {}
  <2>1. SUFFICES ASSUME Stuck # {} PROVE FALSE
    OBVIOUS
  <2>2. PICK n \in Stuck : \A m \in Stuck : n <= m
    <3>1. Stuck \in SUBSET Nat
      OBVIOUS
    <3> HIDE DEF Stuck
    <3> QED
      BY <2>1, <3>1, LeastNat
  <2>3. n \in Nat /\ ~ \E f : Runs(n, f)
    OBVIOUS
  <2>4. CASE n = 0
    <3> DEFINE f == [p \in 0 .. 0 |-> Begun(ids)]
    <3>1. \A p \in 0 .. 0 : p = 0
      OBVIOUS
    <3>2. f = [p \in 0 .. 0 |-> IF p = 0 THEN Begun(ids) ELSE Turn(cs, f[p - 1], p)]
      BY <3>1, Zenon
    <3> HIDE DEF f
    <3>3. Runs(0, f)
      BY <3>2
    <3> QED
      BY <2>3, <2>4, <3>3
  <2>5. CASE n # 0
    <3>1. n - 1 \in Nat /\ n - 1 \notin Stuck
      <4>1. n - 1 \in Nat /\ ~ (n <= n - 1)
        BY <2>3, <2>5
      <4> HIDE DEF Stuck
      <4> QED
        BY <2>2, <4>1
    <3>2. PICK g : Runs(n - 1, g)
      BY <3>1
    <3> DEFINE f == [p \in 0 .. n |-> IF p = n THEN Turn(cs, g[n - 1], n) ELSE g[p]]
    <3>3. /\ g[0] = Begun(ids)
          /\ \A p \in 1 .. n - 1 : g[p] = Turn(cs, g[p - 1], p)
      <4>1. g = [p \in 0 .. n - 1 |-> IF p = 0 THEN Begun(ids) ELSE Turn(cs, g[p - 1], p)]
        BY <3>2
      <4>2. 0 \in 0 .. n - 1 /\ \A p \in 1 .. n - 1 : p \in 0 .. n - 1 /\ p # 0
        BY <2>3, <2>5
      <4> QED
        BY <4>1, <4>2, Zenon
    <3>4. \A p \in 0 .. n : f[p] = IF p = 0 THEN Begun(ids) ELSE Turn(cs, f[p - 1], p)
      <4> SUFFICES ASSUME NEW p \in 0 .. n
                   PROVE  f[p] = IF p = 0 THEN Begun(ids) ELSE Turn(cs, f[p - 1], p)
        OBVIOUS
      <4>1. CASE p = 0
        <5>1. f[p] = g[0]
          BY <2>3, <2>5, <4>1
        <5> QED
          BY <3>3, <4>1, <5>1
      <4>2. CASE p = n
        <5>1. f[p] = Turn(cs, g[n - 1], n) /\ f[p - 1] = g[n - 1] /\ p # 0
          BY <2>3, <2>5, <4>2
        <5> QED
          BY <4>2, <5>1
      <4>3. CASE p # 0 /\ p # n
        <5>1. p \in 1 .. n - 1 /\ f[p] = g[p] /\ f[p - 1] = g[p - 1]
          BY <2>3, <4>3
        <5> QED
          BY <3>3, <4>3, <5>1
      <4> QED
        BY <4>1, <4>2, <4>3
    <3>5. Runs(n, f)
      <4>1. f = [p \in 0 .. n |-> f[p]]
        OBVIOUS
      <4> HIDE DEF f
      <4> QED
        BY <3>4, <4>1
    <3> QED
      BY <2>3, <3>5
  <2> QED
    BY <2>4, <2>5
<1>2. \E f : Runs(Len(cs), f)
  BY <1>1
<1>3. Runs(Len(cs), Walk(cs, ids))
  <2>1. Walk(cs, ids) = CHOOSE f : Runs(Len(cs), f)
    BY DEF Walk, Turn, Begun
  <2> HIDE DEF Runs
  <2> QED
    BY <1>2, <2>1
<1> DEFINE f == Walk(cs, ids)
<1>4. f = [p \in 0 .. Len(cs) |-> IF p = 0 THEN Begun(ids) ELSE Turn(cs, f[p - 1], p)]
  BY <1>3
<1>5. 0 \in 0 .. Len(cs) /\ \A p \in 1 .. Len(cs) : p \in 0 .. Len(cs) /\ p # 0
  OBVIOUS
<1> HIDE DEF f
<1>6. f[0] = Begun(ids) /\ \A p \in 1 .. Len(cs) : f[p] = Turn(cs, f[p - 1], p)
  BY <1>4, <1>5, Zenon
<1> QED
  BY <1>6 DEF f

-----------------------------------------------------------------------------
(* Rows without inclusion, and their fractals.                             *)

Separate(cs) ==
    /\ cs \in Seq(CBarRow)
    /\ \A i, j \in 1 .. Len(cs) : i < j => cs[i].id < cs[j].id /\ cs[i].end < cs[j].start
    /\ \A i \in 1 .. Len(cs) : cs[i].start <= cs[i].end
    /\ \A i \in 1 .. Len(cs) - 1 : ~Inclusive(cs[i], cs[i + 1])

\* Prices rise, or fall, from row i to the next.
Rises(cs, i) == cs[i].high < cs[i + 1].high /\ cs[i].low < cs[i + 1].low
Falls(cs, i) == cs[i + 1].high < cs[i].high /\ cs[i + 1].low < cs[i].low

LEMMA RiseOrFall ==
    ASSUME NEW cs, Separate(cs), NEW i \in 1 .. Len(cs) - 1
    PROVE  (Rises(cs, i) \/ Falls(cs, i)) /\ ~ (Rises(cs, i) /\ Falls(cs, i))
<1>1. i \in 1 .. Len(cs) /\ i + 1 \in 1 .. Len(cs) /\ cs \in Seq(CBarRow)
  BY DEF Separate
<1>2. /\ cs[i].high \in Int /\ cs[i].low \in Int
      /\ cs[i + 1].high \in Int /\ cs[i + 1].low \in Int
  BY <1>1, RowTypes
<1>3. ~Inclusive(cs[i], cs[i + 1])
  BY DEF Separate
<1> QED
  BY <1>2, <1>3 DEF Inclusive, Rises, Falls

\* A row is the middle of a fractal where prices turn, and nowhere else.
LEMMA FractalTurns ==
    ASSUME NEW cs, Separate(cs), NEW p \in 1 .. Len(cs)
    PROVE  /\ Kind(cs, p) # "none" => p - 1 \in 1 .. Len(cs) - 1 /\ p \in 1 .. Len(cs) - 1
           /\ 1 < p /\ p < Len(cs) =>
                  /\ Kind(cs, p) = "top" <=> Rises(cs, p - 1) /\ Falls(cs, p)
                  /\ Kind(cs, p) = "bottom" <=> Falls(cs, p - 1) /\ Rises(cs, p)
                  /\ Kind(cs, p) \in {"top", "bottom", "none"}
<1>1. cs \in Seq(CBarRow) /\ Len(cs) \in Nat
  BY DEF Separate
<1>2. Kind(cs, p) # "none" => 1 < p /\ p < Len(cs)
  BY DEF Kind, LabelAt
<1>3. ASSUME 1 < p, p < Len(cs)
      PROVE  /\ Kind(cs, p) = "top" <=> Rises(cs, p - 1) /\ Falls(cs, p)
             /\ Kind(cs, p) = "bottom" <=> Falls(cs, p - 1) /\ Rises(cs, p)
             /\ Kind(cs, p) \in {"top", "bottom", "none"}
  <2>1. p - 1 \in 1 .. Len(cs) - 1 /\ p \in 1 .. Len(cs) - 1 /\ (p - 1) + 1 = p
        /\ p - 1 \in 1 .. Len(cs) /\ p + 1 \in 1 .. Len(cs)
    BY <1>1, <1>3
  <2>2. /\ Rises(cs, p - 1) \/ Falls(cs, p - 1)
        /\ Rises(cs, p) \/ Falls(cs, p)
    BY <2>1, RiseOrFall
  <2>3. \A q \in {p - 1, p, p + 1} : cs[q].high \in Int /\ cs[q].low \in Int
    BY <1>1, <2>1, RowTypes
  <2>4. Kind(cs, p) = Verify(cs[p - 1], cs[p], cs[p + 1])
    BY <1>3 DEF Kind, LabelAt
  <2>5. /\ IsTop(cs[p - 1], cs[p], cs[p + 1]) <=> Rises(cs, p - 1) /\ Falls(cs, p)
        /\ IsBottom(cs[p - 1], cs[p], cs[p + 1]) <=> Falls(cs, p - 1) /\ Rises(cs, p)
    BY <2>1, <2>2, <2>3, SMTT(30) DEF IsTop, IsBottom, Rises, Falls
  <2>6. ~ (Rises(cs, p) /\ Falls(cs, p))
    BY <2>1, RiseOrFall
  <2> QED
    BY <2>4, <2>5, <2>6 DEF Verify
<1> QED
  BY <1>1, <1>2, <1>3

\* The largest and the smallest of the prices, or ids, of a stretch of rows.
LEMMA StretchMaxMin ==
    ASSUME NEW lo \in Int, NEW hi \in Int, lo <= hi, NEW g \in [lo .. hi -> Int],
           NEW P, \A i \in lo .. hi : g[i] \in P, \A x \in P : \E i \in lo .. hi : x = g[i]
    PROVE  /\ Max(P) \in Int /\ \E i \in lo .. hi : Max(P) = g[i]
           /\ \A i \in lo .. hi : g[i] <= Max(P)
           /\ Min(P) \in Int /\ \E i \in lo .. hi : Min(P) = g[i]
           /\ \A i \in lo .. hi : Min(P) <= g[i]
<1>1. lo \in lo .. hi /\ g[lo] \in P /\ P \in SUBSET Int
  OBVIOUS
<1>2. IsFiniteSet(P)
  <2> DEFINE I == lo .. hi
  <2>1. IsFiniteSet(I)
    BY FS_Interval, Zenon
  <2>2. g \in [I -> P] /\ \A x \in P : \E i \in I : g[i] = x
    OBVIOUS
  <2> HIDE DEF I
  <2>3. g \in Surjection(I, P)
    BY <2>2 DEF Surjection
  <2> QED
    BY <2>1, <2>3, FS_Surjection
<1>3. /\ Max(P) \in P /\ \A x \in P : x <= Max(P)
      /\ Min(P) \in P /\ \A x \in P : Min(P) <= x
  BY <1>1, <1>2, FiniteMaxMin
<1> QED
  BY <1>1, <1>3

\* The high of a fractal is as high as its three rows, the low as low.
LEMMA FractalRange ==
    ASSUME NEW cs, Separate(cs), NEW p \in 1 .. Len(cs), Kind(cs, p) # "none"
    PROVE  /\ High3(cs, p) \in Int /\ Low3(cs, p) \in Int
           /\ \A i \in {p - 1, p, p + 1} :
                  cs[i].high <= High3(cs, p) /\ Low3(cs, p) <= cs[i].low
<1>1. /\ \A i \in p - 1 .. p + 1 : i \in 1 .. Len(cs)
      /\ \A i \in {p - 1, p, p + 1} : i \in p - 1 .. p + 1
  BY FractalTurns
<1>2. \A i \in p - 1 .. p + 1 : cs[i].high \in Int /\ cs[i].low \in Int
  BY <1>1, RowTypes DEF Separate
<1>3. p - 1 \in Int
  OBVIOUS
<1>4. p + 1 \in Int
  OBVIOUS
<1>5. p - 1 <= p + 1
  OBVIOUS
<1>6. /\ High3(cs, p) \in Int
      /\ \A i \in p - 1 .. p + 1 : cs[i].high <= High3(cs, p)
  <2> DEFINE a == p - 1
             b == p + 1
             h == [i \in a .. b |-> cs[i].high]
             P == {cs[i].high : i \in p - 1 .. p + 1}
  <2>1. h \in [a .. b -> Int]
    BY <1>2
  <2>2. (\A i \in a .. b : h[i] \in P) /\ (\A x \in P : \E i \in a .. b : x = h[i])
    OBVIOUS
  <2>3. High3(cs, p) = Max(P)
    BY DEF High3
  <2>4. a \in Int /\ b \in Int /\ a <= b
    OBVIOUS
  <2>5. \A i \in p - 1 .. p + 1 : i \in a .. b /\ h[i] = cs[i].high
    OBVIOUS
  <2> HIDE DEF a, b, h, P
  <2>6. Max(P) \in Int /\ \A i \in a .. b : h[i] <= Max(P)
    BY <2>1, <2>2, <2>4, StretchMaxMin, ZenonT(30)
  <2> QED
    BY <2>3, <2>5, <2>6
<1>7. /\ Low3(cs, p) \in Int
      /\ \A i \in p - 1 .. p + 1 : Low3(cs, p) <= cs[i].low
  <2> DEFINE a == p - 1
             b == p + 1
             l == [i \in a .. b |-> cs[i].low]
             P == {cs[i].low : i \in p - 1 .. p + 1}
  <2>1. l \in [a .. b -> Int]
    BY <1>2
  <2>2. (\A i \in a .. b : l[i] \in P) /\ (\A x \in P : \E i \in a .. b : x = l[i])
    OBVIOUS
  <2>3. Low3(cs, p) = Min(P)
    BY DEF Low3
  <2>4. a \in Int /\ b \in Int /\ a <= b
    OBVIOUS
  <2>5. \A i \in p - 1 .. p + 1 : i \in a .. b /\ l[i] = cs[i].low
    OBVIOUS
  <2> HIDE DEF a, b, l, P
  <2>6. Min(P) \in Int /\ \A i \in a .. b : Min(P) <= l[i]
    BY <2>1, <2>2, <2>4, StretchMaxMin, ZenonT(30)
  <2> QED
    BY <2>3, <2>5, <2>6
<1> QED
  BY <1>1, <1>6, <1>7

-----------------------------------------------------------------------------
(* Stretches of rows.                                                      *)

\* The ids of rows are in the order of the rows.
LEMMA IdsInOrder ==
    ASSUME NEW cs, Separate(cs), NEW i \in 1 .. Len(cs), NEW j \in 1 .. Len(cs)
    PROVE  /\ cs[i].id \in Nat \ {0} /\ cs[i].start \in Nat \ {0} /\ cs[i].end \in Nat \ {0}
           /\ cs[i].id <= cs[j].id <=> i <= j
           /\ cs[i].id = cs[j].id => i = j
           /\ i <= j => cs[i].start <= cs[j].start /\ cs[i].end <= cs[j].end
<1>1. \A k \in {i, j} : /\ cs[k].id \in Nat \ {0}
                        /\ cs[k].start \in Nat \ {0} /\ cs[k].end \in Nat \ {0}
                        /\ cs[k].start <= cs[k].end
  BY RowTypes DEF Separate
<1>2. /\ i < j => cs[i].id < cs[j].id /\ cs[i].end < cs[j].start
      /\ j < i => cs[j].id < cs[i].id
  BY DEF Separate
<1>3. i < j \/ i = j \/ j < i
  OBVIOUS
<1> QED
  BY <1>1, <1>2, <1>3

LEMMA StretchOfIds ==
    ASSUME NEW cs, Separate(cs), NEW a \in 1 .. Len(cs), NEW b \in 1 .. Len(cs), a <= b
    PROVE  RowsBetween(cs, cs[a].id, cs[b].id) = a .. b
<1>1. \A i \in a .. b : i \in 1 .. Len(cs)
  OBVIOUS
<1>2. \A i \in 1 .. Len(cs) : i \in a .. b <=> a <= i /\ i <= b
  OBVIOUS
<1>3. \A i \in 1 .. Len(cs) : /\ cs[a].id <= cs[i].id <=> a <= i
                              /\ cs[i].id <= cs[b].id <=> i <= b
                              /\ cs[b].id <= cs[i].id <=> b <= i
                              /\ cs[i].id <= cs[a].id <=> i <= a
  BY IdsInOrder
<1>4. \A i \in 1 .. Len(cs) :
          (cs[a].id <= cs[i].id /\ cs[i].id <= cs[b].id)
              \/ (cs[b].id <= cs[i].id /\ cs[i].id <= cs[a].id) <=> i \in a .. b
  <2> SUFFICES ASSUME NEW i \in 1 .. Len(cs)
               PROVE  (cs[a].id <= cs[i].id /\ cs[i].id <= cs[b].id)
                          \/ (cs[b].id <= cs[i].id /\ cs[i].id <= cs[a].id) <=> i \in a .. b
    OBVIOUS
  <2>1. b <= i /\ i <= a => a <= i /\ i <= b
    OBVIOUS
  <2> QED
    BY <1>2, <1>3, <2>1, Zenon
<1> QED
  BY <1>1, <1>4 DEF RowsBetween

\* The swing that runs from row a to row e of cs.
TheSwing(cs, id, a, e, H, L, st) ==
    [id |-> id, direction |-> IF Kind(cs, a) = "top" THEN "down" ELSE "up",
     start |-> cs[a].id, end |-> cs[e].id, sstart |-> cs[a].start, send |-> cs[e].end,
     high |-> H, low |-> L, state |-> st]

\* What the steps of the rebuild change in a swing: its range, or its end.
WithRange(w, H, L) == [w EXCEPT !.high = H, !.low = L]

LEMMA RangeChanges ==
    ASSUME NEW cs, NEW id, NEW a, NEW e, NEW H, NEW L, NEW H2, NEW L2, NEW st
    PROVE  WithRange(TheSwing(cs, id, a, e, H, L, st), H2, L2)
               = TheSwing(cs, id, a, e, H2, L2, st)
<1>1. \A h : [TheSwing(cs, id, a, e, H, L, st) EXCEPT !.high = h]
                 = TheSwing(cs, id, a, e, h, L, st)
  BY DEF TheSwing
<1>2. \A l : [TheSwing(cs, id, a, e, H2, L, st) EXCEPT !.low = l]
                 = TheSwing(cs, id, a, e, H2, l, st)
  BY DEF TheSwing
<1>3. WithRange(TheSwing(cs, id, a, e, H, L, st), H2, L2)
          = [[TheSwing(cs, id, a, e, H, L, st) EXCEPT !.high = H2] EXCEPT !.low = L2]
  BY DEF WithRange
<1> QED
  BY <1>1, <1>2, <1>3

LEMMA EndMoves ==
    ASSUME NEW cs, NEW id, NEW a, NEW e, NEW f, NEW H, NEW L, NEW st
    PROVE  EndingAt(cs, TheSwing(cs, id, a, e, H, L, st), f) = TheSwing(cs, id, a, f, H, L, st)
<1> DEFINE d == IF Kind(cs, a) = "top" THEN "down" ELSE "up"
           Only ==
               [id : {id}, direction : {d}, start : {cs[a].id}, end : {cs[f].id},
                sstart : {cs[a].start}, send : {cs[f].end},
                high : {H}, low : {L}, state : {st}]
<1>1. TheSwing(cs, id, a, f, H, L, st) \in Only
  BY DEF TheSwing
<1>2. EndingAt(cs, TheSwing(cs, id, a, e, H, L, st), f) \in Only
  BY DEF TheSwing, EndingAt
<1>3. \A x, y \in Only : x = y
  OBVIOUS
<1> HIDE DEF Only
<1> QED
  BY <1>1, <1>2, <1>3

\* The rows from a to b lie between the prices L and H.
Within(cs, a, b, H, L) == \A i \in a .. b : cs[i].high <= H /\ L <= cs[i].low

\* apply_cbar_range_stats leaves the coordinates of a swing as they are and makes
\* its range that of its rows.
LEMMA StatsOfStretch ==
    ASSUME NEW cs, Separate(cs), NEW a \in 1 .. Len(cs), NEW b \in 1 .. Len(cs), a <= b,
           NEW id, NEW H, NEW L, NEW st
    PROVE  \E H2, L2 \in Int :
               /\ WithStats(cs, TheSwing(cs, id, a, b, H, L, st))
                      = TheSwing(cs, id, a, b, H2, L2, st)
               /\ Within(cs, a, b, H2, L2)
<1> DEFINE w == TheSwing(cs, id, a, b, H, L, st)
           highs == {cs[i].high : i \in a .. b}
           lows == {cs[i].low : i \in a .. b}
           starts == {cs[i].start : i \in a .. b}
           ends == {cs[i].end : i \in a .. b}
<1>1. a \in Int /\ b \in Int /\ a \in a .. b /\ b \in a .. b /\ \A i \in a .. b : i \in 1 .. Len(cs)
  OBVIOUS
<1>2. \A i \in a .. b : /\ cs[i].high \in Int /\ cs[i].low \in Int
                        /\ cs[i].start \in Int /\ cs[i].end \in Int
  BY <1>1, RowTypes DEF Separate
<1>3. Max(highs) \in Int /\ \A i \in a .. b : cs[i].high <= Max(highs)
  <2> DEFINE h == [i \in a .. b |-> cs[i].high]
  <2>1. h \in [a .. b -> Int]
    BY <1>2
  <2>2. (\A i \in a .. b : h[i] \in highs) /\ (\A x \in highs : \E i \in a .. b : x = h[i])
    OBVIOUS
  <2>3. \A i \in a .. b : h[i] = cs[i].high
    OBVIOUS
  <2> HIDE DEF h, highs
  <2>4. Max(highs) \in Int /\ \A i \in a .. b : h[i] <= Max(highs)
    BY <1>1, <2>1, <2>2, StretchMaxMin, ZenonT(30)
  <2> QED
    BY <2>3, <2>4
<1>4. Min(lows) \in Int /\ \A i \in a .. b : Min(lows) <= cs[i].low
  <2> DEFINE l == [i \in a .. b |-> cs[i].low]
  <2>1. l \in [a .. b -> Int]
    BY <1>2
  <2>2. (\A i \in a .. b : l[i] \in lows) /\ (\A x \in lows : \E i \in a .. b : x = l[i])
    OBVIOUS
  <2>3. \A i \in a .. b : l[i] = cs[i].low
    OBVIOUS
  <2> HIDE DEF l, lows
  <2>4. Min(lows) \in Int /\ \A i \in a .. b : Min(lows) <= l[i]
    BY <1>1, <2>1, <2>2, StretchMaxMin, ZenonT(30)
  <2> QED
    BY <2>3, <2>4
<1>5. Min(starts) = cs[a].start
  <2> DEFINE n == [i \in a .. b |-> cs[i].start]
  <2>1. n \in [a .. b -> Int]
    BY <1>2
  <2>2. (\A i \in a .. b : n[i] \in starts) /\ (\A x \in starts : \E i \in a .. b : x = n[i])
    OBVIOUS
  <2>3. \A i \in a .. b : n[i] = cs[i].start
    OBVIOUS
  <2>4. \A i \in a .. b : cs[a].start <= cs[i].start
    BY <1>1, IdsInOrder
  <2> HIDE DEF n, starts
  <2>5. /\ Min(starts) \in Int /\ \E i \in a .. b : Min(starts) = n[i]
        /\ \A i \in a .. b : Min(starts) <= n[i]
    BY <1>1, <2>1, <2>2, StretchMaxMin, SMTT(30)
  <2> QED
    BY <1>1, <1>2, <2>3, <2>4, <2>5
<1>6. Max(ends) = cs[b].end
  <2> DEFINE n == [i \in a .. b |-> cs[i].end]
  <2>1. n \in [a .. b -> Int]
    BY <1>2
  <2>2. (\A i \in a .. b : n[i] \in ends) /\ (\A x \in ends : \E i \in a .. b : x = n[i])
    OBVIOUS
  <2>3. \A i \in a .. b : n[i] = cs[i].end
    OBVIOUS
  <2>4. \A i \in a .. b : cs[i].end <= cs[b].end
    BY <1>1, IdsInOrder
  <2> HIDE DEF n, ends
  <2>5. /\ Max(ends) \in Int /\ \E i \in a .. b : Max(ends) = n[i]
        /\ \A i \in a .. b : n[i] <= Max(ends)
    BY <1>1, <2>1, <2>2, StretchMaxMin, SMTT(30)
  <2> QED
    BY <1>1, <1>2, <2>3, <2>4, <2>5
<1>7. RowsBetween(cs, w.start, w.end) = a .. b
  <2>1. w.start = cs[a].id /\ w.end = cs[b].id
    BY DEF TheSwing
  <2> QED
    BY <2>1, StretchOfIds
<1>8. WithStats(cs, w) = [w EXCEPT !.high = Max(highs), !.low = Min(lows),
                                   !.sstart = Min(starts), !.send = Max(ends)]
  <2>1. a .. b # {}
    BY <1>1
  <2> HIDE DEF w
  <2> QED
    BY <1>7, <2>1 DEF WithStats
<1> HIDE DEF highs, lows, starts, ends
<1>9. WithStats(cs, w) = TheSwing(cs, id, a, b, Max(highs), Min(lows), st)
  BY <1>5, <1>6, <1>8, ZenonT(30) DEF TheSwing
<1> QED
  BY <1>3, <1>4, <1>9 DEF Within

-----------------------------------------------------------------------------
(* Fractals by their middle row, and the first of them.                    *)

\* find_fractal_by_middle_id finds a fractal by its middle row.
LEMMA PivotFound ==
    ASSUME NEW cs, Separate(cs), NEW a \in 1 .. Len(cs), Kind(cs, a) # "none"
    PROVE  PivotOf(cs, cs[a].id) = a
<1> DEFINE found == {p \in Pivots(cs) : cs[p].id = cs[a].id}
<1>1. found = {a}
  <2>1. a \in found
    BY DEF Pivots, Kind
  <2>2. \A p \in found : p = a
    BY IdsInOrder DEF Pivots
  <2> HIDE DEF found
  <2> QED
    BY <2>1, <2>2
<1>2. Min(found) = a
  <2>1. found \in SUBSET Nat /\ found # {}
    BY <1>1
  <2> HIDE DEF found
  <2> QED
    BY <1>1, <2>1, MinNat
<1> QED
  BY <1>1, <1>2 DEF PivotOf

\* There is no fractal before row a.
NoneBefore(cs, a) == \A q \in 1 .. a - 1 : Kind(cs, q) = "none"

\* No fractal lies before the first one, so that there is no reference to break.
LEMMA FirstHasNoReference ==
    ASSUME NEW cs, Separate(cs), NEW a \in 1 .. Len(cs), NoneBefore(cs, a), NEW q, NEW d
    PROVE  ~BreaksReference(cs, a, q, d)
<1>1. {p \in Pivots(cs) : cs[p].id < cs[a].id /\ Kind(cs, p) = EndKind(d)} = {}
  <2> SUFFICES ASSUME NEW p \in Pivots(cs), cs[p].id < cs[a].id
               PROVE  FALSE
    OBVIOUS
  <2>1. p \in 1 .. Len(cs) /\ Kind(cs, p) # "none"
    BY DEF Pivots, Kind
  <2>2. ~ (a <= p)
    BY <2>1, IdsInOrder
  <2>3. p \in 1 .. a - 1
    BY <2>1, <2>2
  <2> QED
    BY <2>1, <2>3 DEF NoneBefore
<1>2. LatestBefore(cs, a, EndKind(d)) = 0
  BY <1>1 DEF LatestBefore
<1> QED
  BY <1>2 DEF BreaksReference

-----------------------------------------------------------------------------
(* One turn of the loop.                                                   *)

\* What the loop has built while the only swing runs from row a to row e.
OneSwing(cs, id, a, e, H, L) ==
    [w |-> <<TheSwing(cs, id, a, e, H, L, "forming")>>, ids |-> id,
     candRow |-> 0, candPivot |-> 0]

\* The first fractal opens a swing that ends at the row to the right of it.
LEMMA FirstFractalOpens ==
    ASSUME NEW cs, Separate(cs), NEW ids, NEW p \in 1 .. Len(cs), Kind(cs, p) # "none"
    PROVE  \E H, L \in Int :
               /\ Visited(cs, Begun(ids), p) = OneSwing(cs, ids + 1, p, p + 1, H, L)
               /\ Within(cs, p, p + 1, H, L)
<1> DEFINE H == Max({cs[p].high, cs[p + 1].high})
           L == Min({cs[p].low, cs[p + 1].low})
           row == TheSwing(cs, ids + 1, p, p + 1, H, L, "forming")
<1>1. p \in 1 .. Len(cs) /\ p + 1 \in 1 .. Len(cs)
  BY FractalTurns
<1>2. /\ cs[p].high \in Int /\ cs[p + 1].high \in Int
      /\ cs[p].low \in Int /\ cs[p + 1].low \in Int
  BY <1>1, RowTypes DEF Separate
<1>3. /\ H \in Int /\ cs[p].high <= H /\ cs[p + 1].high <= H
      /\ L \in Int /\ L <= cs[p].low /\ L <= cs[p + 1].low
  BY <1>2, PairMaxMin
<1>4. Opened(cs, Begun(ids), p) = [Begun(ids) EXCEPT !.ids = ids + 1, !.w = Append(<<>>, row)]
  BY DEF Opened, Begun, TheSwing
<1>5. Visited(cs, Begun(ids), p) = Opened(cs, Begun(ids), p)
  <2>1. Begun(ids).w = <<>>
    BY DEF Begun
  <2> QED
    BY <2>1 DEF Visited
<1>6. Append(<<>>, row) = <<row>>
  OBVIOUS
<1>7. Visited(cs, Begun(ids), p) = OneSwing(cs, ids + 1, p, p + 1, H, L)
  <2> HIDE DEF H, L
  <2> QED
    BY <1>4, <1>5, <1>6 DEF Begun, OneSwing
<1>8. Within(cs, p, p + 1, H, L)
  <2>1. \A i \in p .. p + 1 : i = p \/ i = p + 1
    OBVIOUS
  <2> HIDE DEF H, L
  <2> QED
    BY <1>3, <2>1 DEF Within
<1> HIDE DEF H, L, row
<1> QED
  BY <1>3, <1>7, <1>8

\* A later fractal moves the end of the swing, to itself or to the row on its right;
\* the gate of the bootstrap phase, which asks for a reference before the first
\* fractal, keeps it from ending the swing.
LEMMA SwingGoesOn ==
    ASSUME NEW cs, Separate(cs), NEW id, NEW a \in 1 .. Len(cs), NEW e, NEW H \in Int,
           NEW L \in Int, NEW p \in 1 .. Len(cs),
           Kind(cs, a) # "none", NoneBefore(cs, a), a < p, Kind(cs, p) # "none"
    PROVE  \E f \in {p, p + 1}, H2, L2 \in Int :
               /\ Visited(cs, OneSwing(cs, id, a, e, H, L), p) = OneSwing(cs, id, a, f, H2, L2)
               /\ \/ /\ H <= H2 /\ L2 <= L
                     /\ Within(cs, p - 1, p + 1, H2, L2)
                  \/ Within(cs, a, p + 1, H2, L2)
<1> DEFINE s == OneSwing(cs, id, a, e, H, L)
           H1 == Max({H, High3(cs, p)})
           L1 == Min({L, Low3(cs, p)})
           act == TheSwing(cs, id, a, e, H1, L1, "forming")
           completed == TheSwing(cs, id, a, p, H1, L1, "forming")
<1>1. p + 1 \in 1 .. Len(cs) /\ a <= p + 1
  BY FractalTurns
<1>2. /\ High3(cs, p) \in Int /\ Low3(cs, p) \in Int
      /\ \A i \in {p - 1, p, p + 1} : cs[i].high <= High3(cs, p) /\ Low3(cs, p) <= cs[i].low
  BY FractalRange
<1>3. /\ H1 \in Int /\ H <= H1 /\ High3(cs, p) <= H1
      /\ L1 \in Int /\ L1 <= L /\ L1 <= Low3(cs, p)
  BY <1>2, PairMaxMin
<1>4. Within(cs, p - 1, p + 1, H1, L1)
  <2>1. \A i \in p - 1 .. p + 1 : i \in {p - 1, p, p + 1} /\ i \in 1 .. Len(cs)
    BY <1>1, FractalTurns
  <2>2. \A i \in p - 1 .. p + 1 : cs[i].high \in Int /\ cs[i].low \in Int
    BY <2>1, RowTypes DEF Separate
  <2> HIDE DEF H1, L1
  <2> SUFFICES ASSUME NEW i \in p - 1 .. p + 1
               PROVE  cs[i].high <= H1 /\ L1 <= cs[i].low
    BY DEF Within
  <2>3. cs[i].high \in Int /\ cs[i].low \in Int
    BY <2>2
  <2>4. cs[i].high <= High3(cs, p) /\ Low3(cs, p) <= cs[i].low
    BY <1>2, <2>1
  <2> QED
    BY <1>2, <1>3, <2>3, <2>4, SMTT(30)
<1>5. /\ s.w = <<TheSwing(cs, id, a, e, H, L, "forming")>> /\ Len(s.w) = 1 /\ s.w # <<>>
      /\ s.w[1] = TheSwing(cs, id, a, e, H, L, "forming")
      /\ s.candRow = 0
  BY DEF OneSwing
<1>6. Widened(cs, s.w[1], p) = act
  <2>1. TheSwing(cs, id, a, e, H, L, "forming").high = H
        /\ TheSwing(cs, id, a, e, H, L, "forming").low = L
    BY DEF TheSwing
  <2>2. Widened(cs, s.w[1], p)
            = WithRange(TheSwing(cs, id, a, e, H, L, "forming"), H1, L1)
    BY <1>5, <2>1 DEF Widened, WithRange
  <2>3. \A h, l : WithRange(TheSwing(cs, id, a, e, H, L, "forming"), h, l)
                      = TheSwing(cs, id, a, e, h, l, "forming")
    BY RangeChanges
  <2> QED
    BY <2>2, <2>3
<1> HIDE DEF H1, L1
<1>7. /\ EndingAt(cs, act, p) = completed
      /\ EndingAt(cs, act, p + 1) = TheSwing(cs, id, a, p + 1, H1, L1, "forming")
  <2>1. \A f, h, l : EndingAt(cs, TheSwing(cs, id, a, e, h, l, "forming"), f)
                         = TheSwing(cs, id, a, f, h, l, "forming")
    BY EndMoves
  <2>2. EndingAt(cs, act, p) = completed
    BY <2>1
  <2>3. EndingAt(cs, act, p + 1) = TheSwing(cs, id, a, p + 1, H1, L1, "forming")
    BY <2>1
  <2> QED
    BY <2>2, <2>3
<1>8. \A f, H2, L2 :
          [s EXCEPT !.w[1] = TheSwing(cs, id, a, f, H2, L2, "forming")]
              = OneSwing(cs, id, a, f, H2, L2)
  BY DEF OneSwing
<1>9. \A f, H2, L2 :
          [TheSwing(cs, id, a, f, H2, L2, "forming") EXCEPT !.state = "forming"]
              = TheSwing(cs, id, a, f, H2, L2, "forming")
  BY DEF TheSwing
<1>10. act.start = cs[a].id /\ act.direction \in Directions
  BY DEF TheSwing, Directions
<1> HIDE DEF s, act, completed
<1>11. CASE MustExtend(cs, act, p)
  <2>1. Visited(cs, s, p) = [s EXCEPT !.w[1] = [completed EXCEPT !.state = "forming"]]
    BY <1>5, <1>6, <1>7, <1>11 DEF Visited
  <2>2. Visited(cs, s, p) = OneSwing(cs, id, a, p, H1, L1)
    BY <1>8, <1>9, <2>1 DEF completed
  <2> QED
    BY <1>3, <1>4, <2>2 DEF s
<1>12. CASE ~MustExtend(cs, act, p)
  <2>1. Kind(cs, p) = EndKind(act.direction)
    BY <1>12 DEF MustExtend
  <2>2. ~BreaksCandidate(cs, s, p) /\ ~ResumesPrevious(cs, s, act, p)
    BY <1>5 DEF BreaksCandidate, ResumesPrevious
  <2>3. ~Determined(cs, s, act, completed, p)
    BY <1>5, <1>10, PivotFound, FirstHasNoReference DEF Determined
  <2>4. ~Reanchors(cs, s, act, p)
    BY <1>10, <2>1 DEF Reanchors, StartKind, EndKind, Directions
  <2>5. Visited(cs, s, p) = Kept(cs, s, act, p)
    BY <1>5, <1>6, <1>7, <1>12, <2>2, <2>3 DEF Visited
  <2>6. Kept(cs, s, act, p)
            = [s EXCEPT !.w[1] = [WithStats(cs, EndingAt(cs, act, p + 1)) EXCEPT !.state = "forming"]]
    BY <1>5, <2>4 DEF Kept
  <2>7. PICK H2 \in Int, L2 \in Int :
            /\ WithStats(cs, TheSwing(cs, id, a, p + 1, H1, L1, "forming"))
                   = TheSwing(cs, id, a, p + 1, H2, L2, "forming")
            /\ Within(cs, a, p + 1, H2, L2)
    BY <1>1, StatsOfStretch
  <2>8. Visited(cs, s, p) = OneSwing(cs, id, a, p + 1, H2, L2)
    BY <1>7, <1>8, <1>9, <2>5, <2>6, <2>7
  <2> QED
    BY <2>7, <2>8 DEF s
<1> QED
  BY <1>11, <1>12

-----------------------------------------------------------------------------
(* The whole loop.                                                         *)

\* The rows up to the one behind row p leave the range of the swing on one side at
\* most, and on that side the last of them is the extreme, with prices still
\* moving away: the next fractal includes it.
Drifts(cs, a, p, H, L) ==
    p < Len(cs) =>
        /\ \A i \in a .. p + 1 :
               /\ cs[i].high <= H \/ cs[i].high <= cs[p + 1].high
               /\ L <= cs[i].low \/ cs[p + 1].low <= cs[i].low
        /\ cs[p + 1].high > H => Rises(cs, p)
        /\ cs[p + 1].low < L => Falls(cs, p)

LEMMA WithinDrifts ==
    ASSUME NEW cs, Separate(cs), NEW a \in 1 .. Len(cs), NEW p \in 1 .. Len(cs), a <= p,
           NEW H \in Int, NEW L \in Int, p + 1 \in 1 .. Len(cs), Within(cs, a, p + 1, H, L)
    PROVE  Drifts(cs, a, p, H, L)
<1>1. p + 1 \in a .. p + 1
  OBVIOUS
<1>2. cs[p + 1].high \in Int /\ cs[p + 1].low \in Int
  BY RowTypes DEF Separate
<1>3. cs[p + 1].high <= H /\ L <= cs[p + 1].low
  BY <1>1 DEF Within
<1>4. ~ (cs[p + 1].high > H) /\ ~ (cs[p + 1].low < L)
  BY <1>2, <1>3
<1> QED
  BY <1>4 DEF Within, Drifts

\* Prices that do not turn go on as they did.
LEMMA DriftGoesOn ==
    ASSUME NEW cs, Separate(cs), NEW a \in 1 .. Len(cs), NEW p \in 1 .. Len(cs), a < p,
           NEW H \in Int, NEW L \in Int, Kind(cs, p) = "none", Drifts(cs, a, p - 1, H, L)
    PROVE  Drifts(cs, a, p, H, L)
<1> SUFFICES ASSUME p < Len(cs)
    PROVE  /\ \A i \in a .. p + 1 :
                  /\ cs[i].high <= H \/ cs[i].high <= cs[p + 1].high
                  /\ L <= cs[i].low \/ cs[p + 1].low <= cs[i].low
           /\ cs[p + 1].high > H => Rises(cs, p)
           /\ cs[p + 1].low < L => Falls(cs, p)
  BY DEF Drifts
<1>1. /\ p - 1 \in 1 .. Len(cs) - 1 /\ p \in 1 .. Len(cs) - 1 /\ 1 < p /\ p - 1 < Len(cs)
      /\ (p - 1) + 1 = p /\ Len(cs) \in Nat
      /\ \A i \in a .. p + 1 : i \in 1 .. Len(cs) /\ (i = p + 1 \/ i \in a .. p)
      /\ p + 1 \in 1 .. Len(cs)
  BY DEF Separate
<1>2. \A i \in 1 .. Len(cs) : cs[i].high \in Int /\ cs[i].low \in Int
  BY RowTypes DEF Separate
<1>3. /\ \A i \in a .. p : /\ cs[i].high <= H \/ cs[i].high <= cs[p].high
                           /\ L <= cs[i].low \/ cs[p].low <= cs[i].low
      /\ cs[p].high > H => Rises(cs, p - 1)
      /\ cs[p].low < L => Falls(cs, p - 1)
  BY <1>1 DEF Drifts
<1>4. (Rises(cs, p) \/ Falls(cs, p)) /\ ~ (Rises(cs, p) /\ Falls(cs, p))
  BY <1>1, RiseOrFall
<1>5. /\ Rises(cs, p - 1) => ~Falls(cs, p)
      /\ Falls(cs, p - 1) => ~Rises(cs, p)
  BY <1>1, FractalTurns
<1>6. CASE Rises(cs, p)
  <2>1. cs[p].high < cs[p + 1].high /\ cs[p].low < cs[p + 1].low
    BY <1>6 DEF Rises
  <2>2. ~ (cs[p].low < L)
    BY <1>3, <1>5, <1>6
  <2>3. ~ (cs[p + 1].low < L)
    BY <1>1, <1>2, <2>1, <2>2
  <2>4. \A i \in a .. p + 1 :
            /\ cs[i].high <= H \/ cs[i].high <= cs[p + 1].high
            /\ L <= cs[i].low \/ cs[p + 1].low <= cs[i].low
    <3> SUFFICES ASSUME NEW i \in a .. p + 1
                 PROVE  /\ cs[i].high <= H \/ cs[i].high <= cs[p + 1].high
                        /\ L <= cs[i].low \/ cs[p + 1].low <= cs[i].low
      OBVIOUS
    <3>1. /\ cs[i].high \in Int /\ cs[i].low \in Int /\ cs[p].high \in Int /\ cs[p].low \in Int
          /\ cs[p + 1].high \in Int /\ cs[p + 1].low \in Int
      BY <1>1, <1>2
    <3>2. CASE i = p + 1
      BY <3>1, <3>2
    <3>3. CASE i \in a .. p
      <4>1. /\ cs[i].high <= H \/ cs[i].high <= cs[p].high
            /\ L <= cs[i].low \/ cs[p].low <= cs[i].low
        BY <1>3, <3>3
      <4>2. cs[i].high <= H \/ cs[i].high <= cs[p + 1].high
        BY <2>1, <3>1, <4>1, SMTT(30)
      <4>3. L <= cs[i].low
        BY <2>2, <3>1, <4>1
      <4> QED
        BY <4>2, <4>3
    <3> QED
      BY <1>1, <3>2, <3>3
  <2> QED
    BY <1>6, <2>3, <2>4
<1>7. CASE Falls(cs, p)
  <2>1. cs[p + 1].high < cs[p].high /\ cs[p + 1].low < cs[p].low
    BY <1>7 DEF Falls
  <2>2. ~ (cs[p].high > H)
    BY <1>3, <1>5, <1>7
  <2>3. ~ (cs[p + 1].high > H)
    BY <1>1, <1>2, <2>1, <2>2
  <2>4. \A i \in a .. p + 1 :
            /\ cs[i].high <= H \/ cs[i].high <= cs[p + 1].high
            /\ L <= cs[i].low \/ cs[p + 1].low <= cs[i].low
    <3> SUFFICES ASSUME NEW i \in a .. p + 1
                 PROVE  /\ cs[i].high <= H \/ cs[i].high <= cs[p + 1].high
                        /\ L <= cs[i].low \/ cs[p + 1].low <= cs[i].low
      OBVIOUS
    <3>1. /\ cs[i].high \in Int /\ cs[i].low \in Int /\ cs[p].high \in Int /\ cs[p].low \in Int
          /\ cs[p + 1].high \in Int /\ cs[p + 1].low \in Int
      BY <1>1, <1>2
    <3>2. CASE i = p + 1
      BY <3>1, <3>2
    <3>3. CASE i \in a .. p
      <4>1. /\ cs[i].high <= H \/ cs[i].high <= cs[p].high
            /\ L <= cs[i].low \/ cs[p].low <= cs[i].low
        BY <1>3, <3>3
      <4>2. cs[i].high <= H
        BY <2>2, <3>1, <4>1
      <4>3. L <= cs[i].low \/ cs[p + 1].low <= cs[i].low
        BY <2>1, <3>1, <4>1, SMTT(30)
      <4> QED
        BY <4>2, <4>3
    <3> QED
      BY <1>1, <3>2, <3>3
  <2> QED
    BY <1>7, <2>3, <2>4
<1> QED
  BY <1>4, <1>6, <1>7

\* A fractal widens the range to all rows up to the one on its right.
LEMMA FractalCovers ==
    ASSUME NEW cs, Separate(cs), NEW a \in 1 .. Len(cs), NEW p \in 1 .. Len(cs), a < p,
           NEW H \in Int, NEW L \in Int, NEW H2 \in Int, NEW L2 \in Int,
           p + 1 \in 1 .. Len(cs), Drifts(cs, a, p - 1, H, L),
           H <= H2, L2 <= L, Within(cs, p - 1, p + 1, H2, L2)
    PROVE  Within(cs, a, p + 1, H2, L2)
<1> SUFFICES ASSUME NEW i \in a .. p + 1
    PROVE  cs[i].high <= H2 /\ L2 <= cs[i].low
  BY DEF Within
<1>1. /\ i \in 1 .. Len(cs) /\ (i = p + 1 \/ i \in a .. p) /\ p - 1 < Len(cs) /\ (p - 1) + 1 = p
      /\ p \in p - 1 .. p + 1 /\ p + 1 \in p - 1 .. p + 1
  BY DEF Separate
<1>2. \A j \in 1 .. Len(cs) : cs[j].high \in Int /\ cs[j].low \in Int
  BY RowTypes DEF Separate
<1>3. \A j \in {p, p + 1} : cs[j].high <= H2 /\ L2 <= cs[j].low
  BY <1>1 DEF Within
<1>4. CASE i = p + 1
  BY <1>3, <1>4
<1>5. CASE i \in a .. p
  <2>1. /\ cs[i].high <= H \/ cs[i].high <= cs[p].high
        /\ L <= cs[i].low \/ cs[p].low <= cs[i].low
    BY <1>1, <1>5 DEF Drifts
  <2>2. cs[p].high <= H2 /\ L2 <= cs[p].low
    BY <1>3
  <2>3. /\ cs[i].high \in Int /\ cs[i].low \in Int /\ cs[p].high \in Int /\ cs[p].low \in Int
    BY <1>1, <1>2
  <2>4. cs[i].high <= H2
    <3>1. CASE cs[i].high <= H
      BY <2>3, <3>1
    <3>2. CASE cs[i].high <= cs[p].high
      BY <2>2, <2>3, <3>2
    <3> QED
      BY <2>1, <3>1, <3>2
  <2>5. L2 <= cs[i].low
    <3>1. CASE L <= cs[i].low
      BY <2>3, <3>1
    <3>2. CASE cs[p].low <= cs[i].low
      BY <2>2, <2>3, <3>2
    <3> QED
      BY <2>1, <3>1, <3>2
  <2> QED
    BY <2>4, <2>5
<1> QED
  BY <1>1, <1>4, <1>5

\* What the loop has built after row p: nothing, as long as there was no fractal, or
\* the one swing that began at the first.
Built(cs, ids, s, p) ==
    \/ s = Begun(ids) /\ \A q \in 1 .. p : Kind(cs, q) = "none"
    \/ \E a \in 1 .. p, e \in 1 .. Len(cs), H, L \in Int :
           /\ a < e /\ Kind(cs, a) # "none" /\ NoneBefore(cs, a)
           /\ s = OneSwing(cs, ids + 1, a, e, H, L)
           /\ Within(cs, a, e, H, L) /\ Drifts(cs, a, p, H, L)

LEMMA TurnKeepsBuilt ==
    ASSUME NEW cs, Separate(cs), NEW ids, NEW s, NEW p \in 1 .. Len(cs),
           Built(cs, ids, s, p - 1)
    PROVE  Built(cs, ids, Turn(cs, s, p), p)
<1>1. \A q \in 1 .. p : q = p \/ q \in 1 .. p - 1
  OBVIOUS
<1>2. CASE s = Begun(ids) /\ \A q \in 1 .. p - 1 : Kind(cs, q) = "none"
  <2>1. CASE Kind(cs, p) = "none"
    <3>1. Turn(cs, s, p) = Begun(ids) /\ \A q \in 1 .. p : Kind(cs, q) = "none"
      BY <1>1, <1>2, <2>1 DEF Turn
    <3> QED
      BY <3>1 DEF Built
  <2>2. CASE Kind(cs, p) # "none"
    <3>1. PICK H \in Int, L \in Int :
              /\ Visited(cs, Begun(ids), p) = OneSwing(cs, ids + 1, p, p + 1, H, L)
              /\ Within(cs, p, p + 1, H, L)
      BY <2>2, FirstFractalOpens
    <3>2. p \in 1 .. p /\ p + 1 \in 1 .. Len(cs) /\ p < p + 1 /\ p <= p
      BY <2>2, FractalTurns
    <3>3. NoneBefore(cs, p)
      BY <1>2 DEF NoneBefore
    <3>4. Drifts(cs, p, p, H, L)
      BY <3>1, <3>2, WithinDrifts
    <3>5. Turn(cs, s, p) = OneSwing(cs, ids + 1, p, p + 1, H, L)
      BY <1>2, <2>2, <3>1 DEF Turn
    <3> QED
      BY <2>2, <3>1, <3>2, <3>3, <3>4, <3>5, Zenon DEF Built
  <2> QED
    BY <2>1, <2>2
<1>3. ASSUME NEW a \in 1 .. p - 1, NEW e \in 1 .. Len(cs), NEW H \in Int, NEW L \in Int,
             a < e, Kind(cs, a) # "none", NoneBefore(cs, a),
             s = OneSwing(cs, ids + 1, a, e, H, L),
             Within(cs, a, e, H, L), Drifts(cs, a, p - 1, H, L)
      PROVE  Built(cs, ids, Turn(cs, s, p), p)
  <2>1. a \in 1 .. p /\ a \in 1 .. Len(cs) /\ a < p /\ a <= p
    BY DEF Separate
  <2>2. CASE Kind(cs, p) = "none"
    <3>1. Drifts(cs, a, p, H, L)
      BY <1>3, <2>1, <2>2, DriftGoesOn
    <3>2. Turn(cs, s, p) = OneSwing(cs, ids + 1, a, e, H, L)
      BY <1>3, <2>2 DEF Turn
    <3> QED
      BY <1>3, <2>1, <3>1, <3>2, Zenon DEF Built
  <2>3. CASE Kind(cs, p) # "none"
    <3>1. PICK f \in {p, p + 1}, H2 \in Int, L2 \in Int :
              /\ Visited(cs, OneSwing(cs, ids + 1, a, e, H, L), p)
                     = OneSwing(cs, ids + 1, a, f, H2, L2)
              /\ \/ /\ H <= H2 /\ L2 <= L
                    /\ Within(cs, p - 1, p + 1, H2, L2)
                 \/ Within(cs, a, p + 1, H2, L2)
      BY <1>3, <2>1, <2>3, SwingGoesOn
    <3>2. p + 1 \in 1 .. Len(cs)
      BY <2>3, FractalTurns
    <3>3. Within(cs, a, p + 1, H2, L2)
      BY <1>3, <2>1, <3>1, <3>2, FractalCovers
    <3>4. Drifts(cs, a, p, H2, L2)
      BY <2>1, <3>2, <3>3, WithinDrifts
    <3>5. Within(cs, a, f, H2, L2)
      <4>1. \A i \in a .. f : i \in a .. p + 1
        OBVIOUS
      <4> QED
        BY <3>3, <4>1 DEF Within
    <3>6. f \in 1 .. Len(cs) /\ a < f
      BY <2>1, <3>2
    <3>7. Turn(cs, s, p) = OneSwing(cs, ids + 1, a, f, H2, L2)
      BY <1>3, <2>3, <3>1 DEF Turn
    <3> QED
      BY <1>3, <2>1, <3>4, <3>5, <3>6, <3>7, Zenon DEF Built
  <2> QED
    BY <2>2, <2>3
<1> QED
  BY <1>2, <1>3 DEF Built

LEMMA WalkBuilds ==
    ASSUME NEW cs, Separate(cs), NEW ids
    PROVE  \A p \in 0 .. Len(cs) : Built(cs, ids, Walk(cs, ids)[p], p)
<1> DEFINE Bad == {p \in 0 .. Len(cs) : ~Built(cs, ids, Walk(cs, ids)[p], p)}
<1>1. Len(cs) \in Nat
  BY DEF Separate
<1>2. /\ Walk(cs, ids)[0] = Begun(ids)
      /\ \A p \in 1 .. Len(cs) : Walk(cs, ids)[p] = Turn(cs, Walk(cs, ids)[p - 1], p)
  BY <1>1, WalkDefined
<1>3. Bad = {}
  <2>1. SUFFICES ASSUME Bad # {} PROVE FALSE
    OBVIOUS
  <2>2. PICK p \in Bad : \A q \in Bad : p <= q
    <3>1. Bad \in SUBSET Nat
      OBVIOUS
    <3> HIDE DEF Bad
    <3> QED
      BY <2>1, <3>1, LeastNat
  <2>3. p \in 0 .. Len(cs) /\ ~Built(cs, ids, Walk(cs, ids)[p], p)
    OBVIOUS
  <2>4. p # 0
    <3>1. Built(cs, ids, Begun(ids), 0)
      BY DEF Built
    <3> QED
      BY <1>2, <2>3, <3>1
  <2>5. p \in 1 .. Len(cs) /\ p - 1 \in 0 .. Len(cs) /\ ~ (p <= p - 1)
    BY <2>3, <2>4
  <2>6. p - 1 \notin Bad
    <3> HIDE DEF Bad
    <3> QED
      BY <2>2, <2>5
  <2>7. Built(cs, ids, Walk(cs, ids)[p - 1], p - 1)
    BY <2>5, <2>6
  <2>8. Built(cs, ids, Turn(cs, Walk(cs, ids)[p - 1], p), p)
    BY <2>5, <2>7, TurnKeepsBuilt
  <2> QED
    BY <1>2, <2>3, <2>5, <2>8
<1> QED
  BY <1>3

\* A rebuild builds no swing or one, from the first fractal on, and its range is that
\* of the rows it runs over.
LEMMA RebuildsOneSwing ==
    ASSUME NEW cs, Separate(cs), NEW ids
    PROVE  LET s == Rebuilt(cs, ids) IN
           \/ s.w = <<>> /\ s.ids = ids
           \/ /\ s.ids = ids + 1
              /\ \E a, e \in 1 .. Len(cs), H, L \in Int :
                     /\ a < e /\ Within(cs, a, e, H, L)
                     /\ s.w = <<TheSwing(cs, ids + 1, a, e, H, L, "confirmed")>>
<1> DEFINE r == Walk(cs, ids)[Len(cs)]
           s == Rebuilt(cs, ids)
<1>1. Len(cs) \in 0 .. Len(cs) /\ Len(cs) \in Nat
  BY DEF Separate
<1>2. Built(cs, ids, r, Len(cs))
  BY <1>1, WalkBuilds
<1>3. s = [r EXCEPT !.w = Closed(r.w)]
  BY DEF Rebuilt
<1>4. CASE r = Begun(ids)
  <2>1. Closed(r.w) = <<>>
    BY <1>4 DEF Begun, Closed
  <2>2. s.w = <<>> /\ s.ids = ids
    BY <1>3, <1>4, <2>1 DEF Begun
  <2> QED
    BY <2>2
<1>5. ASSUME NEW a \in 1 .. Len(cs), NEW e \in 1 .. Len(cs), NEW H \in Int, NEW L \in Int,
             a < e, Within(cs, a, e, H, L), r = OneSwing(cs, ids + 1, a, e, H, L)
      PROVE  /\ s.ids = ids + 1
             /\ s.w = <<TheSwing(cs, ids + 1, a, e, H, L, "confirmed")>>
  <2> DEFINE row == TheSwing(cs, ids + 1, a, e, H, L, "forming")
  <2>1. r.w = <<row>> /\ r.ids = ids + 1
    BY <1>5 DEF OneSwing
  <2>2. row.state = "forming" /\ [row EXCEPT !.state = "confirmed"]
                                     = TheSwing(cs, ids + 1, a, e, H, L, "confirmed")
    BY DEF TheSwing
  <2> HIDE DEF row, r
  <2>3. Closed(<<row>>) = <<[row EXCEPT !.state = "confirmed"]>>
    BY <2>2 DEF Closed
  <2>4. s.w = Closed(r.w) /\ s.ids = r.ids
    BY <1>3, <1>5 DEF OneSwing
  <2> QED
    BY <2>1, <2>2, <2>3, <2>4
<1> QED
  BY <1>2, <1>4, <1>5, ZenonT(30) DEF Built

-----------------------------------------------------------------------------
(* The theorems about swings.                                              *)

\* There is no swing, or one that runs over rows that are still there and that bears
\* the last id issued.
OneAtMost ==
    \/ swings = <<>>
    \/ \E a, e \in 1 .. Len(rows), H, L \in Int :
           /\ a < e /\ Within(rows, a, e, H, L)
           /\ swingIds # 0
           /\ swings = <<TheSwing(rows, swingIds, a, e, H, L, "confirmed")>>

SwingInv == CBarInv /\ swingIds \in Nat /\ OneAtMost

\* The rows of the layer below are rows as the rebuild needs them.
LEMMA RowsSeparate == CBarInv => Separate(rows)
<1> SUFFICES ASSUME CBarInv PROVE Separate(rows)
  OBVIOUS
<1> QED
  BY DEF CBarInv, CBarTypeOK, SpansOrdered, IdsIncrease, Partition, NonInclusive, Separate

LEMMA SwingInitInv == SwingInit => SwingInv
BY InitInv DEF SwingInit, SwingInv, OneAtMost

LEMMA SwingStep ==
    ASSUME SwingInv, NEW b \in Bars, AppendThroughSwings(b)
    PROVE  /\ CBarInv' /\ OneAtMost'
           /\ swingIds' \in {swingIds, swingIds + 1}
           /\ swings' # <<>> => swingIds' = swingIds + 1
<1>1. CBarInv /\ swingIds \in Nat
  BY DEF SwingInv
<1>2. CBarInv'
  <2>1. CBarNext
    BY DEF AppendThroughSwings, CBarNext
  <2> QED
    BY <1>1, <2>1, NextInv
<1>3. Separate(rows')
  <2>1. CBarTypeOK' /\ SpansOrdered' /\ IdsIncrease' /\ Partition' /\ NonInclusive'
    BY <1>2 DEF CBarInv
  <2> QED
    BY <2>1 DEF CBarTypeOK, SpansOrdered, IdsIncrease, Partition, NonInclusive, Separate
<1> DEFINE s == Rebuilt(rows', swingIds)
<1>4. swings' = s.w /\ swingIds' = s.ids
  BY DEF AppendThroughSwings
<1>5. \/ s.w = <<>> /\ s.ids = swingIds
      \/ /\ s.ids = swingIds + 1
         /\ \E a, e \in 1 .. Len(rows'), H, L \in Int :
                /\ a < e /\ Within(rows', a, e, H, L)
                /\ s.w = <<TheSwing(rows', swingIds + 1, a, e, H, L, "confirmed")>>
  BY <1>3, RebuildsOneSwing
<1> HIDE DEF s
<1>6. CASE s.w = <<>> /\ s.ids = swingIds
  BY <1>2, <1>4, <1>6 DEF OneAtMost
<1>7. ASSUME s.ids = swingIds + 1, NEW a \in 1 .. Len(rows'), NEW e \in 1 .. Len(rows'),
             NEW H \in Int, NEW L \in Int, a < e, Within(rows', a, e, H, L),
             s.w = <<TheSwing(rows', swingIds + 1, a, e, H, L, "confirmed")>>
      PROVE  OneAtMost' /\ swingIds' = swingIds + 1
  <2>1. swingIds' = swingIds + 1 /\ swingIds' # 0
    BY <1>1, <1>4, <1>7
  <2>2. swings' = <<TheSwing(rows', swingIds', a, e, H, L, "confirmed")>>
    BY <1>4, <1>7, <2>1
  <2>3. \E a2, e2 \in 1 .. Len(rows'), H2, L2 \in Int :
            /\ a2 < e2 /\ Within(rows', a2, e2, H2, L2)
            /\ swingIds' # 0
            /\ swings' = <<TheSwing(rows', swingIds', a2, e2, H2, L2, "confirmed")>>
    BY <1>7, <2>1, <2>2
  <2> QED
    BY <2>1, <2>3 DEF OneAtMost, Within, TheSwing, Kind, LabelAt
<1> QED
  BY <1>2, <1>4, <1>5, <1>6, <1>7

LEMMA SwingInvStep == SwingInv /\ [SwingNext]_<<cbarVars, swingVars>> => SwingInv'
<1> SUFFICES ASSUME SwingInv, [SwingNext]_<<cbarVars, swingVars>> PROVE SwingInv'
  OBVIOUS
<1>1. CASE SwingNext
  <2>1. PICK b \in Bars : AppendThroughSwings(b)
    BY <1>1 DEF SwingNext
  <2>2. swingIds' \in Nat
    BY <2>1, SwingStep DEF SwingInv
  <2> QED
    BY <2>1, <2>2, SwingStep DEF SwingInv
<1>2. CASE UNCHANGED <<cbarVars, swingVars>>
  <2>1. /\ UNCHANGED cbarVars /\ rows' = rows /\ swings' = swings /\ swingIds' = swingIds
    BY <1>2 DEF cbarVars, swingVars
  <2>2. CBarInv'
    BY <2>1, NextInv DEF SwingInv
  <2> QED
    BY <2>1, <2>2 DEF SwingInv, OneAtMost, Within, TheSwing, Kind, LabelAt
<1> QED
  BY <1>1, <1>2

LEMMA SwingInvHolds == SwingSpec => []SwingInv
BY SwingInitInv, SwingInvStep, PTL DEF SwingSpec

\* TimeframeManager::append does with the CBars what CBarManager does alone: the
\* swings that are built over them never reach back into them, so that all that
\* is proved of CBarSpec holds under the swing layer.
THEOREM SwingsLeaveCBars == SwingSpec => CBarSpec
<1>1. SwingInit => CBarInit
  BY DEF SwingInit
<1>2. [SwingNext]_<<cbarVars, swingVars>> => [CBarNext]_cbarVars
  BY DEF SwingNext, AppendThroughSwings, CBarNext
<1> QED
  BY <1>1, <1>2, PTL DEF SwingSpec, CBarSpec

\* Why the run on SeparatedFractalsConfirm fails, for any bars: the rebuild never
\* gets to a second swing, since the gate of the bootstrap phase asks for a
\* fractal before the first.
THEOREM GateNeverOpens == SwingSpec => [](Len(swings) <= 1)
<1>1. SwingInv => Len(swings) <= 1
  <2>1. ASSUME NEW w, swings = <<w>> PROVE Len(swings) <= 1
    BY <2>1
  <2>2. swings = <<>> => Len(swings) <= 1
    OBVIOUS
  <2> QED
    BY <2>1, <2>2 DEF SwingInv, OneAtMost
<1> QED
  BY <1>1, SwingInvHolds, PTL

\* get_index finds a row by its own id.
LEMMA RowFound ==
    ASSUME CBarInv, NEW p \in 1 .. Len(rows)
    PROVE  Row(rows[p].id) = p
<1> DEFINE found == {i \in 1 .. Len(rows) : rows[i].id = rows[p].id}
<1>1. found = {p}
  BY RowsSeparate, IdsInOrder
<1>2. Min(found) = p
  <2>1. found \in SUBSET Nat /\ found # {}
    BY <1>1
  <2> HIDE DEF found
  <2> QED
    BY <1>1, <2>1, MinNat
<1> QED
  BY <1>2 DEF Row, IndexOf

\* Its two pairs of coordinates agree although merges renumber the rows.
THEOREM SwingCoordinatesHold == SwingSpec => []SwingCoordinates
<1>1. SwingInv => SwingCoordinates
  <2> SUFFICES ASSUME SwingInv, NEW k \in 1 .. Len(swings)
               PROVE  /\ \E i \in 1 .. Len(rows) : rows[i].id = swings[k].start
                      /\ \E i \in 1 .. Len(rows) : rows[i].id = swings[k].end
                      /\ Row(swings[k].start) < Row(swings[k].end)
                      /\ rows[Row(swings[k].start)].start = swings[k].sstart
                      /\ rows[Row(swings[k].end)].end = swings[k].send
    BY DEF SwingCoordinates
  <2>1. PICK a \in 1 .. Len(rows), e \in 1 .. Len(rows), H \in Int, L \in Int :
            /\ a < e
            /\ swings = <<TheSwing(rows, swingIds, a, e, H, L, "confirmed")>>
    <3>1. swings # <<>>
      OBVIOUS
    <3> QED
      BY <3>1 DEF SwingInv, OneAtMost
  <2>2. k = 1 /\ swings[k] = TheSwing(rows, swingIds, a, e, H, L, "confirmed")
    BY <2>1
  <2>3. /\ swings[k].start = rows[a].id /\ swings[k].end = rows[e].id
        /\ swings[k].sstart = rows[a].start /\ swings[k].send = rows[e].end
    BY <2>2 DEF TheSwing
  <2>4. Row(rows[a].id) = a /\ Row(rows[e].id) = e
    BY RowFound DEF SwingInv
  <2> QED
    BY <2>1, <2>3, <2>4
<1> QED
  BY <1>1, SwingInvHolds, PTL

\* The range of a swing covers every bar between its ends: those that merges
\* swallowed, and those between two fractals that widened it.
THEOREM SwingCoversHolds == SwingSpec => []SwingCovers
<1>1. SwingInv => SwingCovers
  <2> SUFFICES ASSUME SwingInv, NEW k \in 1 .. Len(swings),
                      NEW j \in swings[k].sstart .. swings[k].send
               PROVE  sbars[j].high <= swings[k].high /\ sbars[j].low >= swings[k].low
    BY DEF SwingCovers
  <2>1. PICK a \in 1 .. Len(rows), e \in 1 .. Len(rows), H \in Int, L \in Int :
            /\ a < e /\ Within(rows, a, e, H, L)
            /\ swings = <<TheSwing(rows, swingIds, a, e, H, L, "confirmed")>>
    <3>1. swings # <<>>
      OBVIOUS
    <3> QED
      BY <3>1 DEF SwingInv, OneAtMost
  <2>2. swings[k] = TheSwing(rows, swingIds, a, e, H, L, "confirmed")
    BY <2>1
  <2>3. /\ swings[k].sstart = rows[a].start /\ swings[k].send = rows[e].end
        /\ swings[k].high = H /\ swings[k].low = L
    BY <2>2 DEF TheSwing
  <2>4. /\ CBarTypeOK /\ Partition /\ SpansOrdered /\ RangeIsEnvelope
        /\ rows \in Seq(CBarRow) /\ sbars \in Seq(Bars)
    BY DEF SwingInv, CBarInv, CBarTypeOK
  <2>5. \A i \in 1 .. Len(rows) : /\ rows[i].start \in Nat \ {0} /\ rows[i].end \in Nat
                                  /\ rows[i].high \in Int /\ rows[i].low \in Int
    BY <2>4, RowTypes
  <2>6. rows[e].end <= Len(sbars) /\ Len(sbars) \in Nat
    BY <2>4 DEF SpansOrdered
  <2>7. j \in Int /\ rows[a].start <= j /\ j <= rows[e].end
    BY <2>3, <2>5
  <2>8. j \in rows[a].start .. Len(sbars) /\ j \in 1 .. Len(sbars)
    BY <2>5, <2>6, <2>7
  <2>9. PICK i \in a .. Len(rows) : j \in rows[i].start .. rows[i].end
    BY <2>4, <2>8, SpanCovers
  <2>10. i \in 1 .. Len(rows)
    BY <2>4
  <2>11. i \in a .. e
    <3>1. ~ (e < i)
      <4>1. e < i => rows[e].end < rows[i].start
        BY <2>4, <2>10 DEF SpansOrdered
      <4>2. rows[i].start <= j /\ rows[i].start \in Nat
        BY <2>5, <2>9, <2>10
      <4> QED
        BY <2>5, <2>7, <4>1, <4>2
    <3> QED
      BY <2>4, <3>1
  <2>12. rows[i].high <= H /\ L <= rows[i].low
    BY <2>1, <2>11 DEF Within
  <2>13. sbars[j].high <= rows[i].high /\ sbars[j].low >= rows[i].low
    BY <2>4, <2>9, <2>10 DEF RangeIsEnvelope
  <2>14. sbars[j].high \in Int /\ sbars[j].low \in Int
    <3>1. sbars[j] \in Bars
      BY <2>4, <2>8
    <3> QED
      BY <3>1, BarsAssumption
  <2>15. sbars[j].high <= H
    BY <2>5, <2>10, <2>12, <2>13, <2>14
  <2>16. sbars[j].low >= L
    BY <2>5, <2>10, <2>12, <2>13, <2>14
  <2> QED
    BY <2>3, <2>15, <2>16
<1> QED
  BY <1>1, SwingInvHolds, PTL

\* A layer that drops its copy of the swings from the reported id on misses no
\* change: each rebuild issues a new id, so that the old swing is always reported.
THEOREM SwingBacktrackSoundHolds == SwingSpec => SwingBacktrackSound
<1> DEFINE Below == {i \in 1 .. Len(swings) : swings[i].id < swingBacktrack'}
           kept == IF swingBacktrack' = NoId THEN Len(swings) ELSE Cardinality(Below)
           Sound == /\ kept <= Len(swings')
                    /\ \A i \in 1 .. kept : swings'[i] = swings[i]
<1>1. ASSUME SwingInv, NEW b \in Bars, AppendThroughSwings(b)
      PROVE  Sound
  <2>1. /\ OneAtMost' /\ swingIds \in Nat
        /\ swings' # <<>> => swingIds' = swingIds + 1
    BY <1>1, SwingStep DEF SwingInv
  <2>2. Len(swings') \in Nat
    BY <2>1 DEF OneAtMost
  <2>3. kept = 0
    <3>1. CASE swings = <<>>
      <4>1. Len(swings) = 0 /\ Below = {}
        BY <3>1
      <4> QED
        BY <4>1, FS_EmptySet
    <3>2. CASE swings # <<>>
      <4>1. Len(swings) = 1 /\ swings[1].id = swingIds /\ swingIds # 0
        BY <1>1, <3>2 DEF SwingInv, OneAtMost, TheSwing
      <4>2. swingBacktrack' = swingIds
        <5>1. CASE swings' = <<>>
          <6>1. FirstChangedId(swings, swings', backtrack' # NoId) = swings[1].id
            BY <4>1, <5>1 DEF FirstChangedId
          <6> QED
            BY <1>1, <4>1, <6>1 DEF AppendThroughSwings, SwingBacktrackId, NoId
        <5>2. CASE swings' # <<>>
          <6>1. Len(swings') = 1 /\ swings'[1].id = swingIds + 1
            BY <2>1, <5>2 DEF OneAtMost, TheSwing
          <6>2. swings[1] # swings'[1]
            BY <2>1, <4>1, <6>1
          <6> DEFINE changed == {i \in 1 .. 1 : swings[i] # swings'[i]}
          <6>3. changed = {1}
            BY <6>2
          <6>4. Min(changed) = 1
            <7>1. changed \in SUBSET Nat /\ changed # {}
              BY <6>3
            <7> HIDE DEF changed
            <7> QED
              BY <6>3, <7>1, MinNat
          <6>5. FirstChangedId(swings, swings', backtrack' # NoId) = swings[1].id
            BY <4>1, <6>1, <6>3, <6>4 DEF FirstChangedId
          <6> QED
            BY <1>1, <4>1, <6>5 DEF AppendThroughSwings, SwingBacktrackId, NoId
        <5> QED
          BY <5>1, <5>2
      <4>3. Below = {}
        <5>1. \A i \in 1 .. Len(swings) : i = 1
          BY <4>1
        <5> QED
          BY <2>1, <4>1, <4>2, <5>1
      <4>4. swingBacktrack' # NoId
        BY <4>1, <4>2 DEF NoId
      <4> HIDE DEF Below
      <4> QED
        BY <4>3, <4>4, FS_EmptySet
    <3> QED
      BY <3>1, <3>2
  <2> HIDE DEF kept
  <2> QED
    BY <2>2, <2>3
<1>2. SwingInv /\ [SwingNext]_<<cbarVars, swingVars>> => [Sound]_<<cbarVars, swingVars>>
  <2> HIDE DEF Sound
  <2> QED
    BY <1>1 DEF SwingNext
<1> QED
  BY <1>2, SwingInvHolds, PTL DEF SwingSpec, SwingBacktrackSound

=============================================================================
