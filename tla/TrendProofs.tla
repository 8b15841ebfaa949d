----------------------------- MODULE TrendProofs -----------------------------
(***************************************************************************)
(* What holds of the two components that number what they make, the trends *)
(* and the id generators.                                                  *)
(*                                                                         *)
(* Trend, for any prices and any alternating swings: the trends of a       *)
(* rebuild are in order and chain, and a further swing changes only the    *)
(* last of them.  The rebuild is followed swing by swing from its seed on, *)
(* through each sequence of swings that it keeps.                          *)
(*                                                                         *)
(* IdGenerator, for every number of generators, every width of the bit     *)
(* fields and every behaviour of the clock: the ids of one generator       *)
(* increase and no two generators share an id.                             *)
(***************************************************************************)
EXTENDS Trend, IdGenerator, FiniteLemmas

-----------------------------------------------------------------------------
(* Types.                                                                  *)

\* The range of a swing.
SwingRange == [high : Int, low : Int]

\* A confirmed swing.
SwingRow == [dir : Directions, high : Int, low : Int]

\* A trend with the swings against it.
SeqRow == [trend : TrendRow, sfs : Seq(SwingRange)]

\* A trend with another field.
LEMMA TrendFieldChanged ==
    ASSUME NEW t \in TrendRow
    PROVE  /\ \A x \in Nat \ {0} : /\ [t EXCEPT !.start = x] \in TrendRow
                                   /\ [t EXCEPT !.end = x] \in TrendRow
           /\ \A x \in Int : /\ [t EXCEPT !.high = x] \in TrendRow
                             /\ [t EXCEPT !.low = x] \in TrendRow
           /\ \A x \in BOOLEAN : [t EXCEPT !.done = x] \in TrendRow
BY DEF TrendRow

\* u is t but for its bounds.
SameTrend(u, t) == u \in TrendRow /\ u.id = t.id /\ u.dir = t.dir

\* A trend that goes on to swing k.
LEMMA ExtendedIs ==
    ASSUME NEW t \in TrendRow, NEW ws \in Seq(SwingRow), NEW k \in 1 .. Len(ws)
    PROVE  /\ SameTrend(Extended(t, ws, k), t) /\ Extended(t, ws, k).done = t.done
           /\ Extended(t, ws, k).start = t.start /\ Extended(t, ws, k).end = k
           /\ Extended(t, ws, k).high = Max({t.high, ws[k].high})
           /\ Extended(t, ws, k).low = Min({t.low, ws[k].low})
<1>1. ws[k] \in SwingRow /\ k \in Nat \ {0}
  OBVIOUS
<1>2. t.high \in Int /\ t.low \in Int /\ ws[k].high \in Int /\ ws[k].low \in Int
  BY <1>1 DEF TrendRow, SwingRow
<1>3. PICK h, l : h = Max({t.high, ws[k].high}) /\ l = Min({t.low, ws[k].low})
  OBVIOUS
<1>4. h \in Int /\ l \in Int
  BY <1>2, <1>3, PairMaxMin
<1>5. PICK t1 : t1 = [t EXCEPT !.end = k]
  OBVIOUS
<1>6. PICK t2 : t2 = [t1 EXCEPT !.high = h]
  OBVIOUS
<1>7. PICK t3 : t3 = [t2 EXCEPT !.low = l]
  OBVIOUS
<1>8. t1 \in TrendRow
  BY <1>1, <1>5, TrendFieldChanged
<1>9. t2 \in TrendRow
  BY <1>4, <1>6, <1>8, TrendFieldChanged
<1>10. t3 \in TrendRow
  BY <1>4, <1>7, <1>9, TrendFieldChanged
<1>11. Extended(t, ws, k) = t3
  BY <1>3, <1>5, <1>6, <1>7 DEF Extended
<1>12. /\ t1.id = t.id /\ t1.dir = t.dir /\ t1.done = t.done /\ t1.start = t.start /\ t1.end = k
  BY <1>5 DEF TrendRow
<1>13. /\ t2.id = t1.id /\ t2.dir = t1.dir /\ t2.done = t1.done /\ t2.start = t1.start
       /\ t2.end = t1.end /\ t2.high = h
  BY <1>6, <1>8 DEF TrendRow
<1>14. /\ t3.id = t2.id /\ t3.dir = t2.dir /\ t3.done = t2.done /\ t3.start = t2.start
       /\ t3.end = t2.end /\ t3.high = t2.high /\ t3.low = l
  BY <1>7, <1>9 DEF TrendRow
<1> QED
  BY <1>3, <1>10, <1>11, <1>12, <1>13, <1>14 DEF SameTrend

\* Two ranges, one of which absorbs the other.
LEMMA AbsorbedType ==
    ASSUME NEW a \in SwingRange, NEW b \in SwingRange, NEW d
    PROVE  Absorbed(d, a, b) \in SwingRange
<1>1. a.high \in Int /\ a.low \in Int /\ b.high \in Int /\ b.low \in Int
  BY DEF SwingRange
<1>2. /\ Max({a.high, b.high}) \in Int /\ Max({a.low, b.low}) \in Int
      /\ Min({a.high, b.high}) \in Int /\ Min({a.low, b.low}) \in Int
  BY <1>1, PairMaxMin
<1> QED
  BY <1>2 DEF Absorbed, SwingRange

\* The ranges that a swing grows to by absorbing those before it.
LEMMA AbsorbingType ==
    ASSUME NEW sfs \in Seq(SwingRange), NEW w \in SwingRow, NEW d
    PROVE  Absorbing(d, sfs, w) \in [0 .. Len(sfs) -> SwingRange]
<1> DEFINE n == Len(sfs)
           S == SwingRange
           first == [high |-> w.high, low |-> w.low]
           h == [j \in 1 .. n |-> [x \in S |-> Absorbed(d, sfs[n - j + 1], x)]]
           Defines(g) == g = [j \in 0 .. n |-> IF j = 0 THEN first
                                              ELSE Absorbed(d, sfs[n - j + 1], g[j - 1])]
           g == CHOOSE x : Defines(x)
<1>1. n \in Nat /\ first \in S /\ \A j \in 1 .. n : sfs[n - j + 1] \in S
  <2>1. n \in Nat /\ \A i \in 1 .. n : sfs[i] \in S
    OBVIOUS
  <2>2. w.high \in Int /\ w.low \in Int
    BY DEF SwingRow
  <2>3. first \in S
    BY <2>2 DEF SwingRange
  <2>4. \A j \in 1 .. n : n - j + 1 \in 1 .. n
    BY <2>1
  <2> QED
    BY <2>1, <2>3, <2>4
<1>2. h \in [1 .. n -> [S -> S]]
  <2>1. \A j \in 1 .. n, x \in S : Absorbed(d, sfs[n - j + 1], x) \in S
    BY <1>1, AbsorbedType
  <2> HIDE DEF n, S
  <2> QED
    BY <2>1
<1>3. \A j \in 1 .. n, x \in S : h[j][x] = Absorbed(d, sfs[n - j + 1], x)
  OBVIOUS
<1> HIDE DEF n, S, first, h
<1>4. PICK f : Iterates(f, n, S, first, h)
  BY <1>1, <1>2, RecursionExists, Zenon
<1>5. /\ f \in [0 .. n -> S] /\ f[0] = first
      /\ \A j \in 1 .. n : f[j] = Absorbed(d, sfs[n - j + 1], f[j - 1])
  <2>1. f \in [0 .. n -> S] /\ f[0] = first /\ \A j \in 1 .. n : f[j] = h[j][f[j - 1]]
    BY <1>4 DEF Iterates
  <2>2. \A j \in 1 .. n : f[j - 1] \in S
    <3>1. \A j \in 1 .. n : j - 1 \in 0 .. n
      BY <1>1
    <3> QED
      BY <2>1, <3>1
  <2> QED
    BY <1>3, <2>1, <2>2
<1>6. Defines(f)
  <2>1. \A j \in 0 .. n : j # 0 => j \in 1 .. n
    BY <1>1
  <2>2. \A j \in 0 .. n : f[j] = IF j = 0 THEN first ELSE Absorbed(d, sfs[n - j + 1], f[j - 1])
    BY <1>5, <2>1
  <2>3. f = [j \in 0 .. n |-> f[j]]
    BY <1>5
  <2> QED
    BY <2>2, <2>3
<1>7. Defines(g)
  <2> HIDE DEF Defines
  <2> QED
    BY <1>6
<1>8. Absorbing(d, sfs, w) = g
  BY DEF Absorbing, n, first
<1>9. /\ g[0] = first
      /\ \A j \in 1 .. n : g[j] = Absorbed(d, sfs[n - j + 1], g[j - 1])
      /\ g = [j \in 0 .. n |-> g[j]]
  <2>1. g = [j \in 0 .. n |-> IF j = 0 THEN first ELSE Absorbed(d, sfs[n - j + 1], g[j - 1])]
    BY <1>7
  <2>2. 0 \in 0 .. n /\ \A j \in 1 .. n : j \in 0 .. n /\ j # 0
    BY <1>1
  <2> HIDE DEF g
  <2> QED
    BY <2>1, <2>2, Zenon
<1> HIDE DEF g
<1> DEFINE P == {j \in 0 .. n : g[j] = f[j]}
<1>10. 0 \in P
  BY <1>1, <1>5, <1>9
<1>11. ASSUME NEW j \in 1 .. n, j - 1 \in P PROVE j \in P
  <2>1. g[j - 1] = f[j - 1] /\ j \in 0 .. n
    BY <1>1, <1>11
  <2>2. g[j] = f[j]
    BY <1>5, <1>9, <2>1, Zenon
  <2> QED
    BY <2>1, <2>2
<1>12. \A j \in 0 .. n : j \in P
  <2> HIDE DEF P
  <2> QED
    BY <1>1, <1>10, <1>11, Reaches
<1>13. \A j \in 0 .. n : g[j] \in S
  BY <1>5, <1>12
<1> QED
  BY <1>8, <1>9, <1>13 DEF n, S

\* What the sequence is when swing w has come.
LEMMA JoinedType ==
    ASSUME NEW sfs \in Seq(SwingRange), NEW range \in [0 .. Len(sfs) -> SwingRange]
    PROVE  Joined(sfs, range) \in Seq(SwingRange) /\ Joined(sfs, range) # <<>>
<1> DEFINE n == Len(sfs)
           T == {i \in 0 .. n : i < n => /\ ~Covers(sfs[n - i], range[i])
                                        /\ ~Covers(range[i], sfs[n - i])}
           j == Min(T)
<1>1. n \in Nat /\ n \in T
  OBVIOUS
<1>2. j \in 0 .. n
  <2>1. T \in SUBSET Nat /\ T # {} /\ T \in SUBSET (0 .. n)
    BY <1>1
  <2> HIDE DEF T
  <2> QED
    BY <2>1, MinNat
<1>3. Joined(sfs, range) = Append(SubSeq(sfs, 1, n - j), range[j])
  BY DEF Joined
<1> HIDE DEF n, T, j
<1>4. n - j \in 0 .. Len(sfs)
  BY <1>1, <1>2 DEF n
<1>5. SubSeq(sfs, 1, n - j) \in Seq(SwingRange)
  BY <1>4
<1>6. range[j] \in SwingRange
  BY <1>2 DEF n
<1>7. PICK q, x : q = SubSeq(sfs, 1, n - j) /\ x = range[j]
  OBVIOUS
<1>8. Append(q, x) \in Seq(SwingRange) /\ Append(q, x) # <<>>
  BY <1>5, <1>6, <1>7
<1> QED
  BY <1>3, <1>7, <1>8

\* A sequence that gets swing k.
LEMMA AggIs ==
    ASSUME NEW q \in SeqRow, NEW ws \in Seq(SwingRow), NEW k \in 1 .. Len(ws)
    PROVE  /\ Agg(q, ws, k) \in SeqRow /\ Agg(q, ws, k).trend = q.trend
           /\ ws[k].dir = q.trend.dir => Agg(q, ws, k) = q
<1>1. ws[k] \in SwingRow /\ q.sfs \in Seq(SwingRange) /\ q.trend \in TrendRow
  BY DEF SeqRow
<1>2. PICK x : x = Joined(q.sfs, Absorbing(q.trend.dir, q.sfs, ws[k]))
  OBVIOUS
<1>3. x \in Seq(SwingRange)
  BY <1>1, <1>2, AbsorbingType, JoinedType
<1>4. [q EXCEPT !.sfs = x] \in SeqRow /\ [q EXCEPT !.sfs = x].trend = q.trend
  BY <1>3 DEF SeqRow
<1>5. Agg(q, ws, k) = IF ws[k].dir = q.trend.dir THEN q ELSE [q EXCEPT !.sfs = x]
  BY <1>2 DEF Agg
<1> QED
  BY <1>4, <1>5

\* A sequence whose trend goes on to swing k.
LEMMA UpdatedIs ==
    ASSUME NEW q \in SeqRow, NEW ws \in Seq(SwingRow), NEW k \in 1 .. Len(ws)
    PROVE  /\ Updated(q, ws, k) \in SeqRow /\ Updated(q, ws, k).sfs = q.sfs
           /\ Updated(q, ws, k).trend = Extended(q.trend, ws, k)
<1>1. q.trend \in TrendRow
  BY DEF SeqRow
<1>2. PICK t : t = Extended(q.trend, ws, k)
  OBVIOUS
<1>3. t \in TrendRow
  BY <1>1, <1>2, ExtendedIs DEF SameTrend
<1>4. Updated(q, ws, k) = [q EXCEPT !.trend = t]
  BY <1>2 DEF Updated
<1> QED
  BY <1>2, <1>3, <1>4 DEF SeqRow

-----------------------------------------------------------------------------
(* Swings of a range.                                                      *)

\* Swings from a to b, which are finitely many.
LEMMA InRangeIs ==
    ASSUME NEW ws \in Seq(SwingRow), NEW a, NEW b
    PROVE  /\ InRange(ws, a, b) \in SUBSET Nat /\ IsFiniteSet(InRange(ws, a, b))
           /\ \A k \in InRange(ws, a, b) : /\ k \in 1 .. Len(ws) /\ a <= k /\ k <= b
                                           /\ ws[k] \in SwingRow
                                           /\ ws[k].high \in Int /\ ws[k].low \in Int
<1>1. 1 .. Len(ws) \in SUBSET Nat /\ IsFiniteSet(1 .. Len(ws)) /\ InRange(ws, a, b) \subseteq 1 .. Len(ws)
  BY FS_Interval DEF InRange
<1>2. IsFiniteSet(InRange(ws, a, b))
  BY <1>1, FS_Subset
<1>3. \A k \in 1 .. Len(ws) : ws[k] \in SwingRow
  OBVIOUS
<1>4. \A k \in 1 .. Len(ws) : ws[k].high \in Int /\ ws[k].low \in Int
  BY <1>3 DEF SwingRow
<1> QED
  BY <1>1, <1>2, <1>3, <1>4 DEF InRange

\* No swing of the range is beyond swing x.
AtLimit(ws, range, limit, x) ==
    /\ x \in range
    /\ \A j \in range : IF limit = "max" THEN ws[j].high <= ws[x].high ELSE ws[j].low >= ws[x].low

\* A function on a finite set has a largest and a least value.
LEMMA FunctionExtremes ==
    ASSUME NEW D, IsFiniteSet(D), D # {}, NEW f \in [D -> Int]
    PROVE  /\ \E x \in D : \A y \in D : f[y] <= f[x]
           /\ \E x \in D : \A y \in D : f[y] >= f[x]
<1> DEFINE W == {f[i] : i \in D}
<1>1. f \in Surjection(D, W)
  BY DEF Surjection
<1>2. W \in SUBSET Int /\ W # {} /\ \A y \in D : f[y] \in W
  OBVIOUS
<1>3. \A w \in W : \E x \in D : w = f[x]
  OBVIOUS
<1> HIDE DEF W
<1>4. IsFiniteSet(W)
  BY <1>1, FS_Surjection
<1>5. PICK hi \in W, lo \in W : (\A w \in W : w <= hi) /\ (\A w \in W : lo <= w)
  BY <1>2, <1>4, FiniteHasExtremes
<1>6. PICK x \in D, y \in D : hi = f[x] /\ lo = f[y]
  BY <1>3
<1>7. \A z \in D : f[z] <= f[x] /\ f[y] <= f[z]
  BY <1>2, <1>5, <1>6, Zenon
<1>8. \A z \in D : f[z] >= f[y]
  BY <1>7
<1> QED
  BY <1>7, <1>8

\* A range of swings has a limit, and the furthest swing is there.
LEMMA FurthestIs ==
    ASSUME NEW ws, NEW range \in SUBSET Nat, IsFiniteSet(range), range # {},
           \A k \in range : ws[k].high \in Int /\ ws[k].low \in Int, NEW limit
    PROVE  AtLimit(ws, range, limit, Furthest(ws, range, limit))
<1> DEFINE tops == {k \in range : \A j \in range : ws[j].high <= ws[k].high}
           bottoms == {k \in range : \A j \in range : ws[j].low >= ws[k].low}
<1>1. tops # {}
  <2> DEFINE f == [k \in range |-> ws[k].high]
  <2>1. f \in [range -> Int] /\ \A k \in range : f[k] = ws[k].high
    OBVIOUS
  <2> HIDE DEF f
  <2>2. \E x \in range : \A y \in range : f[y] <= f[x]
    BY <2>1, FunctionExtremes
  <2> QED
    BY <2>1, <2>2, Zenon
<1>2. bottoms # {}
  <2> DEFINE f == [k \in range |-> ws[k].low]
  <2>1. f \in [range -> Int] /\ \A k \in range : f[k] = ws[k].low
    OBVIOUS
  <2> HIDE DEF f
  <2>2. \E x \in range : \A y \in range : f[y] >= f[x]
    BY <2>1, FunctionExtremes
  <2> QED
    BY <2>1, <2>2, Zenon
<1>3. IsFiniteSet(tops) /\ tops \in SUBSET Int /\ bottoms \in SUBSET Nat
  <2>1. tops \in SUBSET range /\ bottoms \in SUBSET range
    OBVIOUS
  <2> HIDE DEF tops, bottoms
  <2>2. IsFiniteSet(tops)
    BY <2>1, FS_Subset
  <2>3. range \in SUBSET Int
    OBVIOUS
  <2> QED
    BY <2>1, <2>2, <2>3
<1>4. Furthest(ws, range, limit) = IF limit = "max" THEN Max(tops) ELSE Min(bottoms)
  BY DEF Furthest
<1>5. Max(tops) \in tops /\ Min(bottoms) \in bottoms
  <2> HIDE DEF tops, bottoms
  <2> QED
    BY <1>1, <1>2, <1>3, FiniteMaxMin, MinNat
<1> QED
  BY <1>4, <1>5 DEF AtLimit

\* The swings of a range with direction d.
Ranged(ws, a, b, d) == {k \in InRange(ws, a, b) : ws[k].dir = d}

\* The limit swing is at the limit of its range, unless the range is empty.
LEMMA LimitIs ==
    ASSUME NEW ws \in Seq(SwingRow), NEW a, NEW b, NEW d, NEW limit
    PROVE  IF Ranged(ws, a, b, d) = {} THEN LimitSwing(ws, a, b, d, limit) = 0
           ELSE AtLimit(ws, Ranged(ws, a, b, d), limit, LimitSwing(ws, a, b, d, limit))
<1>1. PICK R : R = Ranged(ws, a, b, d)
  OBVIOUS
<1>2. R \in SUBSET Nat /\ R \in SUBSET InRange(ws, a, b) /\ IsFiniteSet(InRange(ws, a, b))
  BY <1>1, InRangeIs DEF Ranged
<1>3. IsFiniteSet(R) /\ \A k \in R : ws[k].high \in Int /\ ws[k].low \in Int
  BY <1>2, InRangeIs, FS_Subset
<1>4. LimitSwing(ws, a, b, d, limit) = Furthest(ws, R, limit)
  BY <1>1 DEF LimitSwing, Ranged
<1>5. R = {} => Furthest(ws, R, limit) = 0
  BY DEF Furthest
<1>6. R # {} => AtLimit(ws, R, limit, Furthest(ws, R, limit))
  BY <1>2, <1>3, FurthestIs
<1> QED
  BY <1>1, <1>4, <1>5, <1>6

-----------------------------------------------------------------------------
(* Sequences that are built from the swings of a trend.                    *)

\* Trend t holds a swing against it.
Countered(t, ws) == \E j \in InRange(ws, t.start, t.end) : ws[j].dir # t.dir

\* A sequence holds ranges only when there are swings against its trend.
Grounded(q, ws) == q.sfs # <<>> => Countered(q.trend, ws)

\* A sequence stays grounded when a swing of its trend comes.
LEMMA AggGrounded ==
    ASSUME NEW q \in SeqRow, NEW ws \in Seq(SwingRow), NEW k \in 1 .. Len(ws),
           Grounded(q, ws), k \in InRange(ws, q.trend.start, q.trend.end)
    PROVE  Agg(q, ws, k) \in SeqRow /\ Agg(q, ws, k).trend = q.trend /\ Grounded(Agg(q, ws, k), ws)
<1>1. /\ Agg(q, ws, k) \in SeqRow /\ Agg(q, ws, k).trend = q.trend
      /\ ws[k].dir = q.trend.dir => Agg(q, ws, k) = q
  BY AggIs
<1>2. CASE ws[k].dir = q.trend.dir
  BY <1>1, <1>2
<1>3. CASE ws[k].dir # q.trend.dir
  <2>1. Countered(q.trend, ws)
    BY <1>3 DEF Countered
  <2> QED
    BY <1>1, <2>1 DEF Grounded
<1> QED
  BY <1>2, <1>3

\* The sequences, swing by swing, that lead to the swings against a trend.
AgainstBy(g, t, ws) ==
    /\ g[0] = [trend |-> t, sfs |-> <<>>]
    /\ \A k \in 1 .. Len(ws) : g[k] = IF k \in InRange(ws, t.start, t.end)
                                      THEN Agg(g[k - 1], ws, k) ELSE g[k - 1]
    /\ Against(t, ws) = g[Len(ws)]

\* The sequence of a trend is reached step by step, along its swings, and stays
\* grounded.
LEMMA AgainstRuns ==
    ASSUME NEW t \in TrendRow, NEW ws \in Seq(SwingRow)
    PROVE  /\ \E g : AgainstBy(g, t, ws)
           /\ Against(t, ws) \in SeqRow /\ Against(t, ws).trend = t /\ Grounded(Against(t, ws), ws)
<1> DEFINE n == Len(ws)
           S == {q \in SeqRow : q.trend = t /\ Grounded(q, ws)}
           first == [trend |-> t, sfs |-> <<>>]
           h == [k \in 1 .. n |-> [q \in S |-> IF k \in InRange(ws, t.start, t.end)
                                              THEN Agg(q, ws, k) ELSE q]]
           Defines(g) == g = [k \in 0 .. n |->
                                IF k = 0 THEN first
                                ELSE IF k \in InRange(ws, t.start, t.end) THEN Agg(g[k - 1], ws, k)
                                ELSE g[k - 1]]
           g == CHOOSE x : Defines(x)
<1>1. n \in Nat /\ first \in S
  <2>1. first \in SeqRow /\ first.trend = t /\ first.sfs = <<>>
    BY DEF SeqRow
  <2> QED
    BY <2>1 DEF Grounded
<1>2. ASSUME NEW k \in 1 .. n, NEW q \in S, k \in InRange(ws, t.start, t.end)
      PROVE  Agg(q, ws, k) \in S
  <2>1. q \in SeqRow /\ q.trend = t /\ Grounded(q, ws) /\ k \in 1 .. Len(ws)
    OBVIOUS
  <2>2. k \in InRange(ws, q.trend.start, q.trend.end)
    BY <1>2, <2>1
  <2>3. Agg(q, ws, k) \in SeqRow /\ Agg(q, ws, k).trend = q.trend /\ Grounded(Agg(q, ws, k), ws)
    BY <2>1, <2>2, AggGrounded
  <2> QED
    BY <2>1, <2>3
<1> HIDE DEF n, S, first
<1>3. h \in [1 .. n -> [S -> S]]
  BY <1>2
<1>4. \A k \in 1 .. n, q \in S : h[k][q] = IF k \in InRange(ws, t.start, t.end)
                                          THEN Agg(q, ws, k) ELSE q
  OBVIOUS
<1> HIDE DEF h
<1>5. PICK f : Iterates(f, n, S, first, h)
  BY <1>1, <1>3, RecursionExists, Zenon
<1>6. /\ f \in [0 .. n -> S] /\ f[0] = first
      /\ \A k \in 1 .. n : f[k] = h[k][f[k - 1]] /\ f[k - 1] \in S
  <2>1. \A k \in 1 .. n : k - 1 \in 0 .. n
    BY <1>1
  <2>2. f \in [0 .. n -> S] /\ f[0] = first /\ \A k \in 1 .. n : f[k] = h[k][f[k - 1]]
    BY <1>5 DEF Iterates
  <2> QED
    BY <2>1, <2>2
<1>7. Defines(f)
  <2>1. \A k \in 0 .. n : k # 0 => k \in 1 .. n
    BY <1>1
  <2>2. \A k \in 0 .. n : f[k] = IF k = 0 THEN first
                                ELSE IF k \in InRange(ws, t.start, t.end) THEN Agg(f[k - 1], ws, k)
                                ELSE f[k - 1]
    BY <1>4, <1>6, <2>1
  <2>3. f = [k \in 0 .. n |-> f[k]]
    BY <1>6
  <2> QED
    BY <2>2, <2>3
<1>8. Defines(g)
  <2> HIDE DEF Defines
  <2> QED
    BY <1>7
<1>9. Against(t, ws) = g[n]
  BY DEF Against, n, first
<1>10. /\ g[0] = first
       /\ \A k \in 1 .. n : g[k] = IF k \in InRange(ws, t.start, t.end)
                                   THEN Agg(g[k - 1], ws, k) ELSE g[k - 1]
  <2>1. g = [k \in 0 .. n |-> IF k = 0 THEN first
                              ELSE IF k \in InRange(ws, t.start, t.end) THEN Agg(g[k - 1], ws, k)
                              ELSE g[k - 1]]
    BY <1>8
  <2>2. 0 \in 0 .. n /\ \A k \in 1 .. n : k \in 0 .. n /\ k # 0
    BY <1>1
  <2> HIDE DEF g
  <2> QED
    BY <2>1, <2>2, Zenon
<1> HIDE DEF g
<1> DEFINE P == {k \in 0 .. n : g[k] \in S}
<1>11. 0 \in P
  BY <1>1, <1>10
<1>12. ASSUME NEW k \in 1 .. n, k - 1 \in P PROVE k \in P
  <2>1. g[k - 1] \in S /\ k \in 0 .. n
    BY <1>1, <1>12
  <2>2. g[k] \in S
    BY <1>2, <1>10, <2>1, Zenon
  <2> QED
    BY <2>1, <2>2
<1>13. \A k \in 0 .. n : k \in P
  <2> HIDE DEF P
  <2> QED
    BY <1>1, <1>11, <1>12, Reaches
<1>14. g[n] \in S
  BY <1>1, <1>13
<1>15. AgainstBy(g, t, ws)
  BY <1>9, <1>10 DEF AgainstBy, n, first
<1> QED
  BY <1>9, <1>14, <1>15 DEF S

\* The swings of a trend against it.
LEMMA AgainstIs ==
    ASSUME NEW t \in TrendRow, NEW ws \in Seq(SwingRow)
    PROVE  Against(t, ws) \in SeqRow /\ Against(t, ws).trend = t /\ Grounded(Against(t, ws), ws)
BY AgainstRuns

\* What a pullback is that began with swing lim of trend t.
PullbackOf(q, t, lim, ws) ==
    /\ q \in SeqRow /\ Grounded(q, ws)
    /\ q.trend.dir = Opposite(t.dir) /\ q.trend.start = lim /\ q.trend.id = NoId /\ ~q.trend.done

\* Updated and its ranges, a pullback remains one.
LEMMA PullbackGoesOn ==
    ASSUME NEW q, NEW t \in TrendRow, NEW lim, NEW ws \in Seq(SwingRow), PullbackOf(q, t, lim, ws),
           NEW k \in 1 .. Len(ws), lim <= k, q.sfs = <<>> \/ q.trend.end <= k
    PROVE  /\ PullbackOf(Updated(Agg(q, ws, k), ws, k), t, lim, ws)
           /\ Updated(Agg(q, ws, k), ws, k).trend.end = k
<1>1. PICK p : p = Agg(q, ws, k)
  OBVIOUS
<1>2. PICK r : r = Updated(p, ws, k)
  OBVIOUS
<1>3. q \in SeqRow /\ q.trend \in TrendRow
  BY DEF PullbackOf, SeqRow
<1>4. p \in SeqRow /\ p.trend = q.trend /\ (ws[k].dir = q.trend.dir => p = q)
  BY <1>1, <1>3, AggIs
<1>5. r \in SeqRow /\ r.sfs = p.sfs /\ r.trend = Extended(q.trend, ws, k)
  BY <1>2, <1>4, UpdatedIs
<1>6. /\ r.trend.id = q.trend.id /\ r.trend.dir = q.trend.dir /\ r.trend.done = q.trend.done
      /\ r.trend.start = q.trend.start /\ r.trend.end = k
  <2>1. PICK u : u = Extended(q.trend, ws, k)
    OBVIOUS
  <2>2. SameTrend(u, q.trend) /\ u.done = q.trend.done /\ u.start = q.trend.start /\ u.end = k
    BY <1>3, <2>1, ExtendedIs
  <2> QED
    BY <1>5, <2>1, <2>2 DEF SameTrend
<1>7. Grounded(r, ws)
  <2>1. SUFFICES ASSUME r.sfs # <<>> PROVE Countered(r.trend, ws)
    BY DEF Grounded
  <2>2. CASE ws[k].dir # q.trend.dir
    <3>1. k \in InRange(ws, r.trend.start, r.trend.end)
      BY <1>6 DEF InRange, PullbackOf
    <3> QED
      BY <1>6, <2>2, <3>1 DEF Countered
  <2>3. CASE ws[k].dir = q.trend.dir
    <3>1. Countered(q.trend, ws)
      BY <1>4, <1>5, <2>1, <2>3 DEF Grounded, PullbackOf
    <3>2. PICK j \in InRange(ws, q.trend.start, q.trend.end) : ws[j].dir # q.trend.dir
      BY <3>1 DEF Countered
    <3>3. j \in 1 .. Len(ws) /\ q.trend.start <= j /\ j <= q.trend.end
      BY <3>2 DEF InRange
    <3>4. q.trend.end \in Nat
      BY <1>3 DEF TrendRow
    <3>5. j <= k
      BY <1>4, <1>5, <2>1, <2>3, <3>3, <3>4
    <3>6. j \in InRange(ws, r.trend.start, r.trend.end)
      BY <1>6, <3>3, <3>5 DEF InRange
    <3> QED
      BY <1>6, <3>2, <3>6 DEF Countered
  <2> QED
    BY <2>2, <2>3
<1> QED
  BY <1>1, <1>2, <1>5, <1>6, <1>7 DEF PullbackOf

\* The sequences, swing by swing, that lead to a pullback.
PullbackBy(g, t, ws, lim) ==
    /\ g[0] = [trend |-> [id |-> NoId, dir |-> Opposite(t.dir), start |-> lim, end |-> t.end,
                          high |-> ws[lim].high, low |-> ws[lim].low, done |-> FALSE],
               sfs |-> <<>>]
    /\ \A k \in 1 .. Len(ws) : g[k] = IF k \in InRange(ws, lim, t.end)
                                      THEN Updated(Agg(g[k - 1], ws, k), ws, k) ELSE g[k - 1]
    /\ PullbackFrom(t, ws, lim) = g[Len(ws)]

\* The pullback against trend t since its swing lim, which lies in it.
LEMMA PullbackRuns ==
    ASSUME NEW t \in TrendRow, NEW ws \in Seq(SwingRow), t.end <= Len(ws),
           NEW lim \in 1 .. Len(ws), lim <= t.end
    PROVE  /\ PullbackOf(PullbackFrom(t, ws, lim), t, lim, ws) /\ PullbackFrom(t, ws, lim).trend.end = t.end
           /\ \E g : PullbackBy(g, t, ws, lim)
<1> DEFINE n == Len(ws)
           e == t.end
           S == {q \in SeqRow : PullbackOf(q, t, lim, ws)}
           In(k) == k \in InRange(ws, lim, e)
           begun == [id |-> NoId, dir |-> Opposite(t.dir), start |-> lim, end |-> t.end,
                     high |-> ws[lim].high, low |-> ws[lim].low, done |-> FALSE]
           first == [trend |-> begun, sfs |-> <<>>]
           \* What the sequence is behind swing k.
           V == [k \in 0 .. n |-> {q \in S : /\ q.sfs = <<>> \/ q.trend.end <= k
                                             /\ k < lim => q.sfs = <<>>
                                             /\ k >= e => q.trend.end = e}]
           h == [k \in 1 .. n |-> [q \in S |-> IF In(k) /\ q \in V[k - 1]
                                              THEN Updated(Agg(q, ws, k), ws, k) ELSE q]]
           Defines(g) == g = [k \in 0 .. n |->
                                IF k = 0 THEN first
                                ELSE IF In(k) THEN Updated(Agg(g[k - 1], ws, k), ws, k)
                                ELSE g[k - 1]]
           g == CHOOSE x : Defines(x)
<1>1. n \in Nat /\ e \in 1 .. n /\ lim \in 1 .. e
  BY DEF TrendRow
<1>2. first \in V[0] /\ V \in [0 .. n -> SUBSET S]
  <2>1. ws[lim] \in SwingRow
    OBVIOUS
  <2>2. ws[lim].high \in Int /\ ws[lim].low \in Int /\ lim \in Nat \ {0}
    BY <2>1 DEF SwingRow
  <2>3. Opposite(t.dir) \in Directions /\ NoId \in Nat
    BY DEF Opposite, Directions, NoId
  <2>4. begun \in TrendRow
    BY <1>1, <2>2, <2>3 DEF TrendRow
  <2>5. first \in SeqRow /\ first.trend = begun /\ first.sfs = <<>>
    BY <2>4 DEF SeqRow
  <2>6. PullbackOf(first, t, lim, ws)
    BY <2>5 DEF PullbackOf, Grounded
  <2>7. 0 \in 0 .. n /\ 0 < lim
    BY <1>1
  <2>8. first.trend.end = e
    BY <2>5
  <2> HIDE DEF first, begun
  <2> QED
    BY <2>5, <2>6, <2>7, <2>8
<1>3. \A k \in 0 .. n, q \in S : q \in V[k] <=> /\ q.sfs = <<>> \/ q.trend.end <= k
                                                /\ k < lim => q.sfs = <<>>
                                                /\ k >= e => q.trend.end = e
  OBVIOUS
<1>4. \A q \in S : PullbackOf(q, t, lim, ws) /\ q.trend.end \in Nat
  BY DEF SeqRow, TrendRow
<1>5. \A q : PullbackOf(q, t, lim, ws) => q \in S
  BY DEF PullbackOf
<1>6. \A k \in 1 .. n : (In(k) <=> lim <= k /\ k <= e) /\ k - 1 \in 0 .. n /\ k \in 0 .. n /\ k # 0
  BY <1>1 DEF InRange
<1> HIDE DEF n, e, S, V, first, In
<1>7. ASSUME NEW k \in 1 .. n, NEW q \in V[k - 1]
      PROVE  /\ In(k) => Updated(Agg(q, ws, k), ws, k) \in V[k]
             /\ ~In(k) => q \in V[k]
  <2>1. q \in S /\ k - 1 \in 0 .. n /\ k \in 0 .. n /\ k \in 1 .. Len(ws)
    BY <1>2, <1>6 DEF n
  <2>2. /\ q.sfs = <<>> \/ q.trend.end <= k - 1
        /\ k - 1 < lim => q.sfs = <<>>
        /\ k - 1 >= e => q.trend.end = e
    BY <1>3, <2>1
  <2>3. PullbackOf(q, t, lim, ws) /\ q.trend.end \in Nat
    BY <1>4, <2>1
  <2>4. ASSUME In(k) PROVE Updated(Agg(q, ws, k), ws, k) \in V[k]
    <3>1. lim <= k /\ k <= e /\ k \in Int /\ e \in Int /\ lim \in Int
      BY <1>1, <1>6, <2>4
    <3>2. q.sfs = <<>> \/ q.trend.end <= k
      BY <2>2, <2>3, <3>1
    <3>3. PICK r : r = Updated(Agg(q, ws, k), ws, k)
      OBVIOUS
    <3>4. PullbackOf(r, t, lim, ws) /\ r.trend.end = k
      BY <2>1, <2>3, <3>1, <3>2, <3>3, PullbackGoesOn
    <3>5. r \in S
      BY <1>5, <3>4
    <3> QED
      BY <1>3, <2>1, <3>1, <3>3, <3>4, <3>5
  <2>5. ASSUME ~In(k) PROVE q \in V[k]
    <3>1. k < lim \/ k > e
      BY <1>1, <1>6, <2>5
    <3>2. k \in Int /\ e \in Int /\ lim \in Int /\ lim <= e
      BY <1>1
    <3> QED
      BY <1>3, <2>1, <2>2, <2>3, <3>1, <3>2
  <2> QED
    BY <2>4, <2>5
<1>8. h \in [1 .. n -> [S -> S]]
  <2>1. ASSUME NEW k \in 1 .. n, NEW q \in S, In(k), q \in V[k - 1]
        PROVE  Updated(Agg(q, ws, k), ws, k) \in S
    BY <1>2, <1>6, <1>7, <2>1
  <2> QED
    BY <2>1
<1>9. \A k \in 1 .. n, q \in S : q \in V[k - 1] =>
          h[k][q] = IF In(k) THEN Updated(Agg(q, ws, k), ws, k) ELSE q
  OBVIOUS
<1> HIDE DEF h
<1>10. \A k \in 1 .. n : \A q \in V[k - 1] : q \in S /\ h[k][q] \in V[k]
  <2>1. SUFFICES ASSUME NEW k \in 1 .. n, NEW q \in V[k - 1] PROVE q \in S /\ h[k][q] \in V[k]
    OBVIOUS
  <2>2. q \in S
    BY <1>2, <1>6
  <2>3. h[k][q] = IF In(k) THEN Updated(Agg(q, ws, k), ws, k) ELSE q
    BY <1>9, <2>2
  <2> QED
    BY <1>7, <2>2, <2>3
<1>11. PICK f : Iterates(f, n, S, first, h) /\ \A k \in 0 .. n : f[k] \in V[k]
  BY <1>1, <1>2, <1>8, <1>10, StagesExist, Zenon
<1>12. /\ f \in [0 .. n -> S] /\ f[0] = first
       /\ \A k \in 1 .. n : f[k] = IF In(k) THEN Updated(Agg(f[k - 1], ws, k), ws, k) ELSE f[k - 1]
  <2>1. f \in [0 .. n -> S] /\ f[0] = first /\ \A k \in 1 .. n : f[k] = h[k][f[k - 1]]
    BY <1>11 DEF Iterates
  <2>2. \A k \in 1 .. n : f[k - 1] \in S /\ f[k - 1] \in V[k - 1]
    BY <1>6, <1>11, <2>1
  <2> QED
    BY <1>9, <2>1, <2>2
<1>13. Defines(f)
  <2>1. \A k \in 0 .. n : k # 0 => k \in 1 .. n
    BY <1>1
  <2>2. \A k \in 0 .. n : f[k] = IF k = 0 THEN first
                                ELSE IF In(k) THEN Updated(Agg(f[k - 1], ws, k), ws, k)
                                ELSE f[k - 1]
    BY <1>12, <2>1
  <2>3. f = [k \in 0 .. n |-> f[k]]
    BY <1>12
  <2> QED
    BY <2>2, <2>3
<1>14. Defines(g)
  <2> HIDE DEF Defines
  <2> QED
    BY <1>13
<1>15. PullbackFrom(t, ws, lim) = g[n]
  BY DEF PullbackFrom, n, first, begun, In, e
<1>16. /\ g[0] = first
       /\ \A k \in 1 .. n : g[k] = IF In(k) THEN Updated(Agg(g[k - 1], ws, k), ws, k) ELSE g[k - 1]
  <2>1. g = [k \in 0 .. n |-> IF k = 0 THEN first
                              ELSE IF In(k) THEN Updated(Agg(g[k - 1], ws, k), ws, k)
                              ELSE g[k - 1]]
    BY <1>14
  <2>2. 0 \in 0 .. n /\ \A k \in 1 .. n : k \in 0 .. n /\ k # 0
    BY <1>1
  <2> HIDE DEF g
  <2> QED
    BY <2>1, <2>2, Zenon
<1> HIDE DEF g
<1> DEFINE P == {k \in 0 .. n : g[k] \in V[k]}
<1>17. 0 \in P
  BY <1>1, <1>2, <1>16
<1>18. ASSUME NEW k \in 1 .. n, k - 1 \in P PROVE k \in P
  <2>1. g[k - 1] \in V[k - 1] /\ k \in 0 .. n
    BY <1>1, <1>18
  <2>2. g[k] \in V[k]
    BY <1>7, <1>16, <2>1, Zenon
  <2> QED
    BY <2>1, <2>2
<1>19. \A k \in 0 .. n : k \in P
  <2> HIDE DEF P
  <2> QED
    BY <1>1, <1>17, <1>18, Reaches
<1>20. n \in 0 .. n /\ n >= e
  BY <1>1
<1>21. g[n] \in V[n] /\ g[n] \in S
  BY <1>2, <1>19, <1>20
<1>22. g[n].trend.end = e
  BY <1>3, <1>20, <1>21
<1>23. PullbackBy(g, t, ws, lim)
  BY <1>15, <1>16 DEF PullbackBy, n, first, begun, In, e
<1> QED
  BY <1>4, <1>15, <1>21, <1>22, <1>23 DEF e

\* The sequence of a pullback that begins at a limit.
LEMMA PullbackFromIs ==
    ASSUME NEW t \in TrendRow, NEW ws \in Seq(SwingRow), t.end <= Len(ws),
           NEW lim \in 1 .. Len(ws), lim <= t.end
    PROVE  PullbackOf(PullbackFrom(t, ws, lim), t, lim, ws) /\ PullbackFrom(t, ws, lim).trend.end = t.end
BY PullbackRuns

-----------------------------------------------------------------------------
(* The rows.                                                               *)

\* The last row is overwritten.
LEMMA WithLastIs ==
    ASSUME NEW rs \in Seq(TrendRow), rs # <<>>, NEW t \in TrendRow
    PROVE  /\ WithLast(rs, t) \in Seq(TrendRow) /\ Len(WithLast(rs, t)) = Len(rs)
           /\ WithLast(rs, t)[Len(rs)] = t
           /\ \A i \in 1 .. Len(rs) - 1 : WithLast(rs, t)[i] = rs[i]
<1>1. PICK n : n = Len(rs)
  OBVIOUS
<1>2. n \in Nat \ {0} /\ rs \in [1 .. n -> TrendRow]
  BY <1>1
<1>3. WithLast(rs, t) = [rs EXCEPT ![n] = t]
  BY <1>1 DEF WithLast
<1>4. [rs EXCEPT ![n] = t] \in [1 .. n -> TrendRow]
  BY <1>2
<1>5. [rs EXCEPT ![n] = t] \in Seq(TrendRow) /\ Len([rs EXCEPT ![n] = t]) = n
  BY <1>2, <1>4, LenProperties, SeqDef
<1>6. [rs EXCEPT ![n] = t][n] = t /\ \A i \in 1 .. n - 1 : [rs EXCEPT ![n] = t][i] = rs[i]
  BY <1>2
<1> QED
  BY <1>1, <1>3, <1>5, <1>6

\* The row before the last, if there is one and it is complete, ends with swing e.
LEMMA PreviousIs ==
    ASSUME NEW rs \in Seq(TrendRow), rs # <<>>, NEW ws \in Seq(SwingRow), NEW e \in 0 .. Len(ws)
    PROVE  /\ PreviousEndsAt(rs, ws, e) \in Seq(TrendRow) /\ Len(PreviousEndsAt(rs, ws, e)) = Len(rs)
           /\ PreviousEndsAt(rs, ws, e)[Len(rs)] = rs[Len(rs)]
           /\ \A i \in 1 .. Len(rs) - 1 :
                  PreviousEndsAt(rs, ws, e)[i] =
                      IF i = Len(rs) - 1 /\ e >= 1 /\ rs[i].done /\ rs[i].end # e
                      THEN Extended(rs[i], ws, e) ELSE rs[i]
<1>1. PICK n : n = Len(rs) - 1
  OBVIOUS
<1>2. n \in Nat /\ Len(rs) = n + 1 /\ rs \in [1 .. n + 1 -> TrendRow]
  BY <1>1
<1>3. CASE n >= 1 /\ e >= 1 /\ rs[n].done /\ rs[n].end # e
  <2>1. PICK t : t = Extended(rs[n], ws, e)
    OBVIOUS
  <2>2. rs[n] \in TrendRow /\ e \in 1 .. Len(ws)
    BY <1>2, <1>3
  <2>3. t \in TrendRow
    BY <2>1, <2>2, ExtendedIs DEF SameTrend
  <2>4. PreviousEndsAt(rs, ws, e) = [rs EXCEPT ![n] = t]
    BY <1>1, <1>3, <2>1 DEF PreviousEndsAt
  <2>5. [rs EXCEPT ![n] = t] \in [1 .. n + 1 -> TrendRow]
    BY <1>2, <2>3
  <2>6. [rs EXCEPT ![n] = t] \in Seq(TrendRow) /\ Len([rs EXCEPT ![n] = t]) = n + 1
    BY <1>2, <2>5, LenProperties, SeqDef
  <2>7. \A i \in 1 .. n + 1 : [rs EXCEPT ![n] = t][i] = IF i = n THEN t ELSE rs[i]
    BY <1>2, <1>3
  <2>8. n + 1 \in 1 .. n + 1 /\ n + 1 # n /\ \A i \in 1 .. n : i \in 1 .. n + 1
    BY <1>2
  <2> QED
    BY <1>1, <1>2, <1>3, <2>1, <2>4, <2>6, <2>7, <2>8
<1>4. CASE ~(n >= 1 /\ e >= 1 /\ rs[n].done /\ rs[n].end # e)
  <2>1. PreviousEndsAt(rs, ws, e) = rs
    BY <1>1, <1>4 DEF PreviousEndsAt
  <2>2. \A i \in 1 .. Len(rs) - 1 : ~(i = n /\ e >= 1 /\ rs[i].done /\ rs[i].end # e)
    BY <1>2, <1>4
  <2> QED
    BY <1>1, <2>1, <2>2
<1> QED
  BY <1>3, <1>4

\* A trend that is to be completed starts at the limit of its own swings, or
\* has none.
LEMMA ToStartLimitIs ==
    ASSUME NEW t \in TrendRow, NEW ws \in Seq(SwingRow), t.start <= t.end, t.end <= Len(ws)
    PROVE  /\ SameTrend(ToStartLimit(t, ws), t) /\ ToStartLimit(t, ws).end = t.end
           /\ t.start <= ToStartLimit(t, ws).start /\ ToStartLimit(t, ws).start <= t.end
           /\ Ranged(ws, t.start, t.end, t.dir) # {} =>
                  AtLimit(ws, Ranged(ws, t.start, t.end, t.dir), StartLimit(t.dir), ToStartLimit(t, ws).start)
<1>1. PICK R, a, lim : /\ R = Ranged(ws, t.start, t.end, t.dir) /\ lim = StartLimit(t.dir)
                       /\ a = LimitSwing(ws, t.start, t.end, t.dir, lim)
  OBVIOUS
<1>2. IF R = {} THEN a = 0 ELSE AtLimit(ws, R, lim, a)
  BY <1>1, LimitIs
<1>3. t.start \in Nat \ {0} /\ t.end \in Nat \ {0}
  BY DEF TrendRow
<1>4. a # 0 => a \in 1 .. Len(ws) /\ t.start <= a /\ a <= t.end /\ a \in Nat \ {0} /\ R # {} /\ AtLimit(ws, R, lim, a)
  BY <1>1, <1>2 DEF AtLimit, Ranged, InRange
<1>5. R # {} => a # 0
  BY <1>1, <1>2 DEF AtLimit, Ranged, InRange
<1>6. CASE a \in {0, t.start}
  <2>1. ToStartLimit(t, ws) = t
    BY <1>1, <1>6 DEF ToStartLimit
  <2>2. R # {} => AtLimit(ws, R, lim, t.start)
    BY <1>2, <1>5, <1>6
  <2> QED
    BY <1>1, <1>3, <2>1, <2>2 DEF SameTrend
<1>7. CASE a \notin {0, t.start}
  <2>1. a \in 1 .. Len(ws) /\ t.start <= a /\ a <= t.end /\ a \in Nat \ {0} /\ AtLimit(ws, R, lim, a)
    BY <1>4, <1>7
  <2>2. PICK u : u = Extended(t, ws, a)
    OBVIOUS
  <2>3. SameTrend(u, t)
    BY <2>1, <2>2, ExtendedIs
  <2>4. PICK v : v = [u EXCEPT !.start = a]
    OBVIOUS
  <2>5. PICK x : x = [v EXCEPT !.end = t.end]
    OBVIOUS
  <2>6. u \in TrendRow /\ v \in TrendRow /\ x \in TrendRow
    BY <1>3, <2>1, <2>3, <2>4, <2>5, TrendFieldChanged DEF SameTrend
  <2>7. ToStartLimit(t, ws) = x
    BY <1>1, <1>7, <2>2, <2>4, <2>5 DEF ToStartLimit
  <2>8. v.id = u.id /\ v.dir = u.dir /\ v.start = a
    BY <2>4, <2>6 DEF TrendRow
  <2>9. x.id = v.id /\ x.dir = v.dir /\ x.start = v.start /\ x.end = t.end
    BY <2>5, <2>6 DEF TrendRow
  <2> QED
    BY <1>1, <2>1, <2>3, <2>6, <2>7, <2>8, <2>9 DEF SameTrend
<1> QED
  BY <1>6, <1>7

\* It ends at the limit of its own swings, or has none.
LEMMA ToEndLimitIs ==
    ASSUME NEW t \in TrendRow, NEW ws \in Seq(SwingRow), t.start <= t.end, t.end <= Len(ws)
    PROVE  /\ SameTrend(ToEndLimit(t, ws), t) /\ ToEndLimit(t, ws).start = t.start
           /\ t.start <= ToEndLimit(t, ws).end /\ ToEndLimit(t, ws).end <= t.end
           /\ Ranged(ws, t.start, t.end, t.dir) # {} =>
                  AtLimit(ws, Ranged(ws, t.start, t.end, t.dir), EndLimit(t.dir), ToEndLimit(t, ws).end)
<1>1. PICK R, b, lim : /\ R = Ranged(ws, t.start, t.end, t.dir) /\ lim = EndLimit(t.dir)
                       /\ b = LimitSwing(ws, t.start, t.end, t.dir, lim)
  OBVIOUS
<1>2. IF R = {} THEN b = 0 ELSE AtLimit(ws, R, lim, b)
  BY <1>1, LimitIs
<1>3. t.start \in Nat \ {0} /\ t.end \in Nat \ {0}
  BY DEF TrendRow
<1>4. b # 0 => b \in 1 .. Len(ws) /\ t.start <= b /\ b <= t.end /\ R # {} /\ AtLimit(ws, R, lim, b)
  BY <1>1, <1>2 DEF AtLimit, Ranged, InRange
<1>5. R # {} => b # 0
  BY <1>1, <1>2 DEF AtLimit, Ranged, InRange
<1>6. CASE b = 0
  <2>1. ToEndLimit(t, ws) = t
    BY <1>1, <1>6 DEF ToEndLimit
  <2> QED
    BY <1>1, <1>3, <1>5, <1>6, <2>1 DEF SameTrend
<1>7. CASE b # 0
  <2>1. PICK u : u = Extended(t, ws, b)
    OBVIOUS
  <2>2. SameTrend(u, t) /\ u.start = t.start /\ u.end = b
    BY <1>4, <1>7, <2>1, ExtendedIs
  <2>3. ToEndLimit(t, ws) = u
    BY <1>1, <1>7, <2>1 DEF ToEndLimit
  <2> QED
    BY <1>1, <1>4, <1>7, <2>2, <2>3
<1> QED
  BY <1>6, <1>7

\* The completed row for trend t.
Finished(t, ws) == [ToEndLimit(t, ws) EXCEPT !.done = TRUE]

\* A finished trend ends at its limit.
LEMMA FinishedIs ==
    ASSUME NEW t \in TrendRow, NEW ws \in Seq(SwingRow), t.start <= t.end, t.end <= Len(ws)
    PROVE  /\ SameTrend(Finished(t, ws), t) /\ Finished(t, ws).done /\ Finished(t, ws).start = t.start
           /\ t.start <= Finished(t, ws).end /\ Finished(t, ws).end <= t.end
           /\ Ranged(ws, t.start, t.end, t.dir) # {} =>
                  AtLimit(ws, Ranged(ws, t.start, t.end, t.dir), EndLimit(t.dir), Finished(t, ws).end)
<1>1. PICK u : u = ToEndLimit(t, ws)
  OBVIOUS
<1>2. /\ SameTrend(u, t) /\ u.start = t.start /\ t.start <= u.end /\ u.end <= t.end
      /\ Ranged(ws, t.start, t.end, t.dir) # {} =>
             AtLimit(ws, Ranged(ws, t.start, t.end, t.dir), EndLimit(t.dir), u.end)
  BY <1>1, ToEndLimitIs
<1>3. PICK v : v = [u EXCEPT !.done = TRUE]
  OBVIOUS
<1>4. u \in TrendRow /\ v \in TrendRow
  BY <1>2, <1>3, TrendFieldChanged DEF SameTrend
<1>5. v.id = u.id /\ v.dir = u.dir /\ v.start = u.start /\ v.end = u.end /\ v.done
  BY <1>3, <1>4 DEF TrendRow
<1>6. Finished(t, ws) = v
  BY <1>1, <1>3 DEF Finished
<1> QED
  BY <1>2, <1>4, <1>5, <1>6 DEF SameTrend

\* The states of the rebuild.
StateRow == [rows : Seq(TrendRow), ids : Nat, active : SeqRow \cup {NoSeq}, pullback : SeqRow \cup {NoSeq}]

\* A state with another field.
LEMMA StateFieldChanged ==
    ASSUME NEW s \in StateRow
    PROVE  /\ \A x \in Seq(TrendRow) : [s EXCEPT !.rows = x] \in StateRow
           /\ \A x \in SeqRow \cup {NoSeq} : /\ [s EXCEPT !.active = x] \in StateRow
                                             /\ [s EXCEPT !.pullback = x] \in StateRow
BY DEF StateRow

\* The rows when trend t becomes the last of them, and complete.
SettledRows(rs, first, t, ws) ==
    WithLast(IF t.start = first THEN rs ELSE PreviousEndsAt(rs, ws, t.start - 1), Finished(t, ws))

\* The rows after confirm_trend.
CompletedRows(rs, t, ws) == SettledRows(rs, t.start, ToStartLimit(t, ws), ws)

\* Of the rows only the last and the end of the one before it change.
LEMMA SettledRowsAre ==
    ASSUME NEW rs \in Seq(TrendRow), rs # <<>>, NEW first, NEW t \in TrendRow,
           NEW ws \in Seq(SwingRow), t.start <= t.end, t.end <= Len(ws)
    PROVE  /\ SettledRows(rs, first, t, ws) \in Seq(TrendRow)
           /\ Len(SettledRows(rs, first, t, ws)) = Len(rs)
           /\ SettledRows(rs, first, t, ws)[Len(rs)] = Finished(t, ws)
           /\ \A i \in 1 .. Len(rs) - 1 :
                  SettledRows(rs, first, t, ws)[i] =
                      IF /\ t.start # first /\ i = Len(rs) - 1 /\ t.start - 1 >= 1
                         /\ rs[i].done /\ rs[i].end # t.start - 1
                      THEN Extended(rs[i], ws, t.start - 1) ELSE rs[i]
<1>1. PICK r : r = IF t.start = first THEN rs ELSE PreviousEndsAt(rs, ws, t.start - 1)
  OBVIOUS
<1>2. t.start - 1 \in 0 .. Len(ws)
  <2>1. t.start \in Nat \ {0} /\ t.end \in Nat /\ Len(ws) \in Nat
    BY DEF TrendRow
  <2> QED
    BY <2>1
<1>3. /\ r \in Seq(TrendRow) /\ Len(r) = Len(rs)
      /\ \A i \in 1 .. Len(rs) - 1 :
             r[i] = IF /\ t.start # first /\ i = Len(rs) - 1 /\ t.start - 1 >= 1
                       /\ rs[i].done /\ rs[i].end # t.start - 1
                    THEN Extended(rs[i], ws, t.start - 1) ELSE rs[i]
  <2>1. CASE t.start = first
    BY <1>1, <2>1
  <2>2. CASE t.start # first
    <3>1. PICK e : e = t.start - 1
      OBVIOUS
    <3>2. r = PreviousEndsAt(rs, ws, e) /\ e \in 0 .. Len(ws)
      BY <1>1, <1>2, <2>2, <3>1
    <3>3. /\ r \in Seq(TrendRow) /\ Len(r) = Len(rs)
          /\ \A i \in 1 .. Len(rs) - 1 :
                 r[i] = IF i = Len(rs) - 1 /\ e >= 1 /\ rs[i].done /\ rs[i].end # e
                        THEN Extended(rs[i], ws, e) ELSE rs[i]
      BY <3>2, PreviousIs
    <3> QED
      BY <2>2, <3>1, <3>3
  <2> QED
    BY <2>1, <2>2
<1>4. r # <<>> /\ Finished(t, ws) \in TrendRow
  BY <1>3, FinishedIs DEF SameTrend
<1>5. SettledRows(rs, first, t, ws) = WithLast(r, Finished(t, ws))
  BY <1>1 DEF SettledRows
<1>6. PICK w, f : f = Finished(t, ws) /\ w = WithLast(r, f)
  OBVIOUS
<1>7. /\ w \in Seq(TrendRow) /\ Len(w) = Len(r) /\ w[Len(r)] = f
      /\ \A i \in 1 .. Len(r) - 1 : w[i] = r[i]
  BY <1>3, <1>4, <1>6, WithLastIs
<1> QED
  BY <1>3, <1>5, <1>6, <1>7

\* A trend settled in the last row changes the rows alone.
LEMMA SettleIs ==
    ASSUME NEW s \in StateRow, s.rows # <<>>, NEW first, NEW t \in TrendRow,
           NEW ws \in Seq(SwingRow), t.start <= t.end, t.end <= Len(ws)
    PROVE  /\ Settle(s, first, t, ws) \in StateRow
           /\ Settle(s, first, t, ws).rows = SettledRows(s.rows, first, t, ws)
           /\ Settle(s, first, t, ws).ids = s.ids
           /\ Settle(s, first, t, ws).active = s.active
           /\ Settle(s, first, t, ws).pullback = s.pullback
<1>1. PICK r : r = SettledRows(s.rows, first, t, ws)
  OBVIOUS
<1>2. Settle(s, first, t, ws) = [s EXCEPT !.rows = r]
  BY <1>1 DEF Settle, SettledRows, Finished
<1>3. s.rows \in Seq(TrendRow)
  BY DEF StateRow
<1>4. r \in Seq(TrendRow)
  BY <1>1, <1>3, SettledRowsAre
<1>5. [s EXCEPT !.rows = r] \in StateRow
  BY <1>4, StateFieldChanged
<1>6. /\ [s EXCEPT !.rows = r].rows = r /\ [s EXCEPT !.rows = r].ids = s.ids
      /\ [s EXCEPT !.rows = r].active = s.active /\ [s EXCEPT !.rows = r].pullback = s.pullback
  BY DEF StateRow
<1> QED
  BY <1>1, <1>2, <1>5, <1>6

\* confirm_trend changes the rows only.
LEMMA CompletedIs ==
    ASSUME NEW s \in StateRow, s.rows # <<>>, NEW t \in TrendRow,
           NEW ws \in Seq(SwingRow), t.start <= t.end, t.end <= Len(ws)
    PROVE  /\ Completed(s, t, ws) \in StateRow
           /\ Completed(s, t, ws).rows = CompletedRows(s.rows, t, ws)
           /\ Completed(s, t, ws).ids = s.ids
           /\ Completed(s, t, ws).active = s.active
           /\ Completed(s, t, ws).pullback = s.pullback
<1>1. PICK u : u = ToStartLimit(t, ws)
  OBVIOUS
<1>2. u \in TrendRow /\ u.start <= u.end /\ u.end <= Len(ws)
  BY <1>1, ToStartLimitIs DEF SameTrend
<1>3. PICK first : first = t.start
  OBVIOUS
<1> QED
  BY <1>1, <1>2, <1>3, SettleIs DEF Completed, CompletedRows

-----------------------------------------------------------------------------
(* What holds of the states of the rebuild.                                *)

\* A row that is complete by swing k.
Ended(r, k) == r.done /\ r.start <= r.end /\ r.end <= k

\* The rows in order up to swing k, where the last, which may be any, begins
\* no earlier than with swing a.
RowsTo(rs, k, a) ==
    /\ rs \in Seq(TrendRow) /\ rs # <<>>
    /\ \A i \in 1 .. Len(rs) - 1 :
           /\ Ended(rs[i], k)
           /\ IF i = Len(rs) - 1 THEN rs[i].start < a ELSE rs[i].start < rs[i + 1].start

\* A sequence whose trend goes on at swing k, and which may begin behind it.
Going(q, ws, k) ==
    /\ q \in SeqRow /\ ~q.trend.done /\ q.trend.end = k
    /\ q.trend.start <= Len(ws) /\ q.trend.start <= k + 1 /\ Grounded(q, ws)

\* The state behind swing k.  A trend that would begin behind the last swing
\* is not begun; a pullback lies in the active trend.
State(s, ws, k) ==
    /\ s \in StateRow /\ RowsTo(s.rows, k, s.rows[Len(s.rows)].start)
    /\ IF s.active = NoSeq THEN k = Len(ws) /\ s.pullback = NoSeq /\ Ended(s.rows[Len(s.rows)], k)
       ELSE Going(s.active, ws, k) /\ s.rows[Len(s.rows)] = s.active.trend
    /\ s.pullback # NoSeq => /\ s.active # NoSeq
                             /\ Going(s.pullback, ws, k) /\ s.pullback.trend.id = NoId
                             /\ s.active.trend.start <= s.pullback.trend.start
                             /\ s.pullback.trend.start <= k

\* Rows that are in order stay so as the swings go on.
LEMMA RowsGoOn ==
    ASSUME NEW rs, NEW k \in Nat, NEW a \in Nat, NEW m \in Nat, NEW b \in Nat,
           RowsTo(rs, k, a), k <= m, a <= b
    PROVE  RowsTo(rs, m, b)
<1>1. \A i \in 1 .. Len(rs) - 1 : rs[i] \in TrendRow
  BY DEF RowsTo
<1>2. \A i \in 1 .. Len(rs) - 1 : rs[i].start \in Nat /\ rs[i].end \in Nat
  BY <1>1 DEF TrendRow
<1>3. \A i \in 1 .. Len(rs) - 1 : Ended(rs[i], m)
  BY <1>2 DEF RowsTo, Ended
<1>4. \A i \in 1 .. Len(rs) - 1 :
          IF i = Len(rs) - 1 THEN rs[i].start < b ELSE rs[i].start < rs[i + 1].start
  BY <1>2 DEF RowsTo
<1> QED
  BY <1>3, <1>4 DEF RowsTo

\* They stay in order when the last is overwritten.
LEMMA WithLastRows ==
    ASSUME NEW rs, NEW k, NEW a, RowsTo(rs, k, a), NEW t \in TrendRow
    PROVE  /\ RowsTo(WithLast(rs, t), k, a) /\ Len(WithLast(rs, t)) = Len(rs)
           /\ WithLast(rs, t)[Len(rs)] = t
<1>1. PICK w : w = WithLast(rs, t)
  OBVIOUS
<1>2. rs \in Seq(TrendRow) /\ rs # <<>>
  BY DEF RowsTo
<1>3. /\ w \in Seq(TrendRow) /\ Len(w) = Len(rs) /\ w[Len(rs)] = t
      /\ \A i \in 1 .. Len(rs) - 1 : w[i] = rs[i]
  BY <1>1, <1>2, WithLastIs
<1>4. \A i \in 1 .. Len(rs) - 1 : i # Len(rs) - 1 => i + 1 \in 1 .. Len(rs) - 1
  BY <1>2
<1>5. w # <<>>
  BY <1>2, <1>3
<1>6. ASSUME NEW i \in 1 .. Len(w) - 1
      PROVE  /\ Ended(w[i], k)
             /\ IF i = Len(w) - 1 THEN w[i].start < a ELSE w[i].start < w[i + 1].start
  <2>1. i \in 1 .. Len(rs) - 1 /\ w[i] = rs[i]
    BY <1>3
  <2>2. /\ Ended(rs[i], k)
        /\ IF i = Len(rs) - 1 THEN rs[i].start < a ELSE rs[i].start < rs[i + 1].start
    BY <2>1 DEF RowsTo
  <2>3. i # Len(rs) - 1 => w[i + 1] = rs[i + 1]
    BY <1>3, <1>4, <2>1
  <2> QED
    BY <1>3, <2>1, <2>2, <2>3
<1> QED
  BY <1>1, <1>3, <1>5, <1>6 DEF RowsTo

\* They stay in order when the last becomes a completed trend, whose start
\* ends the row before.
LEMMA CompletedRowsOrdered ==
    ASSUME NEW rs, NEW ws \in Seq(SwingRow), NEW k \in 1 .. Len(ws), NEW a \in Nat, RowsTo(rs, k, a),
           NEW t \in TrendRow, a <= t.start, t.start <= t.end, t.end <= k
    PROVE  /\ RowsTo(CompletedRows(rs, t, ws), k, a)
           /\ Len(CompletedRows(rs, t, ws)) = Len(rs)
           /\ Ended(CompletedRows(rs, t, ws)[Len(rs)], k)
           /\ CompletedRows(rs, t, ws)[Len(rs)].start >= t.start
           /\ CompletedRows(rs, t, ws)[Len(rs)].id = t.id
<1>1. PICK u : u = ToStartLimit(t, ws)
  OBVIOUS
<1>2. t.start \in Nat /\ t.end \in Nat /\ t.end <= Len(ws)
  BY DEF TrendRow
<1>3. SameTrend(u, t) /\ u.end = t.end /\ t.start <= u.start /\ u.start <= t.end
  BY <1>1, <1>2, ToStartLimitIs
<1>4. u \in TrendRow /\ u.start <= u.end /\ u.end <= Len(ws) /\ u.start \in Nat \ {0}
  BY <1>2, <1>3 DEF SameTrend, TrendRow
<1>5. PICK f : f = Finished(u, ws)
  OBVIOUS
<1>6. SameTrend(f, u) /\ f.done /\ f.start = u.start /\ u.start <= f.end /\ f.end <= u.end
  BY <1>4, <1>5, FinishedIs
<1>7. Ended(f, k) /\ f.start >= t.start /\ f.id = t.id
  <2>1. f \in TrendRow /\ f.id = u.id /\ u.id = t.id
    BY <1>3, <1>6 DEF SameTrend
  <2>2. f.end \in Nat
    BY <2>1 DEF TrendRow
  <2> QED
    BY <1>2, <1>3, <1>4, <1>6, <2>1, <2>2 DEF Ended
<1>8. rs \in Seq(TrendRow) /\ rs # <<>>
  BY DEF RowsTo
<1>9. PICK e : e = u.start - 1
  OBVIOUS
<1>10. PICK w, first : first = t.start /\ w = SettledRows(rs, first, u, ws)
  OBVIOUS
<1>11. /\ w \in Seq(TrendRow) /\ Len(w) = Len(rs) /\ w[Len(rs)] = f
       /\ \A i \in 1 .. Len(rs) - 1 :
              w[i] = IF /\ u.start # first /\ i = Len(rs) - 1 /\ e >= 1
                        /\ rs[i].done /\ rs[i].end # e
                     THEN Extended(rs[i], ws, e) ELSE rs[i]
  BY <1>4, <1>5, <1>8, <1>9, <1>10, SettledRowsAre
<1>12. ASSUME NEW i \in 1 .. Len(rs) - 1
       PROVE  Ended(w[i], k) /\ w[i].start = rs[i].start
  <2>1. /\ rs[i] \in TrendRow /\ Ended(rs[i], k)
        /\ i = Len(rs) - 1 => rs[i].start < a
    BY <1>8 DEF RowsTo
  <2>2. CASE ~(/\ u.start # first /\ i = Len(rs) - 1 /\ e >= 1 /\ rs[i].done /\ rs[i].end # e)
    BY <1>11, <2>1, <2>2
  <2>3. CASE /\ u.start # first /\ i = Len(rs) - 1 /\ e >= 1 /\ rs[i].done /\ rs[i].end # e
    <3>1. e \in 1 .. Len(ws) /\ e <= k
      BY <1>2, <1>3, <1>4, <1>9, <2>3
    <3>2. PICK x : x = Extended(rs[i], ws, e)
      OBVIOUS
    <3>3. x.done = rs[i].done /\ x.start = rs[i].start /\ x.end = e
      BY <2>1, <3>1, <3>2, ExtendedIs
    <3>4. w[i] = x
      BY <1>11, <2>3, <3>2
    <3>5. rs[i].start \in Nat /\ rs[i].start < a
      BY <2>1, <2>3 DEF TrendRow
    <3>6. rs[i].start <= e
      BY <1>2, <1>3, <1>4, <1>9, <3>5
    <3> QED
      BY <2>3, <3>1, <3>3, <3>4, <3>6 DEF Ended
  <2> QED
    BY <2>2, <2>3
<1>13. ASSUME NEW i \in 1 .. Len(w) - 1
       PROVE  IF i = Len(w) - 1 THEN w[i].start < a ELSE w[i].start < w[i + 1].start
  <2>1. i \in 1 .. Len(rs) - 1 /\ w[i].start = rs[i].start
    BY <1>11, <1>12
  <2>2. i # Len(rs) - 1 => w[i + 1].start = rs[i + 1].start
    BY <1>8, <1>12, <2>1
  <2>3. IF i = Len(rs) - 1 THEN rs[i].start < a ELSE rs[i].start < rs[i + 1].start
    BY <2>1 DEF RowsTo
  <2> QED
    BY <1>11, <2>1, <2>2, <2>3
<1>14. w # <<>> /\ \A i \in 1 .. Len(w) - 1 : Ended(w[i], k)
  BY <1>8, <1>11, <1>12
<1>15. RowsTo(w, k, a)
  BY <1>11, <1>13, <1>14 DEF RowsTo
<1>16. CompletedRows(rs, t, ws) = w
  BY <1>1, <1>10 DEF CompletedRows
<1> QED
  BY <1>7, <1>11, <1>15, <1>16

\* A grounded sequence stays grounded when its trend goes on.
LEMMA GoesOn ==
    ASSUME NEW q \in SeqRow, NEW ws \in Seq(SwingRow), Grounded(q, ws),
           NEW k \in 1 .. Len(ws), q.trend.start <= k, q.trend.end <= k
    PROVE  /\ Agg(Updated(q, ws, k), ws, k) \in SeqRow
           /\ Agg(Updated(q, ws, k), ws, k).trend = Extended(q.trend, ws, k)
           /\ Grounded(Agg(Updated(q, ws, k), ws, k), ws)
<1>1. PICK p : p = Updated(q, ws, k)
  OBVIOUS
<1>2. q.trend \in TrendRow /\ p \in SeqRow /\ p.sfs = q.sfs /\ p.trend = Extended(q.trend, ws, k)
  BY <1>1, UpdatedIs DEF SeqRow
<1>3. p.trend.dir = q.trend.dir /\ p.trend.start = q.trend.start /\ p.trend.end = k
  <2>1. PICK x : x = Extended(q.trend, ws, k)
    OBVIOUS
  <2>2. x.dir = q.trend.dir /\ x.start = q.trend.start /\ x.end = k
    BY <1>2, <2>1, ExtendedIs DEF SameTrend
  <2> QED
    BY <1>2, <2>1, <2>2
<1>4. k \in InRange(ws, p.trend.start, p.trend.end)
  BY <1>3 DEF InRange
<1>5. Grounded(p, ws)
  <2>1. SUFFICES ASSUME p.sfs # <<>> PROVE Countered(p.trend, ws)
    BY DEF Grounded
  <2>2. PICK j \in InRange(ws, q.trend.start, q.trend.end) : ws[j].dir # q.trend.dir
    BY <1>2, <2>1 DEF Grounded, Countered
  <2>3. j \in 1 .. Len(ws) /\ q.trend.start <= j /\ j <= q.trend.end /\ q.trend.end \in Nat
    BY <1>2, <2>2 DEF InRange, TrendRow
  <2>4. j <= k
    BY <2>3
  <2>5. j \in InRange(ws, p.trend.start, p.trend.end)
    BY <1>3, <2>3, <2>4 DEF InRange
  <2> QED
    BY <1>3, <2>2, <2>5 DEF Countered
<1> QED
  BY <1>1, <1>2, <1>4, <1>5, AggGrounded

\* The active trend with swing k.
LEMMA ContinueIs ==
    ASSUME NEW s \in StateRow, NEW ws \in Seq(SwingRow), NEW k \in 1 .. Len(ws),
           s.active # NoSeq, Going(s.active, ws, k - 1), s.rows # <<>>
    PROVE  /\ Continue(s, ws, k) \in StateRow
           /\ Continue(s, ws, k).rows = WithLast(s.rows, Extended(s.active.trend, ws, k))
           /\ Continue(s, ws, k).ids = s.ids /\ Continue(s, ws, k).pullback = s.pullback
           /\ Continue(s, ws, k).active = Agg(Updated(s.active, ws, k), ws, k)
           /\ Going(Continue(s, ws, k).active, ws, k) /\ Continue(s, ws, k).active # NoSeq
           /\ Continue(s, ws, k).active.trend = Extended(s.active.trend, ws, k)
<1>1. PICK q : q = Agg(Updated(s.active, ws, k), ws, k)
  OBVIOUS
<1>2. PICK t : t = s.active.trend
  OBVIOUS
<1>3. PICK u : u = Extended(t, ws, k)
  OBVIOUS
<1>4. s.active \in SeqRow /\ t \in TrendRow /\ Grounded(s.active, ws)
  BY <1>2 DEF Going, SeqRow
<1>5. t.start \in Nat \ {0} /\ t.start <= k /\ t.end <= k /\ ~t.done /\ t.start <= Len(ws)
  BY <1>2, <1>4 DEF Going, TrendRow
<1>6. q \in SeqRow /\ q.trend = u /\ Grounded(q, ws)
  BY <1>1, <1>2, <1>3, <1>4, <1>5, GoesOn
<1>7. SameTrend(u, t) /\ u.done = t.done /\ u.start = t.start /\ u.end = k
  BY <1>3, <1>4, ExtendedIs
<1>8. Going(q, ws, k)
  BY <1>5, <1>6, <1>7 DEF Going
<1>9. q # NoSeq
  <2>1. u.dir \in Directions
    BY <1>7 DEF SameTrend, TrendRow
  <2> QED
    BY <1>6, <2>1 DEF NoSeq, NoTrend, Directions
<1>10. PICK c : c = [s EXCEPT !.active = q]
  OBVIOUS
<1>11. c \in StateRow /\ c.active = q /\ c.rows = s.rows /\ c.ids = s.ids /\ c.pullback = s.pullback
  <2>1. c \in StateRow
    BY <1>6, <1>10, StateFieldChanged
  <2> QED
    BY <1>10, <2>1 DEF StateRow
<1>12. PICK r : r = WithLast(s.rows, u)
  OBVIOUS
<1>13. r \in Seq(TrendRow)
  <2>1. s.rows \in Seq(TrendRow) /\ u \in TrendRow
    BY <1>7 DEF StateRow, SameTrend
  <2> QED
    BY <1>12, <2>1, WithLastIs
<1>14. PICK d : d = [c EXCEPT !.rows = r]
  OBVIOUS
<1>15. d \in StateRow /\ d.active = q /\ d.rows = r /\ d.ids = s.ids /\ d.pullback = s.pullback
  <2>1. d \in StateRow
    BY <1>11, <1>13, <1>14, StateFieldChanged
  <2> QED
    BY <1>11, <1>14, <2>1 DEF StateRow
<1>16. Continue(s, ws, k) = d
  <2>1. Continue(s, ws, k) = ShowActive(c)
    BY <1>1, <1>10 DEF Continue
  <2>2. ShowActive(c) = [c EXCEPT !.rows = WithLast(c.rows, c.active.trend)]
    BY DEF ShowActive
  <2>3. WithLast(c.rows, c.active.trend) = r
    BY <1>6, <1>11, <1>12
  <2> QED
    BY <1>14, <2>1, <2>2, <2>3
<1> QED
  BY <1>1, <1>2, <1>3, <1>6, <1>8, <1>9, <1>12, <1>15, <1>16

\* A gap needs swings against the trend.
LEMMA GapHasRanges ==
    ASSUME NEW sfs, HasGap(sfs)
    PROVE  sfs # <<>>
<1>1. SUFFICES ASSUME sfs = <<>> PROVE FALSE
  OBVIOUS
<1>2. SfFractal(sfs) = "none"
  BY <1>1 DEF SfFractal
<1> QED
  BY <1>2 DEF HasGap

\* When there is a gap, the swings of the trend against it have a limit.
LEMMA GapHasLimit ==
    ASSUME NEW q, NEW ws \in Seq(SwingRow), NEW k \in 1 .. Len(ws), Going(q, ws, k), HasGap(q.sfs),
           NEW t, t = q.trend, NEW d, d = Opposite(t.dir),
           NEW lim, lim = LimitSwing(ws, t.start, t.end, d, EndLimit(t.dir))
    PROVE  lim \in 1 .. Len(ws) /\ t.start <= lim /\ lim <= t.end
<1>1. t \in TrendRow /\ t.dir \in Directions
  BY DEF Going, SeqRow, TrendRow
<1>2. Countered(t, ws)
  BY GapHasRanges DEF Going, Grounded
<1>3. PICK j \in InRange(ws, t.start, t.end) : ws[j].dir # t.dir
  BY <1>2 DEF Countered
<1>4. ws[j].dir \in Directions
  BY <1>3, InRangeIs DEF SwingRow
<1>5. ws[j].dir = d
  BY <1>1, <1>3, <1>4 DEF Directions, Opposite
<1>6. Ranged(ws, t.start, t.end, d) # {}
  BY <1>3, <1>5 DEF Ranged
<1>7. lim \in Ranged(ws, t.start, t.end, d)
  BY <1>6, LimitIs DEF AtLimit
<1> QED
  BY <1>7 DEF Ranged, InRange

\* The pullback that a gap splits from a sequence.
LEMMA SplitIs ==
    ASSUME NEW q, NEW ws \in Seq(SwingRow), NEW k \in 1 .. Len(ws), Going(q, ws, k), q.trend.start <= k
    PROVE  /\ Split(q, ws) \in SeqRow \cup {NoSeq}
           /\ HasGap(q.sfs) <=> Split(q, ws) # NoSeq
           /\ Split(q, ws) # NoSeq =>
                  /\ Going(Split(q, ws), ws, k) /\ Split(q, ws).trend.id = NoId
                  /\ Split(q, ws).trend.dir = Opposite(q.trend.dir)
                  /\ q.trend.start <= Split(q, ws).trend.start /\ Split(q, ws).trend.start <= k
<1>1. PICK t : t = q.trend
  OBVIOUS
<1>2. q \in SeqRow /\ t \in TrendRow /\ t.end = k /\ t.dir \in Directions
  BY <1>1 DEF Going, SeqRow, TrendRow
<1>3. CASE ~HasGap(q.sfs)
  BY <1>3 DEF Split
<1>4. CASE HasGap(q.sfs)
  <2>1. PICK d, lim : d = Opposite(t.dir) /\ lim = LimitSwing(ws, t.start, t.end, d, EndLimit(t.dir))
    OBVIOUS
  <2>2. PICK p : p = PullbackFrom(t, ws, lim)
    OBVIOUS
  <2>3. Split(q, ws) = p
    BY <1>1, <1>4, <2>1, <2>2 DEF Split
  <2>4. lim \in 1 .. Len(ws) /\ t.start <= lim /\ lim <= t.end
    BY <1>1, <1>4, <2>1, GapHasLimit
  <2>5. PullbackOf(p, t, lim, ws) /\ p.trend.end = t.end
    BY <1>2, <2>2, <2>4, PullbackFromIs
  <2>6. Going(p, ws, k)
    BY <1>2, <2>4, <2>5 DEF Going, PullbackOf
  <2>7. p # NoSeq
    <3>1. p.trend.dir \in Directions
      BY <2>6 DEF Going, SeqRow, TrendRow
    <3> QED
      BY <3>1 DEF NoSeq, NoTrend, Directions
  <2> QED
    BY <1>1, <1>2, <1>4, <2>1, <2>3, <2>4, <2>5, <2>6, <2>7 DEF PullbackOf
<1> QED
  BY <1>3, <1>4

\* Behind completed rows the next trend begins, or the swings are at their end.
LEMMA BegunIs ==
    ASSUME NEW s \in StateRow, NEW ws \in Seq(SwingRow), NEW k \in 1 .. Len(ws), NEW d \in Directions,
           NEW a \in Nat, RowsTo(s.rows, k, a), a <= s.rows[Len(s.rows)].start,
           Ended(s.rows[Len(s.rows)], k)
    PROVE  State(Begun(s, d, ws, k), ws, k)
<1>1. PICK rs, n : rs = s.rows /\ n = Len(rs)
  OBVIOUS
<1>2. rs \in Seq(TrendRow) /\ rs # <<>> /\ n \in Nat \ {0} /\ rs[n] \in TrendRow /\ s.ids \in Nat
  BY <1>1 DEF RowsTo, StateRow
<1>3. rs[n].start \in Nat /\ rs[n].end \in Nat \ {0}
  BY <1>2 DEF TrendRow
<1>4. RowsTo(rs, k, rs[n].start)
  BY <1>1, <1>3, RowsGoOn
<1>5. PICK b : b = rs[n].end + 1
  OBVIOUS
<1>6. b \in Nat \ {0} /\ b <= k + 1 /\ rs[n].start < b /\ Ended(rs[n], k)
  <2>1. Ended(rs[n], k)
    BY <1>1
  <2>2. PICK x, y : x = rs[n].start /\ y = rs[n].end
    OBVIOUS
  <2>3. x <= y /\ y <= k /\ x \in Nat /\ y \in Nat
    BY <1>3, <2>1, <2>2 DEF Ended
  <2>4. b = y + 1
    BY <1>5, <2>2
  <2>5. b \in Nat \ {0} /\ b <= k + 1 /\ x < b
    BY <2>3, <2>4
  <2> QED
    BY <2>1, <2>2, <2>5
<1>7. CASE b > Len(ws)
  <2>1. PICK c : c = [s EXCEPT !.active = NoSeq, !.pullback = NoSeq]
    OBVIOUS
  <2>2. Begun(s, d, ws, k) = c
    BY <1>1, <1>5, <1>7, <2>1 DEF Begun
  <2>3. c \in StateRow /\ c.rows = rs /\ c.active = NoSeq /\ c.pullback = NoSeq
    BY <1>1, <2>1 DEF StateRow
  <2>4. k = Len(ws)
    BY <1>6, <1>7
  <2> QED
    BY <1>1, <1>4, <1>6, <2>2, <2>3, <2>4 DEF State
<1>8. CASE b <= Len(ws)
  <2>1. PICK t : t = [id |-> s.ids + 1, dir |-> d, start |-> b, end |-> k,
                      high |-> Max({ws[b].high, ws[k].high}), low |-> Min({ws[b].low, ws[k].low}),
                      done |-> FALSE]
    OBVIOUS
  <2>2. t \in TrendRow
    <3>1. ws[b] \in SwingRow /\ ws[k] \in SwingRow
      BY <1>6, <1>8
    <3>2. ws[b].high \in Int /\ ws[k].high \in Int /\ ws[b].low \in Int /\ ws[k].low \in Int
      BY <3>1 DEF SwingRow
    <3>3. Max({ws[b].high, ws[k].high}) \in Int /\ Min({ws[b].low, ws[k].low}) \in Int
      BY <3>2, PairMaxMin
    <3>4. s.ids + 1 \in Nat /\ k \in Nat \ {0}
      BY <1>2
    <3> QED
      BY <1>6, <2>1, <3>3, <3>4 DEF TrendRow
  <2>3. t.id = s.ids + 1 /\ t.dir = d /\ t.start = b /\ t.end = k /\ ~t.done
    BY <2>1
  <2>4. PICK q : q = Against(t, ws)
    OBVIOUS
  <2>5. q \in SeqRow /\ q.trend = t /\ Grounded(q, ws)
    BY <2>2, <2>4, AgainstIs
  <2>6. PICK r : r = Append(rs, t)
    OBVIOUS
  <2>7. PICK c : c = [rows |-> r, ids |-> t.id, active |-> q, pullback |-> NoSeq]
    OBVIOUS
  <2>8. Begun(s, d, ws, k) = c
    <3>1. ~(b > Len(ws))
      BY <1>6, <1>8
    <3> QED
      BY <1>1, <1>5, <2>1, <2>4, <2>6, <2>7, <3>1 DEF Begun
  <2>9. r \in Seq(TrendRow) /\ Len(r) = n + 1 /\ r[n + 1] = t /\ \A i \in 1 .. n : r[i] = rs[i]
    BY <1>1, <1>2, <2>2, <2>6
  <2>10. c \in StateRow /\ c.rows = r /\ c.active = q /\ c.pullback = NoSeq
    BY <1>2, <2>3, <2>5, <2>7, <2>9 DEF StateRow
  <2>11. q # NoSeq
    BY <2>3, <2>5 DEF NoSeq, NoTrend, Directions
  <2>12. Going(q, ws, k)
    BY <1>6, <1>8, <2>3, <2>5 DEF Going
  <2>13. RowsTo(r, k, b)
    <3>1. ASSUME NEW i \in 1 .. n
          PROVE  Ended(r[i], k) /\ IF i = n THEN r[i].start < b ELSE r[i].start < r[i + 1].start
      <4>1. CASE i = n
        BY <1>6, <2>9, <4>1
      <4>2. CASE i # n
        <5>1. i \in 1 .. n - 1 /\ i + 1 \in 1 .. n
          BY <1>2, <4>2
        <5>2. Ended(rs[i], k) /\ IF i = n - 1 THEN rs[i].start < rs[n].start ELSE rs[i].start < rs[i + 1].start
          BY <1>1, <1>4, <5>1 DEF RowsTo
        <5>3. i = n - 1 => i + 1 = n
          BY <1>2
        <5> QED
          BY <2>9, <4>2, <5>1, <5>2, <5>3
      <4> QED
        BY <4>1, <4>2
    <3>2. Len(r) - 1 = n /\ r # <<>>
      BY <1>2, <2>9
    <3> QED
      BY <2>9, <3>1, <3>2 DEF RowsTo
  <2>14. r[Len(r)] = t
    BY <2>9
  <2> QED
    BY <2>3, <2>5, <2>8, <2>10, <2>11, <2>12, <2>13, <2>14 DEF State
<1> QED
  BY <1>2, <1>6, <1>7, <1>8

\* The state in which the active trend has gone on to swing k.
Active(s, ws, k) ==
    /\ s \in StateRow /\ s.active # NoSeq /\ Going(s.active, ws, k)
    /\ RowsTo(s.rows, k, s.active.trend.start) /\ s.active.trend.start <= k
    /\ s.rows[Len(s.rows)] = s.active.trend

\* Going on with the active trend keeps it the last row.
LEMMA ContinueActive ==
    ASSUME NEW s, NEW ws \in Seq(SwingRow), NEW k \in 1 .. Len(ws), State(s, ws, k - 1)
    PROVE  /\ s.active # NoSeq /\ s.active \in SeqRow /\ s.active.trend \in TrendRow
           /\ Active(Continue(s, ws, k), ws, k)
           /\ Continue(s, ws, k).pullback = s.pullback
           /\ Continue(s, ws, k).active.trend.start = s.active.trend.start
           /\ Continue(s, ws, k).active.trend.dir = s.active.trend.dir
<1>1. PICK t, n : t = s.active.trend /\ n = Len(s.rows)
  OBVIOUS
<1>2. /\ s \in StateRow /\ s.active # NoSeq /\ Going(s.active, ws, k - 1)
      /\ s.rows[n] = t /\ RowsTo(s.rows, k - 1, s.rows[n].start)
  BY <1>1 DEF State
<1>3. s.rows # <<>> /\ s.active \in SeqRow /\ t \in TrendRow
  BY <1>1, <1>2 DEF Going, SeqRow, RowsTo
<1>4. PICK u, c : u = Extended(t, ws, k) /\ c = Continue(s, ws, k)
  OBVIOUS
<1>5. /\ c \in StateRow /\ c.rows = WithLast(s.rows, u) /\ c.pullback = s.pullback
      /\ Going(c.active, ws, k) /\ c.active # NoSeq /\ c.active.trend = u
  BY <1>1, <1>2, <1>3, <1>4, ContinueIs
<1>6. SameTrend(u, t) /\ u.start = t.start
  BY <1>3, <1>4, ExtendedIs
<1>7. t.start \in Nat /\ t.start <= k /\ k - 1 \in Nat /\ k \in Nat
  BY <1>1, <1>2, <1>3 DEF Going, TrendRow
<1>8. RowsTo(s.rows, k, t.start)
  BY <1>2, <1>7, RowsGoOn
<1>9. /\ RowsTo(WithLast(s.rows, u), k, t.start) /\ Len(WithLast(s.rows, u)) = Len(s.rows)
      /\ WithLast(s.rows, u)[Len(s.rows)] = u
  BY <1>6, <1>8, WithLastRows DEF SameTrend
<1>10. Active(c, ws, k)
  BY <1>5, <1>6, <1>7, <1>9 DEF Active
<1> QED
  BY <1>1, <1>2, <1>3, <1>4, <1>5, <1>6, <1>10 DEF SameTrend

\* A pullback that may go with the active trend t behind swing k.
PullbackIn(q, t, ws, k) ==
    q # NoSeq => /\ Going(q, ws, k) /\ q.trend.id = NoId
                 /\ t.start <= q.trend.start /\ q.trend.start <= k

\* A pullback inside the active trend completes the state.
LEMMA WithPullback ==
    ASSUME NEW c, NEW ws, NEW k, Active(c, ws, k),
           NEW q \in SeqRow \cup {NoSeq}, PullbackIn(q, c.active.trend, ws, k)
    PROVE  State([c EXCEPT !.pullback = q], ws, k)
<1>1. PICK d : d = [c EXCEPT !.pullback = q]
  OBVIOUS
<1>2. d \in StateRow /\ d.pullback = q /\ d.rows = c.rows /\ d.active = c.active
  <2>1. c \in StateRow
    BY DEF Active
  <2>2. d \in StateRow
    BY <1>1, <2>1, StateFieldChanged
  <2> QED
    BY <1>1, <2>1, <2>2 DEF StateRow
<1>3. /\ c.active # NoSeq /\ Going(c.active, ws, k)
      /\ RowsTo(c.rows, k, c.active.trend.start) /\ c.rows[Len(c.rows)] = c.active.trend
  BY DEF Active
<1> QED
  BY <1>1, <1>2, <1>3 DEF State, PullbackIn

\* The step without a pullback.
LEMMA TrendStepIs ==
    ASSUME NEW s, NEW ws \in Seq(SwingRow), NEW k \in 1 .. Len(ws),
           Active(s, ws, k), s.pullback = NoSeq
    PROVE  State(TrendStep(s, ws, k), ws, k)
<1>1. PICK t, d : t = s.active.trend /\ d = Opposite(t.dir)
  OBVIOUS
<1>2. /\ s \in StateRow /\ s.active # NoSeq /\ Going(s.active, ws, k) /\ t.start <= k
      /\ RowsTo(s.rows, k, t.start) /\ s.rows[Len(s.rows)] = t
  BY <1>1 DEF Active
<1>3. s.active \in SeqRow /\ t \in TrendRow /\ t.end = k /\ t.start \in Nat /\ d \in Directions
  BY <1>1, <1>2 DEF Going, SeqRow, TrendRow, Directions, Opposite
<1>4. CASE SfFractal(s.active.sfs) = "none"
  <2>1. TrendStep(s, ws, k) = s
    BY <1>4 DEF TrendStep
  <2> QED
    BY <1>1, <1>2, <2>1 DEF State
<1>5. CASE SfFractal(s.active.sfs) # "none" /\ HasGap(s.active.sfs)
  <2>1. PICK p : p = Split(s.active, ws)
    OBVIOUS
  <2>2. TrendStep(s, ws, k) = [s EXCEPT !.pullback = p]
    BY <1>5, <2>1 DEF TrendStep
  <2>3. p \in SeqRow \cup {NoSeq} /\ PullbackIn(p, t, ws, k)
    BY <1>1, <1>2, <2>1, SplitIs DEF PullbackIn
  <2>4. PullbackIn(p, s.active.trend, ws, k)
    BY <1>1, <2>3
  <2>5. State([s EXCEPT !.pullback = p], ws, k)
    BY <2>3, <2>4, WithPullback
  <2> QED
    BY <2>2, <2>5
<1>6. CASE SfFractal(s.active.sfs) # "none" /\ ~HasGap(s.active.sfs)
  <2>1. PICK c : c = Completed(s, t, ws)
    OBVIOUS
  <2>2. TrendStep(s, ws, k) = Begun(c, d, ws, k)
    BY <1>1, <1>6, <2>1 DEF TrendStep
  <2>3. s.rows # <<>> /\ t.start <= t.end /\ t.end <= Len(ws) /\ t.end <= k
    BY <1>2, <1>3 DEF RowsTo
  <2>4. c \in StateRow /\ c.rows = CompletedRows(s.rows, t, ws)
    BY <1>2, <1>3, <2>1, <2>3, CompletedIs
  <2>5. PICK a, rs : a = t.start /\ rs = s.rows
    OBVIOUS
  <2>6. /\ RowsTo(c.rows, k, a) /\ Len(c.rows) = Len(rs) /\ Ended(c.rows[Len(rs)], k)
        /\ c.rows[Len(rs)].start >= a
    <3>1. /\ RowsTo(rs, k, a) /\ a \in Nat /\ t \in TrendRow /\ t.start = a
          /\ a <= t.start /\ t.start <= t.end /\ t.end <= k
      BY <1>2, <1>3, <2>3, <2>5
    <3>2. /\ RowsTo(CompletedRows(rs, t, ws), k, a) /\ Len(CompletedRows(rs, t, ws)) = Len(rs)
          /\ Ended(CompletedRows(rs, t, ws)[Len(rs)], k)
          /\ CompletedRows(rs, t, ws)[Len(rs)].start >= t.start
      BY <3>1, CompletedRowsOrdered
    <3>3. c.rows = CompletedRows(rs, t, ws)
      BY <2>4, <2>5
    <3> QED
      BY <2>5, <3>2, <3>3
  <2>7. a \in Nat /\ a <= c.rows[Len(c.rows)].start
    BY <1>3, <2>5, <2>6
  <2> QED
    BY <1>3, <2>2, <2>4, <2>6, <2>7, BegunIs
<1> QED
  BY <1>4, <1>5, <1>6

\* A sequence that is given swing k once more.
LEMMA GivenAgain ==
    ASSUME NEW p, NEW ws \in Seq(SwingRow), NEW k \in 1 .. Len(ws), Going(p, ws, k), p.trend.start <= k
    PROVE  /\ Going(Updated(Agg(p, ws, k), ws, k), ws, k)
           /\ Updated(Agg(p, ws, k), ws, k).trend.id = p.trend.id
           /\ Updated(Agg(p, ws, k), ws, k).trend.start = p.trend.start
<1>1. PICK t, q : t = p.trend /\ q = Agg(p, ws, k)
  OBVIOUS
<1>2. PICK r : r = Updated(q, ws, k)
  OBVIOUS
<1>3. p \in SeqRow /\ t \in TrendRow /\ Grounded(p, ws) /\ t.end = k /\ ~t.done /\ t.start <= Len(ws) /\ t.start <= k + 1
  BY <1>1 DEF Going, SeqRow
<1>4. k \in InRange(ws, t.start, t.end)
  BY <1>1, <1>3 DEF InRange
<1>5. q \in SeqRow /\ q.trend = t /\ Grounded(q, ws)
  BY <1>1, <1>3, <1>4, AggGrounded
<1>6. r \in SeqRow /\ r.sfs = q.sfs /\ r.trend = Extended(t, ws, k)
  BY <1>2, <1>5, UpdatedIs
<1>7. PICK u : u = Extended(t, ws, k)
  OBVIOUS
<1>8. SameTrend(u, t) /\ u.done = t.done /\ u.start = t.start /\ u.end = k
  <2>1. /\ SameTrend(Extended(t, ws, k), t) /\ Extended(t, ws, k).done = t.done
        /\ Extended(t, ws, k).start = t.start /\ Extended(t, ws, k).end = k
    BY <1>3, ExtendedIs
  <2> QED
    BY <1>7, <2>1
<1>9. Grounded(r, ws)
  BY <1>3, <1>5, <1>6, <1>7, <1>8 DEF Grounded, Countered, SameTrend
<1> QED
  BY <1>1, <1>2, <1>3, <1>6, <1>7, <1>8, <1>9 DEF Going, SameTrend

\* The step with a pullback, p being the pullback with swing k.
LEMMA PullbackStepIs ==
    ASSUME NEW s, NEW ws \in Seq(SwingRow), NEW k \in 1 .. Len(ws), State(s, ws, k - 1),
           NEW p \in SeqRow, p # NoSeq, PullbackIn(p, s.active.trend, ws, k),
           s.active.trend.start <= k - 1
    PROVE  State(PullbackStep(s, p, ws, k), ws, k)
<1>1. PICK t, c : t = s.active.trend /\ c = Continue(s, ws, k)
  OBVIOUS
<1>2. /\ s.active # NoSeq /\ s.active \in SeqRow /\ t \in TrendRow
      /\ Active(c, ws, k) /\ c.active.trend.start = t.start
  BY <1>1, ContinueActive
<1>3. /\ Going(p, ws, k) /\ p.trend.id = NoId /\ t.start <= p.trend.start /\ p.trend.start <= k
  BY <1>1 DEF PullbackIn
<1>4. PICK a, rs : a = t.start /\ rs = s.rows
  OBVIOUS
<1>5. PICK e : e = Completed(s, t, ws)
  OBVIOUS
<1>6. /\ s \in StateRow /\ rs # <<>> /\ RowsTo(rs, k, a) /\ a \in Nat /\ a <= t.start
      /\ t.start <= t.end /\ t.end <= k /\ t.end <= Len(ws)
  <2>1. s \in StateRow /\ Going(s.active, ws, k - 1) /\ RowsTo(rs, k - 1, a)
    BY <1>1, <1>2, <1>4 DEF State
  <2>2. t.end = k - 1 /\ t.start <= k - 1 /\ a \in Nat
    BY <1>1, <1>2, <1>4, <2>1 DEF Going, TrendRow
  <2>3. RowsTo(rs, k, a)
    <3>1. k - 1 \in Nat /\ k \in Nat /\ k - 1 <= k /\ a <= a
      BY <2>2
    <3> QED
      BY <2>1, <2>2, <3>1, RowsGoOn
  <2>4. rs # <<>>
    BY <2>3 DEF RowsTo
  <2>5. a <= t.start /\ t.start <= t.end /\ t.end <= k /\ t.end <= Len(ws)
    BY <1>4, <2>2
  <2> QED
    BY <2>1, <2>2, <2>3, <2>4, <2>5
<1>7. e \in StateRow /\ e.rows = CompletedRows(rs, t, ws)
  BY <1>2, <1>4, <1>5, <1>6, CompletedIs
<1>8. /\ RowsTo(e.rows, k, a) /\ Len(e.rows) = Len(rs) /\ Ended(e.rows[Len(rs)], k)
  <2>1. PICK r : r = CompletedRows(rs, t, ws)
    OBVIOUS
  <2>2. /\ RowsTo(rs, k, a) /\ a \in Nat /\ t \in TrendRow
        /\ a <= t.start /\ t.start <= t.end /\ t.end <= k
    BY <1>2, <1>6
  <2>3. RowsTo(r, k, a) /\ Len(r) = Len(rs) /\ Ended(r[Len(rs)], k)
    BY <2>1, <2>2, CompletedRowsOrdered
  <2> QED
    BY <1>7, <2>1, <2>3
<1>9. p.trend \in TrendRow /\ p.trend.start \in Nat /\ p.trend.end = k
  BY <1>3 DEF Going, SeqRow, TrendRow
<1>10. CASE NewLimit(t, ws[k])
  <2>1. PullbackStep(s, p, ws, k) = [c EXCEPT !.pullback = NoSeq]
    BY <1>1, <1>10 DEF PullbackStep
  <2>2. PICK q : q = NoSeq
    OBVIOUS
  <2>3. q \in SeqRow \cup {NoSeq} /\ PullbackIn(q, c.active.trend, ws, k)
    BY <2>2 DEF PullbackIn
  <2>4. State([c EXCEPT !.pullback = q], ws, k)
    BY <1>2, <2>3, WithPullback
  <2> QED
    BY <2>1, <2>2, <2>4
<1>11. CASE ~NewLimit(t, ws[k]) /\ SfFractal(p.sfs) = "none"
  <2>1. PullbackStep(s, p, ws, k) = [c EXCEPT !.pullback = p]
    BY <1>1, <1>11 DEF PullbackStep
  <2>2. PullbackIn(p, c.active.trend, ws, k)
    BY <1>2, <1>3 DEF PullbackIn
  <2>3. State([c EXCEPT !.pullback = p], ws, k)
    BY <1>2, <2>2, WithPullback
  <2> QED
    BY <2>1, <2>3
<1>12. CASE ~NewLimit(t, ws[k]) /\ SfFractal(p.sfs) # "none" /\ ~Qualifies(p)
  <2>1. PICK q : q = Updated(Agg(p, ws, k), ws, k)
    OBVIOUS
  <2>2. PullbackStep(s, p, ws, k) = [c EXCEPT !.pullback = q]
    BY <1>1, <1>12, <2>1 DEF PullbackStep
  <2>3. Going(q, ws, k) /\ q.trend.id = p.trend.id /\ q.trend.start = p.trend.start
    BY <1>3, <2>1, GivenAgain
  <2>4. PullbackIn(q, c.active.trend, ws, k) /\ q \in SeqRow
    BY <1>2, <1>3, <2>3 DEF PullbackIn, Going
  <2>5. State([c EXCEPT !.pullback = q], ws, k)
    BY <1>2, <2>4, WithPullback
  <2> QED
    BY <2>2, <2>5
<1>13. CASE ~NewLimit(t, ws[k]) /\ SfFractal(p.sfs) # "none" /\ Qualifies(p) /\ HasGap(p.sfs)
  <2>1. PICK q : q = Split(p, ws)
    OBVIOUS
  <2>2. q \in SeqRow \cup {NoSeq} /\ PullbackIn(q, p.trend, ws, k)
    BY <1>3, <2>1, SplitIs DEF PullbackIn
  <2>3. PICK d : d = [e EXCEPT !.active = p, !.pullback = q]
    OBVIOUS
  <2>4. PICK r : r = WithLast(e.rows, p.trend)
    OBVIOUS
  <2>5. PICK f : f = [d EXCEPT !.rows = r]
    OBVIOUS
  <2>6. d \in StateRow /\ d.active = p /\ d.pullback = q /\ d.rows = e.rows
    BY <1>7, <2>2, <2>3 DEF StateRow
  <2>7. RowsTo(r, k, a) /\ Len(r) = Len(e.rows) /\ r[Len(e.rows)] = p.trend
    BY <1>8, <1>9, <2>4, WithLastRows
  <2>8. r \in Seq(TrendRow) /\ RowsTo(r, k, p.trend.start)
    <3>1. PICK b : b = p.trend.start
      OBVIOUS
    <3>2. a \in Nat /\ b \in Nat /\ a <= b /\ k \in Nat /\ k <= k
      BY <1>3, <1>4, <1>6, <1>9, <3>1
    <3>3. RowsTo(r, k, b)
      BY <2>7, <3>2, RowsGoOn
    <3> QED
      BY <2>7, <3>1, <3>3 DEF RowsTo
  <2>9. f \in StateRow /\ f.active = p /\ f.pullback = q /\ f.rows = r
    <3>1. f \in StateRow
      BY <2>5, <2>6, <2>8, StateFieldChanged
    <3> QED
      BY <2>5, <2>6, <3>1 DEF StateRow
  <2>10. PullbackStep(s, p, ws, k) = f
    <3>1. PullbackStep(s, p, ws, k) = ShowActive(d)
      BY <1>1, <1>5, <1>13, <2>1, <2>3 DEF PullbackStep
    <3>2. ShowActive(d) = [d EXCEPT !.rows = WithLast(d.rows, d.active.trend)]
      BY DEF ShowActive
    <3> QED
      BY <2>4, <2>5, <2>6, <3>1, <3>2
  <2> QED
    BY <1>3, <2>2, <2>7, <2>8, <2>9, <2>10 DEF State, PullbackIn
<1>14. CASE ~NewLimit(t, ws[k]) /\ SfFractal(p.sfs) # "none" /\ Qualifies(p) /\ ~HasGap(p.sfs)
  <2>1. PICK u, d : u = p.trend /\ d = Opposite(t.dir)
    OBVIOUS
  <2>2. PICK f : f = Completed(e, u, ws)
    OBVIOUS
  <2>3. PullbackStep(s, p, ws, k) = Begun(f, d, ws, k)
    BY <1>1, <1>5, <1>14, <2>1, <2>2 DEF PullbackStep
  <2>4. u \in TrendRow /\ u.start <= u.end /\ u.end <= k /\ u.end <= Len(ws) /\ a <= u.start
    BY <1>3, <1>4, <1>9, <2>1
  <2>5. PICK es : es = e.rows
    OBVIOUS
  <2>6. es # <<>>
    BY <1>8, <2>5 DEF RowsTo
  <2>7. f \in StateRow /\ f.rows = CompletedRows(es, u, ws)
    BY <1>7, <2>2, <2>4, <2>5, <2>6, CompletedIs
  <2>8. /\ RowsTo(f.rows, k, a) /\ Len(f.rows) = Len(es) /\ Ended(f.rows[Len(es)], k)
        /\ f.rows[Len(es)].start >= u.start
    BY <1>6, <1>8, <2>4, <2>5, <2>7, CompletedRowsOrdered
  <2>9. f.rows[Len(es)].start \in Nat
    <3>1. f.rows \in Seq(TrendRow) /\ f.rows # <<>>
      BY <2>8 DEF RowsTo
    <3>2. f.rows[Len(f.rows)] \in TrendRow
      BY <3>1
    <3> QED
      BY <2>8, <3>2 DEF TrendRow
  <2>10. a <= f.rows[Len(f.rows)].start /\ Ended(f.rows[Len(f.rows)], k)
    BY <1>6, <1>9, <2>1, <2>4, <2>8, <2>9
  <2>11. d \in Directions
    BY <2>1 DEF Directions, Opposite
  <2> QED
    BY <1>6, <2>3, <2>7, <2>8, <2>10, <2>11, BegunIs
<1> QED
  BY <1>10, <1>11, <1>12, <1>13, <1>14

\* The pullback with the next swing lies in the active trend.
LEMMA PullbackGoes ==
    ASSUME NEW s, NEW ws \in Seq(SwingRow), NEW k \in 1 .. Len(ws), State(s, ws, k - 1),
           s.pullback # NoSeq, NEW p, p = Agg(Updated(s.pullback, ws, k), ws, k)
    PROVE  /\ p \in SeqRow /\ p # NoSeq /\ PullbackIn(p, s.active.trend, ws, k)
           /\ s.active.trend.start <= k - 1
<1>1. PICK q, t : q = s.pullback /\ t = q.trend
  OBVIOUS
<1>2. s.active.trend \in TrendRow
  BY ContinueActive
<1>3. /\ Going(q, ws, k - 1) /\ t.id = NoId
      /\ s.active.trend.start <= t.start /\ t.start <= k - 1
  BY <1>1 DEF State
<1>4. q \in SeqRow /\ t \in TrendRow /\ Grounded(q, ws) /\ ~t.done /\ t.end = k - 1 /\ t.start <= Len(ws)
  BY <1>1, <1>3 DEF Going, SeqRow
<1>5. t.start \in Nat /\ t.start <= k /\ t.end <= k /\ s.active.trend.start \in Nat
  BY <1>2, <1>3, <1>4 DEF TrendRow
<1>6. p \in SeqRow /\ p.trend = Extended(t, ws, k) /\ Grounded(p, ws)
  BY <1>1, <1>4, <1>5, GoesOn
<1>7. PICK u : u = Extended(t, ws, k)
  OBVIOUS
<1>8. SameTrend(u, t) /\ u.done = t.done /\ u.start = t.start /\ u.end = k
  BY <1>4, <1>7, ExtendedIs
<1>9. p # NoSeq
  <2>1. u.dir \in Directions
    BY <1>8 DEF SameTrend, TrendRow
  <2> QED
    BY <1>6, <1>7, <2>1 DEF NoSeq, NoTrend, Directions
<1>10. Going(p, ws, k)
  BY <1>4, <1>5, <1>6, <1>7, <1>8 DEF Going
<1>11. PullbackIn(p, s.active.trend, ws, k)
  BY <1>3, <1>5, <1>6, <1>7, <1>8, <1>10 DEF PullbackIn, SameTrend
<1>12. s.active.trend.start <= k - 1
  BY <1>3, <1>5
<1> QED
  BY <1>6, <1>9, <1>11, <1>12

\* A step of the rebuild.
LEMMA BuildStepIs ==
    ASSUME NEW s, NEW ws \in Seq(SwingRow), NEW k \in 1 .. Len(ws), State(s, ws, k - 1)
    PROVE  State(BuildStep(s, ws, k), ws, k)
<1>1. CASE s.pullback = NoSeq
  <2>1. PICK c : c = Continue(s, ws, k)
    OBVIOUS
  <2>2. BuildStep(s, ws, k) = TrendStep(c, ws, k)
    BY <1>1, <2>1 DEF BuildStep
  <2>3. Active(c, ws, k) /\ c.pullback = NoSeq
    BY <1>1, <2>1, ContinueActive
  <2> QED
    BY <2>2, <2>3, TrendStepIs
<1>2. CASE s.pullback # NoSeq
  <2>1. PICK p : p = Agg(Updated(s.pullback, ws, k), ws, k)
    OBVIOUS
  <2>2. BuildStep(s, ws, k) = PullbackStep(s, p, ws, k)
    BY <1>2, <2>1 DEF BuildStep
  <2>3. p \in SeqRow /\ p # NoSeq /\ PullbackIn(p, s.active.trend, ws, k) /\ s.active.trend.start <= k - 1
    BY <1>2, <2>1, PullbackGoes
  <2> QED
    BY <2>2, <2>3, PullbackStepIs
<1> QED
  BY <1>1, <1>2

-----------------------------------------------------------------------------
(* The rebuild.                                                            *)

\* The state with the first trend.
LEMMA SeededIs ==
    ASSUME NEW ws \in Seq(SwingRow), NEW k \in 3 .. Len(ws)
    PROVE  State(Seeded(ws, k), ws, k)
<1>1. PICK a : a = k - 2
  OBVIOUS
<1>2. a \in 1 .. Len(ws) /\ k \in 1 .. Len(ws) /\ k - 1 \in 1 .. Len(ws) /\ a \in Nat \ {0} /\ k \in Nat \ {0}
      /\ a <= k - 1 /\ k - 1 <= k
  BY <1>1
<1>3. PICK t : t = [id |-> 1, dir |-> ws[k].dir, start |-> a, end |-> k,
                    high |-> Max({ws[a].high, ws[k].high}), low |-> Min({ws[a].low, ws[k].low}),
                    done |-> FALSE]
  OBVIOUS
<1>4. t \in TrendRow /\ t.start = a /\ t.end = k /\ ~t.done
  <2>1. ws[a] \in SwingRow /\ ws[k] \in SwingRow
    BY <1>2
  <2>2. /\ ws[a].high \in Int /\ ws[k].high \in Int /\ ws[a].low \in Int /\ ws[k].low \in Int
        /\ ws[k].dir \in Directions
    BY <2>1 DEF SwingRow
  <2>3. Max({ws[a].high, ws[k].high}) \in Int /\ Min({ws[a].low, ws[k].low}) \in Int
    BY <2>2, PairMaxMin
  <2> QED
    BY <1>2, <1>3, <2>2, <2>3 DEF TrendRow
<1>5. PICK q : q = [trend |-> t, sfs |-> <<>>]
  OBVIOUS
<1>6. q \in SeqRow /\ q.trend = t /\ Grounded(q, ws)
  BY <1>4, <1>5 DEF SeqRow, Grounded
<1>7. PICK j, p : j = k - 1 /\ p = Agg(q, ws, j)
  OBVIOUS
<1>8. p \in SeqRow /\ p.trend = t /\ Grounded(p, ws)
  <2>1. j \in 1 .. Len(ws) /\ j \in InRange(ws, q.trend.start, q.trend.end)
    BY <1>2, <1>4, <1>6, <1>7 DEF InRange
  <2> QED
    BY <1>6, <1>7, <2>1, AggGrounded
<1>9. p # NoSeq
  <2>1. t.dir \in Directions
    BY <1>4 DEF TrendRow
  <2> QED
    BY <1>8, <2>1 DEF NoSeq, NoTrend, Directions
<1>10. Going(p, ws, k)
  BY <1>2, <1>4, <1>8 DEF Going
<1>11. PICK s : s = [rows |-> <<t>>, ids |-> 1, active |-> p, pullback |-> NoSeq]
  OBVIOUS
<1>12. Seeded(ws, k) = s
  BY <1>1, <1>3, <1>5, <1>7, <1>11 DEF Seeded
<1>13. <<t>> \in Seq(TrendRow) /\ Len(<<t>>) = 1 /\ <<t>>[1] = t /\ <<t>> # <<>>
  BY <1>4
<1>14. s \in StateRow /\ s.rows = <<t>> /\ s.active = p /\ s.pullback = NoSeq
  BY <1>8, <1>11, <1>13 DEF StateRow
<1>15. RowsTo(<<t>>, k, t.start)
  <2>1. 1 .. Len(<<t>>) - 1 = {}
    BY <1>13
  <2> QED
    BY <1>13, <2>1 DEF RowsTo
<1> QED
  BY <1>8, <1>9, <1>10, <1>12, <1>13, <1>14, <1>15 DEF State

\* The states of a rebuild from the seed that ends with swing e.
Rebuilds(g, ws, e) ==
    /\ \A k \in 0 .. e : g[k] = Seeded(ws, e)
    /\ \A k \in e + 1 .. Len(ws) : g[k] = BuildStep(g[k - 1], ws, k)
    /\ \A k \in e .. Len(ws) : State(g[k], ws, k)

\* The states of a rebuild are those its steps lead through.
LEMMA RebuildingIs ==
    ASSUME NEW ws \in Seq(SwingRow), NEW e \in 3 .. Len(ws)
    PROVE  Rebuilds(Rebuilding(ws, e), ws, e)
<1> DEFINE n == Len(ws)
           first == Seeded(ws, e)
           V == [k \in 0 .. n |-> {s \in StateRow : IF k <= e THEN s = first ELSE State(s, ws, k)}]
           h == [k \in 1 .. n |-> [s \in StateRow |-> IF k <= e THEN first
                                                     ELSE IF State(s, ws, k - 1) THEN BuildStep(s, ws, k)
                                                     ELSE s]]
           Defines(g) == g = [k \in 0 .. n |-> IF k <= e THEN Seeded(ws, e) ELSE BuildStep(g[k - 1], ws, k)]
           g == CHOOSE x : Defines(x)
<1>1. n \in Nat /\ e \in 3 .. n /\ State(first, ws, e) /\ first \in StateRow
  BY SeededIs DEF State
<1>2. \A k \in 1 .. n : \A s : State(s, ws, k - 1) => State(BuildStep(s, ws, k), ws, k) /\ BuildStep(s, ws, k) \in StateRow
  BY BuildStepIs DEF State
<1>3. Rebuilding(ws, e) = g
  BY DEF Rebuilding, n
<1> HIDE DEF first
<1>4. V \in [0 .. n -> SUBSET StateRow] /\ first \in V[0]
  <2>1. 0 \in 0 .. n /\ 0 <= e
    BY <1>1
  <2> QED
    BY <1>1, <2>1
<1>5. \A k \in 0 .. n : \A s : s \in V[k] <=> s \in StateRow /\ IF k <= e THEN s = first ELSE State(s, ws, k)
  OBVIOUS
<1>6. h \in [1 .. n -> [StateRow -> StateRow]]
  BY <1>1, <1>2
<1>7. \A k \in 1 .. n, s \in StateRow :
          h[k][s] = IF k <= e THEN first ELSE IF State(s, ws, k - 1) THEN BuildStep(s, ws, k) ELSE s
  OBVIOUS
<1> HIDE DEF n, V, h
<1>8. \A k \in 1 .. n : k - 1 \in 0 .. n /\ k \in 0 .. n /\ (~(k <= e) => (k - 1 <= e => k - 1 = e))
  BY <1>1
<1>9. \A k \in 1 .. n : \A s : k > e /\ s \in V[k - 1] => State(s, ws, k - 1)
  <2>1. \A k \in 1 .. n : k > e => ~(k <= e)
    BY <1>1
  <2> QED
    BY <1>1, <1>5, <1>8, <2>1
<1>10. \A k \in 1 .. n : k <= e \/ k > e
  BY <1>1
<1>11. \A k \in 1 .. n : \A s \in V[k - 1] : h[k][s] \in V[k]
  <2>1. SUFFICES ASSUME NEW k \in 1 .. n, NEW s \in V[k - 1] PROVE h[k][s] \in V[k]
    OBVIOUS
  <2>2. s \in StateRow /\ k \in 0 .. n
    BY <1>5, <1>8
  <2>3. CASE k <= e
    BY <1>1, <1>5, <1>7, <2>2, <2>3
  <2>4. CASE k > e
    <3>1. State(s, ws, k - 1) /\ ~(k <= e)
      BY <1>1, <1>9, <2>4
    <3>2. h[k][s] = BuildStep(s, ws, k)
      BY <1>7, <2>2, <3>1
    <3> QED
      BY <1>2, <1>5, <2>2, <3>1, <3>2
  <2> QED
    BY <1>10, <2>3, <2>4
<1>12. PICK f : Iterates(f, n, StateRow, first, h) /\ \A k \in 0 .. n : f[k] \in V[k]
  BY <1>1, <1>4, <1>6, <1>11, StagesExist, Zenon
<1>13. /\ f \in [0 .. n -> StateRow] /\ f[0] = first
       /\ \A k \in 1 .. n : f[k] = h[k][f[k - 1]]
  BY <1>12 DEF Iterates
<1>14. Defines(f)
  <2>1. \A k \in 0 .. n : f[k] = IF k <= e THEN Seeded(ws, e) ELSE BuildStep(f[k - 1], ws, k)
    <3>1. SUFFICES ASSUME NEW k \in 0 .. n
                   PROVE  f[k] = IF k <= e THEN Seeded(ws, e) ELSE BuildStep(f[k - 1], ws, k)
      OBVIOUS
    <3>2. CASE k <= e
      BY <1>5, <1>12, <3>2 DEF first
    <3>3. CASE ~(k <= e)
      <4>1. k \in 1 .. n /\ k > e
        BY <1>1, <3>3
      <4>2. f[k - 1] \in V[k - 1] /\ f[k - 1] \in StateRow
        BY <1>5, <1>8, <1>12, <4>1
      <4>3. State(f[k - 1], ws, k - 1)
        BY <1>9, <4>1, <4>2
      <4>4. f[k] = h[k][f[k - 1]]
        BY <1>13, <4>1
      <4> QED
        BY <1>7, <3>3, <4>1, <4>2, <4>3, <4>4
    <3> QED
      BY <3>2, <3>3
  <2>2. f = [k \in 0 .. n |-> f[k]]
    BY <1>13
  <2> QED
    BY <2>1, <2>2
<1>15. Defines(g)
  <2> HIDE DEF Defines
  <2> QED
    BY <1>14
<1>16. \A k \in 0 .. n : g[k] = IF k <= e THEN Seeded(ws, e) ELSE BuildStep(g[k - 1], ws, k)
  <2>1. g = [k \in 0 .. n |-> IF k <= e THEN Seeded(ws, e) ELSE BuildStep(g[k - 1], ws, k)]
    BY <1>15
  <2> HIDE DEF g
  <2> QED
    BY <2>1, Zenon
<1> HIDE DEF g
<1>17. /\ \A k \in 0 .. e : g[k] = Seeded(ws, e)
       /\ \A k \in e + 1 .. n : g[k] = BuildStep(g[k - 1], ws, k)
  <2>1. \A k \in 0 .. e : k \in 0 .. n /\ k <= e
    BY <1>1
  <2>2. \A k \in e + 1 .. n : k \in 0 .. n /\ ~(k <= e)
    BY <1>1
  <2> QED
    BY <1>16, <2>1, <2>2, Zenon
<1> DEFINE P == {k \in 0 .. n : k >= e => State(g[k], ws, k)}
<1>18. 0 \in P
  BY <1>1
<1>19. ASSUME NEW k \in 1 .. n, k - 1 \in P PROVE k \in P
  <2>1. k \in 0 .. n
    BY <1>8
  <2>2. CASE k < e
    BY <1>1, <2>1, <2>2
  <2>3. CASE k = e
    <3>1. g[k] = first
      BY <1>1, <1>17, <2>3 DEF first
    <3> QED
      BY <1>1, <2>1, <2>3, <3>1
  <2>4. CASE k > e
    <3>1. k \in e + 1 .. n /\ k - 1 >= e
      BY <1>1, <2>4
    <3>2. State(g[k - 1], ws, k - 1) /\ g[k] = BuildStep(g[k - 1], ws, k)
      BY <1>17, <1>19, <3>1
    <3>3. State(g[k], ws, k)
      BY <1>2, <3>2
    <3> QED
      BY <2>1, <3>3
  <2> QED
    BY <1>1, <2>2, <2>3, <2>4
<1>20. \A k \in 0 .. n : k \in P
  <2> HIDE DEF P
  <2> QED
    BY <1>1, <1>18, <1>19, Reaches
<1>21. \A k \in e .. n : State(g[k], ws, k)
  <2>1. \A k \in e .. n : k \in 0 .. n /\ k >= e
    BY <1>1
  <2> QED
    BY <1>20, <2>1
<1> QED
  BY <1>3, <1>17, <1>21 DEF Rebuilds, n

\* The rows are those of the state behind the last swing.
LEMMA RebuiltIs ==
    ASSUME NEW ws \in Seq(SwingRow), Rebuilt(ws) # <<>>
    PROVE  \E e \in 3 .. Len(ws) : /\ Rebuilds(Rebuilding(ws, e), ws, e)
                                   /\ Rebuilt(ws) = Rebuilding(ws, e)[Len(ws)].rows
                                   /\ CanSeed(ws, e)
<1> DEFINE seeds == {k \in 3 .. Len(ws) : CanSeed(ws, k)}
<1>1. seeds # {} /\ Rebuilt(ws) = Rebuilding(ws, Min(seeds))[Len(ws)].rows
  BY DEF Rebuilt
<1>2. seeds \in SUBSET Nat
  OBVIOUS
<1>3. Min(seeds) \in seeds
  <2> HIDE DEF seeds
  <2> QED
    BY <1>1, <1>2, MinNat
<1>4. Min(seeds) \in 3 .. Len(ws) /\ CanSeed(ws, Min(seeds))
  BY <1>3
<1> HIDE DEF seeds
<1>5. PICK e : e = Min(seeds)
  OBVIOUS
<1>6. Rebuilds(Rebuilding(ws, e), ws, e)
  BY <1>4, <1>5, RebuildingIs
<1> QED
  BY <1>1, <1>4, <1>5, <1>6

\* Rows in order, as TrendsOrdered asks.
OrderedRows(rs, ws) ==
    \A i \in 1 .. Len(rs) :
        /\ rs[i].start <= rs[i].end /\ rs[i].end <= Len(ws)
        /\ IF i < Len(rs) THEN rs[i].done /\ rs[i].start < rs[i + 1].start
           ELSE rs[i].done \/ rs[i].end = Len(ws)

\* The rows of a rebuild are in order.
LEMMA RebuiltOrdered ==
    ASSUME NEW ws \in Seq(SwingRow)
    PROVE  OrderedRows(Rebuilt(ws), ws)
<1>1. CASE Rebuilt(ws) = <<>>
  BY <1>1 DEF OrderedRows
<1>2. CASE Rebuilt(ws) # <<>>
  <2>1. PICK e \in 3 .. Len(ws) : /\ Rebuilds(Rebuilding(ws, e), ws, e)
                                  /\ Rebuilt(ws) = Rebuilding(ws, e)[Len(ws)].rows
    BY <1>2, RebuiltIs
  <2>2. PICK s, k : s = Rebuilding(ws, e)[k] /\ k = Len(ws)
    OBVIOUS
  <2>3. State(s, ws, k)
    <3>1. k \in e .. Len(ws)
      BY <2>2
    <3> QED
      BY <2>1, <2>2, <3>1 DEF Rebuilds
  <2>4. PICK rs, n : rs = s.rows /\ n = Len(rs)
    OBVIOUS
  <2>5. rs \in Seq(TrendRow) /\ n \in Nat \ {0} /\ RowsTo(rs, k, rs[n].start) /\ k \in Nat
    BY <2>2, <2>3, <2>4 DEF State, RowsTo
  <2>6. rs[n].start <= rs[n].end /\ rs[n].end <= k /\ (rs[n].done \/ rs[n].end = k)
    <3>1. CASE s.active = NoSeq
      BY <2>3, <2>4, <3>1 DEF State, Ended
    <3>2. CASE s.active # NoSeq
      <4>1. PICK t : t = s.active.trend
        OBVIOUS
      <4>2. Going(s.active, ws, k) /\ rs[n] = t
        BY <2>3, <2>4, <3>2, <4>1 DEF State
      <4>3. t.end = k /\ t.start <= k
        BY <2>2, <4>1, <4>2 DEF Going
      <4> QED
        BY <2>5, <4>2, <4>3
    <3> QED
      BY <3>1, <3>2
  <2>7. ASSUME NEW i \in 1 .. n, i < n
        PROVE  /\ rs[i].start <= rs[i].end /\ rs[i].end <= k
               /\ rs[i].done /\ rs[i].start < rs[i + 1].start
    <3>1. i \in 1 .. n - 1 /\ (i = n - 1 => i + 1 = n)
      BY <2>5, <2>7
    <3>2. Ended(rs[i], k) /\ IF i = n - 1 THEN rs[i].start < rs[n].start ELSE rs[i].start < rs[i + 1].start
      BY <2>4, <2>5, <3>1 DEF RowsTo
    <3> QED
      BY <3>1, <3>2 DEF Ended
  <2>8. \A i \in 1 .. n : i < n \/ i = n
    BY <2>5
  <2>9. OrderedRows(rs, ws)
    BY <2>2, <2>4, <2>5, <2>6, <2>7, <2>8 DEF OrderedRows
  <2> QED
    BY <2>1, <2>2, <2>4, <2>9
<1> QED
  BY <1>1, <1>2

-----------------------------------------------------------------------------
(* The chain of the trends.                                                *)

\* Swings that alternate, each beginning at the price at which the one before
\* it ends.
Alternating(ws) ==
    \A i \in 1 .. Len(ws) - 1 :
        /\ ws[i + 1].dir = Opposite(ws[i].dir)
        /\ IF ws[i].dir = "up" THEN ws[i + 1].high = ws[i].high ELSE ws[i + 1].low = ws[i].low

\* A trend that ends at the limit of its own swings.
EndsAtLimit(ws, from, to, d) == AtLimit(ws, Ranged(ws, from, to, d), EndLimit(d), to)

\* When the trend behind it starts at its limit, and not where it began, a
\* trend that is made to end there again ends at its limit.
LEMMA PreviousAtLimit ==
    ASSUME NEW ws \in Seq(SwingRow), Alternating(ws), NEW d \in Directions,
           NEW from \in Nat \ {0}, NEW to \in Nat \ {0}, NEW upTo \in Nat, upTo <= Len(ws), from <= to, to < upTo,
           EndsAtLimit(ws, from, to, d), NEW a \in Nat, to + 1 < a,
           AtLimit(ws, Ranged(ws, to + 1, upTo, Opposite(d)), StartLimit(Opposite(d)), a)
    PROVE  EndsAtLimit(ws, from, a - 1, d)
<1>1. PICK o, b : o = Opposite(d) /\ b = a - 1
  OBVIOUS
<1>2. d # o /\ o \in Directions /\ Opposite(o) = d
  BY <1>1 DEF Opposite, Directions
<1>3. a \in 1 .. Len(ws) /\ to + 1 <= a /\ a <= upTo /\ ws[a].dir = o
  BY <1>1 DEF AtLimit, Ranged, InRange
<1>4. b \in 1 .. Len(ws) - 1 /\ b + 1 = a /\ to < b
  BY <1>1, <1>3
<1>5. \A i \in 1 .. Len(ws) : ws[i] \in SwingRow
  OBVIOUS
<1>6. \A i \in 1 .. Len(ws) : ws[i].dir \in Directions /\ ws[i].high \in Int /\ ws[i].low \in Int
  BY <1>5 DEF SwingRow
<1>7. ASSUME NEW i \in 1 .. Len(ws) - 1
      PROVE  /\ i \in 1 .. Len(ws) /\ i + 1 \in 1 .. Len(ws) /\ ws[i + 1].dir = Opposite(ws[i].dir)
             /\ IF ws[i].dir = "up" THEN ws[i + 1].high = ws[i].high ELSE ws[i + 1].low = ws[i].low
  BY DEF Alternating
<1>8. ws[b].dir = d
  <2>1. ws[b].dir \in Directions /\ Opposite(ws[b].dir) = o
    BY <1>3, <1>4, <1>6, <1>7
  <2> QED
    BY <1>1, <2>1 DEF Directions, Opposite
<1>9. PICK R : R = Ranged(ws, from, b, d)
  OBVIOUS
<1>10. b \in R
  BY <1>4, <1>8, <1>9 DEF Ranged, InRange
<1>11. PICK old, beyond : old = Ranged(ws, from, to, d) /\ beyond = Ranged(ws, to + 1, upTo, o)
  OBVIOUS
<1>12. to \in 1 .. Len(ws) - 1 /\ ws[to].dir = d
  BY <1>3, <1>4, <1>11 DEF EndsAtLimit, AtLimit, Ranged, InRange
<1>13. to + 1 \in beyond
  BY <1>1, <1>3, <1>7, <1>11, <1>12 DEF Ranged, InRange
<1>14. ASSUME NEW j \in R
       PROVE  /\ j \in 1 .. Len(ws) - 1 /\ ws[j].dir = d /\ ws[j + 1].dir = o
              /\ j \in old \/ j + 1 \in beyond
  <2>1. j \in 1 .. Len(ws) /\ from <= j /\ j <= b /\ ws[j].dir = d
    BY <1>9 DEF Ranged, InRange
  <2>2. j \in 1 .. Len(ws) - 1 /\ j + 1 \in 1 .. Len(ws)
    BY <1>4, <2>1
  <2>3. ws[j + 1].dir = o
    BY <1>1, <1>7, <2>1, <2>2
  <2>4. j <= to => j \in old
    BY <1>11, <2>1 DEF Ranged, InRange
  <2>5. j > to => j + 1 \in beyond
    BY <1>3, <1>4, <1>11, <2>1, <2>2, <2>3 DEF Ranged, InRange
  <2> QED
    BY <2>1, <2>2, <2>3, <2>4, <2>5
<1>15. CASE d = "up"
  <2>1. EndLimit(d) = "max" /\ StartLimit(o) = "max" /\ o = "down"
    BY <1>1, <1>15 DEF EndLimit, StartLimit, Opposite
  <2>2. \A j \in old : ws[j].high <= ws[to].high
    BY <1>11, <2>1 DEF EndsAtLimit, AtLimit
  <2>3. \A j \in beyond : ws[j].high <= ws[a].high
    BY <1>1, <1>11, <2>1 DEF AtLimit
  <2>4. ws[to + 1].high = ws[to].high /\ ws[a].high = ws[b].high
    BY <1>4, <1>7, <1>8, <1>12, <1>15
  <2>5. ws[to].high <= ws[b].high
    BY <1>13, <2>3, <2>4
  <2>6. ASSUME NEW j \in R PROVE ws[j].high <= ws[b].high
    <3>1. j \in 1 .. Len(ws) - 1 /\ ws[j + 1].high = ws[j].high
      BY <1>7, <1>14, <1>15
    <3>2. CASE j \in old
      <4>1. ws[j].high \in Int /\ ws[to].high \in Int /\ ws[b].high \in Int
        BY <1>4, <1>6, <1>7, <1>12, <3>1
      <4> QED
        BY <2>2, <2>5, <3>2, <4>1
    <3>3. CASE j + 1 \in beyond
      BY <2>3, <2>4, <3>1, <3>3
    <3> QED
      BY <1>14, <3>2, <3>3
  <2> QED
    BY <1>1, <1>9, <1>10, <2>1, <2>6 DEF EndsAtLimit, AtLimit
<1>16. CASE d = "down"
  <2>1. EndLimit(d) = "min" /\ StartLimit(o) = "min" /\ o = "up"
    BY <1>1, <1>16 DEF EndLimit, StartLimit, Opposite
  <2>2. \A j \in old : ws[j].low >= ws[to].low
    BY <1>11, <2>1 DEF EndsAtLimit, AtLimit
  <2>3. \A j \in beyond : ws[j].low >= ws[a].low
    BY <1>1, <1>11, <2>1 DEF AtLimit
  <2>4. ws[to + 1].low = ws[to].low /\ ws[a].low = ws[b].low
    BY <1>4, <1>7, <1>8, <1>12, <1>16
  <2>5. ws[to].low >= ws[b].low
    BY <1>13, <2>3, <2>4
  <2>6. ASSUME NEW j \in R PROVE ws[j].low >= ws[b].low
    <3>1. j \in 1 .. Len(ws) - 1 /\ ws[j + 1].low = ws[j].low
      BY <1>7, <1>14, <1>16
    <3>2. CASE j \in old
      <4>1. ws[j].low \in Int /\ ws[to].low \in Int /\ ws[b].low \in Int
        BY <1>4, <1>6, <1>7, <1>12, <3>1
      <4> QED
        BY <2>2, <2>5, <3>2, <4>1
    <3>3. CASE j + 1 \in beyond
      BY <2>3, <2>4, <3>1, <3>3
    <3> QED
      BY <1>14, <3>2, <3>3
  <2> QED
    BY <1>1, <1>9, <1>10, <2>1, <2>6 DEF EndsAtLimit, AtLimit
<1> QED
  BY <1>15, <1>16 DEF Directions

\* A completed row between limits of its own swings.
LinkAt(r, ws) == ws[r.start].dir = r.dir /\ EndsAtLimit(ws, r.start, r.end, r.dir)

\* The rows but the last are linked, to a last one that begins with swing a
\* and has direction d.
LinksTo(rs, ws, a, d) ==
    \A i \in 1 .. Len(rs) - 1 :
        /\ LinkAt(rs[i], ws)
        /\ IF i = Len(rs) - 1 THEN a = rs[i].end + 1 /\ d = Opposite(rs[i].dir)
           ELSE rs[i + 1].start = rs[i].end + 1 /\ rs[i + 1].dir = Opposite(rs[i].dir)

\* They stay linked when the last is overwritten.
LEMMA WithLastLinks ==
    ASSUME NEW rs \in Seq(TrendRow), rs # <<>>, NEW ws, NEW a, NEW d, LinksTo(rs, ws, a, d), NEW t \in TrendRow
    PROVE  LinksTo(WithLast(rs, t), ws, a, d)
<1>1. PICK w : w = WithLast(rs, t)
  OBVIOUS
<1>2. Len(w) = Len(rs) /\ \A i \in 1 .. Len(rs) - 1 : w[i] = rs[i]
  BY <1>1, WithLastIs
<1>3. \A i \in 1 .. Len(rs) - 1 : i # Len(rs) - 1 => i + 1 \in 1 .. Len(rs) - 1
  OBVIOUS
<1>4. \A i \in 1 .. Len(rs) - 1 : i # Len(rs) - 1 => w[i + 1] = rs[i + 1]
  BY <1>2, <1>3
<1> QED
  BY <1>1, <1>2, <1>4 DEF LinksTo

\* The limits of a trend that starts with a swing of its own.
LEMMA FinishedLinked ==
    ASSUME NEW ws \in Seq(SwingRow), NEW t \in TrendRow, t.start <= t.end, t.end <= Len(ws),
           ws[t.start].dir = t.dir, NEW u, u = ToStartLimit(t, ws), NEW f, f = Finished(u, ws)
    PROVE  /\ u \in TrendRow /\ f \in TrendRow /\ f.start = u.start /\ f.dir = t.dir /\ f.id = t.id
           /\ t.start <= u.start /\ u.start <= u.end /\ u.end = t.end /\ LinkAt(f, ws)
           /\ AtLimit(ws, Ranged(ws, t.start, t.end, t.dir), StartLimit(t.dir), u.start)
<1>1. t.start \in Nat \ {0} /\ t.end \in Nat \ {0} /\ t.start \in 1 .. Len(ws)
  BY DEF TrendRow
<1>2. t.start \in Ranged(ws, t.start, t.end, t.dir)
  BY <1>1 DEF Ranged, InRange
<1>3. /\ SameTrend(u, t) /\ u.end = t.end /\ t.start <= u.start /\ u.start <= t.end
      /\ AtLimit(ws, Ranged(ws, t.start, t.end, t.dir), StartLimit(t.dir), u.start)
  BY <1>2, ToStartLimitIs
<1>4. ws[u.start].dir = t.dir /\ u.start \in 1 .. Len(ws)
  BY <1>3 DEF AtLimit, Ranged, InRange
<1>5. u \in TrendRow /\ u.dir = t.dir /\ u.id = t.id /\ u.start <= u.end /\ u.end <= Len(ws)
  BY <1>3 DEF SameTrend
<1>6. u.start \in Ranged(ws, u.start, u.end, u.dir)
  BY <1>4, <1>5 DEF Ranged, InRange
<1>7. /\ SameTrend(f, u) /\ f.start = u.start /\ f.end <= u.end
      /\ AtLimit(ws, Ranged(ws, u.start, u.end, u.dir), EndLimit(u.dir), f.end)
  BY <1>5, <1>6, FinishedIs
<1>8. f \in TrendRow /\ f.dir = u.dir /\ f.id = u.id /\ f.end \in Nat /\ u.end \in Nat
  BY <1>5, <1>7 DEF SameTrend, TrendRow
<1>9. Ranged(ws, f.start, f.end, f.dir) \subseteq Ranged(ws, u.start, u.end, u.dir)
  <2>1. ASSUME NEW j \in InRange(ws, u.start, f.end) PROVE j \in InRange(ws, u.start, u.end)
    BY <1>7, <1>8 DEF InRange
  <2> QED
    BY <1>7, <1>8, <2>1 DEF Ranged
<1>10. f.end \in Ranged(ws, f.start, f.end, f.dir)
  BY <1>7, <1>8 DEF AtLimit, Ranged, InRange
<1>11. EndsAtLimit(ws, f.start, f.end, f.dir)
  BY <1>7, <1>8, <1>9, <1>10 DEF EndsAtLimit, AtLimit
<1> QED
  BY <1>3, <1>4, <1>5, <1>7, <1>8, <1>11 DEF LinkAt

\* A trend that is completed is linked to the one before it, whose end
\* follows its start.
LEMMA CompletedRowsLinked ==
    ASSUME NEW rs, NEW ws \in Seq(SwingRow), Alternating(ws), NEW k \in 1 .. Len(ws),
           NEW t \in TrendRow, t.start <= t.end, t.end <= k, RowsTo(rs, k, t.start),
           LinksTo(rs, ws, t.start, t.dir), ws[t.start].dir = t.dir,
           NEW r, r = CompletedRows(rs, t, ws)
    PROVE  /\ LinksTo(r, ws, r[Len(r)].start, r[Len(r)].dir)
           /\ LinkAt(r[Len(r)], ws) /\ r[Len(r)].dir = t.dir
<1>1. PICK u, f, n : u = ToStartLimit(t, ws) /\ f = Finished(u, ws) /\ n = Len(rs)
  OBVIOUS
<1>2. t.start \in Nat \ {0} /\ t.end \in Nat \ {0} /\ t.end <= Len(ws) /\ t.dir \in Directions
  BY DEF TrendRow
<1>3. /\ u \in TrendRow /\ f \in TrendRow /\ f.start = u.start /\ f.dir = t.dir
      /\ t.start <= u.start /\ u.start <= u.end /\ u.end = t.end /\ LinkAt(f, ws)
      /\ AtLimit(ws, Ranged(ws, t.start, t.end, t.dir), StartLimit(t.dir), u.start)
  BY <1>1, <1>2, FinishedLinked
<1>4. rs \in Seq(TrendRow) /\ rs # <<>> /\ n \in Nat \ {0}
  BY <1>1 DEF RowsTo
<1>5. PICK first, e : first = t.start /\ e = u.start - 1
  OBVIOUS
<1>6. r = SettledRows(rs, first, u, ws)
  BY <1>1, <1>5 DEF CompletedRows
<1>7. u.start \in Nat \ {0} /\ u.end <= Len(ws)
  BY <1>2, <1>3 DEF TrendRow
<1>8. /\ r \in Seq(TrendRow) /\ Len(r) = n /\ r[n] = f
      /\ \A i \in 1 .. n - 1 :
             r[i] = IF /\ u.start # first /\ i = n - 1 /\ e >= 1
                       /\ rs[i].done /\ rs[i].end # e
                    THEN Extended(rs[i], ws, e) ELSE rs[i]
  <2>1. /\ rs \in Seq(TrendRow) /\ rs # <<>> /\ u \in TrendRow
        /\ u.start <= u.end /\ u.end <= Len(ws)
    BY <1>3, <1>4, <1>7
  <2>2. /\ r \in Seq(TrendRow) /\ Len(r) = Len(rs) /\ r[Len(rs)] = Finished(u, ws)
        /\ \A i \in 1 .. Len(rs) - 1 :
               r[i] = IF /\ u.start # first /\ i = Len(rs) - 1 /\ u.start - 1 >= 1
                         /\ rs[i].done /\ rs[i].end # u.start - 1
                      THEN Extended(rs[i], ws, u.start - 1) ELSE rs[i]
    BY <1>6, <2>1, SettledRowsAre
  <2> QED
    BY <1>1, <1>5, <2>2
<1>9. ASSUME NEW i \in 1 .. n - 1
      PROVE  /\ LinkAt(r[i], ws) /\ r[i].start = rs[i].start /\ r[i].dir = rs[i].dir
             /\ i # n - 1 => r[i].end = rs[i].end
             /\ i = n - 1 => u.start = r[i].end + 1 /\ t.dir = Opposite(r[i].dir)
  <2>1. /\ LinkAt(rs[i], ws) /\ rs[i] \in TrendRow /\ Ended(rs[i], k)
        /\ i = n - 1 => t.start = rs[i].end + 1 /\ t.dir = Opposite(rs[i].dir)
    <3>1. i \in 1 .. Len(rs) - 1 /\ i \in 1 .. Len(rs)
      BY <1>1, <1>4
    <3>2. rs[i] \in TrendRow /\ Ended(rs[i], k)
      BY <3>1 DEF RowsTo
    <3> QED
      BY <1>1, <3>1, <3>2 DEF LinksTo
  <2>2. rs[i].start \in Nat \ {0} /\ rs[i].end \in Nat \ {0} /\ rs[i].dir \in Directions
    BY <2>1 DEF TrendRow
  <2>3. CASE i # n - 1
    BY <1>8, <2>1, <2>3
  <2>4. CASE i = n - 1 /\ u.start = t.start
    BY <1>5, <1>8, <2>1, <2>4
  <2>5. CASE i = n - 1 /\ u.start # t.start
    <3>1. PICK from, to, d : from = rs[i].start /\ to = rs[i].end /\ d = rs[i].dir
      OBVIOUS
    <3>2. /\ from \in Nat \ {0} /\ to \in Nat \ {0} /\ d \in Directions /\ from <= to
          /\ t.start = to + 1 /\ t.dir = Opposite(d) /\ rs[i].done
      BY <2>1, <2>2, <2>5, <3>1 DEF Ended
    <3>3. e \in 1 .. Len(ws) /\ e # to /\ u.start = e + 1 /\ to + 1 < u.start
      BY <1>2, <1>3, <1>5, <1>7, <2>5, <3>2
    <3>4. PICK x : x = Extended(rs[i], ws, e)
      OBVIOUS
    <3>5. r[i] = x
      <4>1. u.start # first /\ i = n - 1 /\ e >= 1 /\ rs[i].done /\ rs[i].end # e
        BY <1>5, <2>5, <3>1, <3>2, <3>3
      <4> QED
        BY <1>8, <3>4, <4>1
    <3>6. SameTrend(x, rs[i]) /\ x.start = from /\ x.end = e
      BY <2>1, <3>1, <3>3, <3>4, ExtendedIs
    <3>7. PICK b, upTo : b = u.start /\ upTo = t.end
      OBVIOUS
    <3>8. EndsAtLimit(ws, from, to, d) /\ ws[from].dir = d
      BY <2>1, <3>1 DEF LinkAt
    <3>9. /\ AtLimit(ws, Ranged(ws, to + 1, upTo, Opposite(d)), StartLimit(Opposite(d)), b)
          /\ b \in Nat /\ to + 1 < b /\ upTo \in Nat /\ upTo <= Len(ws) /\ to < upTo
      BY <1>2, <1>3, <1>7, <3>2, <3>3, <3>7
    <3>10. EndsAtLimit(ws, from, b - 1, d)
      BY <3>2, <3>8, <3>9, PreviousAtLimit
    <3>11. b - 1 = e
      BY <1>5, <3>7
    <3>12. LinkAt(x, ws) /\ x.dir = d
      BY <3>1, <3>6, <3>8, <3>10, <3>11 DEF LinkAt, SameTrend
    <3> QED
      BY <2>5, <3>1, <3>2, <3>3, <3>5, <3>6, <3>12
  <2> QED
    BY <2>3, <2>4, <2>5
<1>10. ASSUME NEW i \in 1 .. n - 1
       PROVE  IF i = n - 1 THEN u.start = r[i].end + 1 /\ t.dir = Opposite(r[i].dir)
              ELSE r[i + 1].start = r[i].end + 1 /\ r[i + 1].dir = Opposite(r[i].dir)
  <2>1. CASE i = n - 1
    BY <1>9, <2>1
  <2>2. CASE i # n - 1
    <3>1. i + 1 \in 1 .. n - 1
      BY <1>4, <2>2
    <3>2. r[i + 1].start = rs[i + 1].start /\ r[i + 1].dir = rs[i + 1].dir
      BY <1>9, <3>1
    <3>3. rs[i + 1].start = rs[i].end + 1 /\ rs[i + 1].dir = Opposite(rs[i].dir)
      BY <1>1, <2>2 DEF LinksTo
    <3> QED
      BY <1>9, <2>2, <3>2, <3>3
  <2> QED
    BY <2>1, <2>2
<1>11. LinksTo(r, ws, f.start, f.dir)
  BY <1>3, <1>8, <1>9, <1>10 DEF LinksTo
<1> QED
  BY <1>3, <1>8, <1>11

\* Every row has an id.
Named(rs) == \A i \in 1 .. Len(rs) : rs[i].id # NoId

\* The rows are linked, and the last starts with a swing of its own.
LinkedRows(rs, ws) ==
    /\ LinksTo(rs, ws, rs[Len(rs)].start, rs[Len(rs)].dir)
    /\ ws[rs[Len(rs)].start].dir = rs[Len(rs)].dir

\* The state of a rebuild whose rows are linked; the last is when it is complete.
Linked(s, ws) ==
    LinkedRows(s.rows, ws) /\ (s.active = NoSeq => LinkAt(s.rows[Len(s.rows)], ws))

\* A row that is not named stays so when the last is completed.
LEMMA CompletedRowsNamed ==
    ASSUME NEW rs \in Seq(TrendRow), rs # <<>>, NEW ws \in Seq(SwingRow),
           NEW t \in TrendRow, t.start <= t.end, t.end <= Len(ws),
           NEW r, r = CompletedRows(rs, t, ws), Named(r)
    PROVE  t.id # NoId /\ \A i \in 1 .. Len(rs) - 1 : rs[i].id # NoId
<1>1. PICK u, n : u = ToStartLimit(t, ws) /\ n = Len(rs)
  OBVIOUS
<1>2. t.start \in Nat \ {0} /\ t.end \in Nat /\ n \in Nat \ {0}
  BY <1>1 DEF TrendRow
<1>3. SameTrend(u, t) /\ u.end = t.end /\ t.start <= u.start /\ u.start <= t.end
  BY <1>1, ToStartLimitIs
<1>4. u \in TrendRow /\ u.start <= u.end /\ u.end <= Len(ws) /\ u.id = t.id /\ u.start \in Nat
  BY <1>3 DEF SameTrend, TrendRow
<1>5. PICK f, first, e : f = Finished(u, ws) /\ first = t.start /\ e = u.start - 1
  OBVIOUS
<1>6. f.id = u.id
  BY <1>4, <1>5, FinishedIs DEF SameTrend
<1>7. r = SettledRows(rs, first, u, ws)
  BY <1>1, <1>5 DEF CompletedRows
<1>8. /\ Len(r) = n /\ r[n] = f
      /\ \A i \in 1 .. n - 1 :
             r[i] = IF /\ u.start # first /\ i = n - 1 /\ e >= 1
                       /\ rs[i].done /\ rs[i].end # e
                    THEN Extended(rs[i], ws, e) ELSE rs[i]
  BY <1>1, <1>4, <1>5, <1>7, SettledRowsAre
<1>9. e \in Int /\ e <= Len(ws)
  BY <1>2, <1>3, <1>4, <1>5
<1>10. ASSUME NEW i \in 1 .. n - 1 PROVE r[i].id = rs[i].id
  <2>1. rs[i] \in TrendRow
    BY <1>1
  <2>2. CASE r[i] = rs[i]
    BY <2>2
  <2>3. CASE r[i] # rs[i]
    <3>1. r[i] = Extended(rs[i], ws, e) /\ e >= 1
      BY <1>8, <2>3
    <3>2. e \in 1 .. Len(ws)
      BY <1>9, <3>1
    <3>3. PICK x : x = Extended(rs[i], ws, e)
      OBVIOUS
    <3>4. x.id = rs[i].id
      BY <2>1, <3>2, <3>3, ExtendedIs DEF SameTrend
    <3> QED
      BY <3>1, <3>3, <3>4
  <2> QED
    BY <2>2, <2>3
<1>11. n \in 1 .. Len(r) /\ \A i \in 1 .. n - 1 : i \in 1 .. Len(r)
  BY <1>2, <1>8
<1> QED
  BY <1>1, <1>4, <1>6, <1>8, <1>10, <1>11 DEF Named

\* The rows when the next trend begins.
LEMMA BegunRows ==
    ASSUME NEW s \in StateRow, s.rows # <<>>, NEW ws \in Seq(SwingRow), NEW k \in 1 .. Len(ws),
           NEW d \in Directions, NEW n, n = Len(s.rows)
    PROVE  \/ /\ Begun(s, d, ws, k).rows = s.rows /\ Begun(s, d, ws, k).active = NoSeq
           \/ /\ Len(Begun(s, d, ws, k).rows) = n + 1
              /\ \A i \in 1 .. n : Begun(s, d, ws, k).rows[i] = s.rows[i]
              /\ Begun(s, d, ws, k).rows[n + 1].start = s.rows[n].end + 1
              /\ Begun(s, d, ws, k).rows[n + 1].dir = d
              /\ s.rows[n].end + 1 <= Len(ws)
              /\ Begun(s, d, ws, k).active # NoSeq
<1>1. PICK rs : rs = s.rows
  OBVIOUS
<1>2. rs \in Seq(TrendRow) /\ rs # <<>> /\ n \in Nat \ {0} /\ rs[n] \in TrendRow /\ s.ids \in Nat
  BY <1>1 DEF StateRow
<1>3. PICK b : b = rs[n].end + 1
  OBVIOUS
<1>4. b \in Nat \ {0}
  <2>1. rs[n].end \in Nat
    BY <1>2 DEF TrendRow
  <2> QED
    BY <1>3, <2>1
<1>5. CASE b > Len(ws)
  <2>1. PICK c : c = [s EXCEPT !.active = NoSeq, !.pullback = NoSeq]
    OBVIOUS
  <2>2. Begun(s, d, ws, k) = c
    BY <1>1, <1>3, <1>5, <2>1 DEF Begun
  <2>3. c.rows = rs /\ c.active = NoSeq
    BY <1>1, <2>1 DEF StateRow
  <2> QED
    BY <1>1, <2>2, <2>3
<1>6. CASE ~(b > Len(ws))
  <2>1. PICK t : t = [id |-> s.ids + 1, dir |-> d, start |-> b, end |-> k,
                      high |-> Max({ws[b].high, ws[k].high}), low |-> Min({ws[b].low, ws[k].low}),
                      done |-> FALSE]
    OBVIOUS
  <2>2. b \in 1 .. Len(ws)
    BY <1>4, <1>6
  <2>3. t \in TrendRow
    <3>1. ws[b] \in SwingRow /\ ws[k] \in SwingRow
      BY <2>2
    <3>2. ws[b].high \in Int /\ ws[k].high \in Int /\ ws[b].low \in Int /\ ws[k].low \in Int
      BY <3>1 DEF SwingRow
    <3>3. Max({ws[b].high, ws[k].high}) \in Int /\ Min({ws[b].low, ws[k].low}) \in Int
      BY <3>2, PairMaxMin
    <3>4. s.ids + 1 \in Nat /\ k \in Nat \ {0}
      BY <1>2
    <3> QED
      BY <1>4, <2>1, <3>3, <3>4 DEF TrendRow
  <2>4. t.dir = d /\ t.start = b
    BY <2>1
  <2>5. PICK q, r : q = Against(t, ws) /\ r = Append(rs, t)
    OBVIOUS
  <2>6. PICK c : c = [rows |-> r, ids |-> t.id, active |-> q, pullback |-> NoSeq]
    OBVIOUS
  <2>7. Begun(s, d, ws, k) = c
    BY <1>1, <1>3, <1>6, <2>1, <2>5, <2>6 DEF Begun
  <2>8. c.rows = r /\ c.active = q
    BY <2>6
  <2>9. Len(r) = n + 1 /\ r[n + 1] = t /\ \A i \in 1 .. n : r[i] = rs[i]
    BY <1>1, <1>2, <2>3, <2>5
  <2>10. q.trend = t
    BY <2>3, <2>5, AgainstIs
  <2>11. q # NoSeq
    BY <2>4, <2>10 DEF NoSeq, NoTrend, Directions
  <2>12. b <= Len(ws)
    BY <2>2
  <2> QED
    BY <1>1, <1>3, <2>4, <2>7, <2>8, <2>9, <2>11, <2>12
<1> QED
  BY <1>5, <1>6

\* The rows that were there keep their ids.
LEMMA BegunNamed ==
    ASSUME NEW s \in StateRow, s.rows # <<>>, NEW ws \in Seq(SwingRow), NEW k \in 1 .. Len(ws),
           NEW d \in Directions, Named(Begun(s, d, ws, k).rows)
    PROVE  Named(s.rows)
<1>1. PICK n, rs, b : rs = s.rows /\ n = Len(rs) /\ b = Begun(s, d, ws, k)
  OBVIOUS
<1>2. n \in Nat
  BY <1>1 DEF StateRow
<1>3. b.rows = rs \/ (Len(b.rows) = n + 1 /\ \A i \in 1 .. n : b.rows[i] = rs[i])
  BY <1>1, BegunRows
<1>4. \A i \in 1 .. n : i \in 1 .. n + 1
  BY <1>2
<1>5. Named(b.rows)
  BY <1>1
<1> QED
  BY <1>1, <1>3, <1>4, <1>5 DEF Named

\* The next trend is linked to the one it begins behind.
LEMMA BegunLinked ==
    ASSUME NEW s \in StateRow, s.rows # <<>>, NEW ws \in Seq(SwingRow), Alternating(ws),
           NEW k \in 1 .. Len(ws), NEW n, n = Len(s.rows), NEW final, final = s.rows[n],
           LinksTo(s.rows, ws, final.start, final.dir), LinkAt(final, ws)
    PROVE  Linked(Begun(s, Opposite(final.dir), ws, k), ws)
<1>1. PICK d, rs : d = Opposite(final.dir) /\ rs = s.rows
  OBVIOUS
<1>2. rs \in Seq(TrendRow) /\ rs # <<>> /\ n \in Nat \ {0} /\ final \in TrendRow /\ rs[n] = final
  BY <1>1 DEF StateRow
<1>3. d \in Directions
  BY <1>1 DEF Directions, Opposite
<1>4. PICK c : c = Begun(s, d, ws, k)
  OBVIOUS
<1>5. CASE c.rows = rs /\ c.active = NoSeq
  BY <1>1, <1>2, <1>4, <1>5 DEF Linked, LinkedRows, LinkAt
<1>6. CASE /\ Len(c.rows) = n + 1 /\ \A i \in 1 .. n : c.rows[i] = rs[i]
           /\ c.rows[n + 1].start = rs[n].end + 1 /\ c.rows[n + 1].dir = d
           /\ rs[n].end + 1 <= Len(ws) /\ c.active # NoSeq
  <2>1. PICK r, b : r = c.rows /\ b = final.end + 1
    OBVIOUS
  <2>2. /\ Len(r) = n + 1 /\ \A i \in 1 .. n : r[i] = rs[i]
        /\ r[n + 1].start = b /\ r[n + 1].dir = d /\ b <= Len(ws)
    BY <1>2, <1>6, <2>1
  <2>3. ASSUME NEW i \in 1 .. n
        PROVE  /\ LinkAt(r[i], ws)
               /\ IF i = n THEN b = r[i].end + 1 /\ d = Opposite(r[i].dir)
                  ELSE r[i + 1].start = r[i].end + 1 /\ r[i + 1].dir = Opposite(r[i].dir)
    <3>1. CASE i = n
      BY <1>1, <1>2, <2>1, <2>2, <3>1
    <3>2. CASE i # n
      <4>1. i \in 1 .. n - 1 /\ i + 1 \in 1 .. n /\ (i = n - 1 => i + 1 = n)
        BY <1>2, <3>2
      <4>2. /\ LinkAt(rs[i], ws)
            /\ IF i = n - 1 THEN final.start = rs[i].end + 1 /\ final.dir = Opposite(rs[i].dir)
               ELSE rs[i + 1].start = rs[i].end + 1 /\ rs[i + 1].dir = Opposite(rs[i].dir)
        BY <1>1, <4>1 DEF LinksTo
      <4>3. r[i] = rs[i] /\ r[i + 1] = rs[i + 1]
        BY <2>2, <4>1
      <4> QED
        BY <1>2, <3>2, <4>1, <4>2, <4>3
    <3> QED
      BY <3>1, <3>2
  <2>4. Len(r) - 1 = n
    BY <1>2, <2>2
  <2>5. LinksTo(r, ws, b, d)
    BY <2>2, <2>3, <2>4 DEF LinksTo
  <2>6. ws[b].dir = d
    <3>1. final.end \in 1 .. Len(ws) /\ ws[final.end].dir = final.dir
      BY DEF LinkAt, EndsAtLimit, AtLimit, Ranged, InRange
    <3>2. final.end \in 1 .. Len(ws) - 1
      BY <2>1, <2>2, <3>1
    <3> QED
      BY <1>1, <2>1, <3>1, <3>2 DEF Alternating
  <2>7. LinkedRows(r, ws)
    BY <2>2, <2>5, <2>6 DEF LinkedRows
  <2> QED
    BY <1>1, <1>4, <1>6, <2>1, <2>7 DEF Linked
<1>7. s.rows # <<>>
  BY <1>1, <1>2
<1>8. \/ c.rows = rs /\ c.active = NoSeq
      \/ /\ Len(c.rows) = n + 1 /\ \A i \in 1 .. n : c.rows[i] = rs[i]
         /\ c.rows[n + 1].start = rs[n].end + 1 /\ c.rows[n + 1].dir = d
         /\ rs[n].end + 1 <= Len(ws) /\ c.active # NoSeq
  BY <1>1, <1>3, <1>4, <1>7, BegunRows
<1> QED
  BY <1>5, <1>6, <1>8

\* As the active trend goes on, the rows stay linked and named.
LEMMA ContinueLinked ==
    ASSUME NEW s, NEW ws \in Seq(SwingRow), NEW k \in 1 .. Len(ws), State(s, ws, k - 1)
    PROVE  /\ LinkedRows(s.rows, ws) => LinkedRows(Continue(s, ws, k).rows, ws)
           /\ Named(Continue(s, ws, k).rows) => Named(s.rows)
<1>1. PICK t, n, rs : t = s.active.trend /\ rs = s.rows /\ n = Len(rs)
  OBVIOUS
<1>2. s.active # NoSeq /\ s.active \in SeqRow /\ t \in TrendRow
  BY <1>1, ContinueActive
<1>3. /\ s \in StateRow /\ Going(s.active, ws, k - 1) /\ rs[n] = t /\ rs \in Seq(TrendRow) /\ rs # <<>>
  BY <1>1, <1>2 DEF State, RowsTo
<1>4. PICK u, c : u = Extended(t, ws, k) /\ c = Continue(s, ws, k)
  OBVIOUS
<1>5. c.rows = WithLast(rs, u)
  BY <1>1, <1>2, <1>3, <1>4, ContinueIs
<1>6. u \in TrendRow /\ u.start = t.start /\ u.dir = t.dir /\ u.id = t.id
  BY <1>2, <1>4, ExtendedIs DEF SameTrend
<1>7. PICK w : w = WithLast(rs, u)
  OBVIOUS
<1>8. Len(w) = n /\ w[n] = u /\ \A i \in 1 .. n - 1 : w[i] = rs[i]
  BY <1>1, <1>3, <1>6, <1>7, WithLastIs
<1>9. LinkedRows(rs, ws) => LinkedRows(w, ws)
  <2>1. SUFFICES ASSUME LinkedRows(rs, ws) PROVE LinkedRows(w, ws)
    OBVIOUS
  <2>2. LinksTo(rs, ws, t.start, t.dir) /\ ws[t.start].dir = t.dir
    BY <1>1, <1>3, <2>1 DEF LinkedRows
  <2>3. PICK a, d : a = t.start /\ d = t.dir
    OBVIOUS
  <2>4. LinksTo(w, ws, a, d)
    BY <1>3, <1>6, <1>7, <2>2, <2>3, WithLastLinks
  <2> QED
    BY <1>6, <1>8, <2>2, <2>3, <2>4 DEF LinkedRows
<1>10. Named(w) => Named(rs)
  <2>1. SUFFICES ASSUME Named(w), NEW i \in 1 .. n PROVE rs[i].id # NoId
    BY <1>1 DEF Named
  <2>2. w[i].id # NoId
    BY <1>8, <2>1 DEF Named
  <2>3. i = n \/ i \in 1 .. n - 1
    BY <1>1, <1>3
  <2> QED
    BY <1>3, <1>6, <1>8, <2>2, <2>3
<1> QED
  BY <1>1, <1>4, <1>5, <1>7, <1>9, <1>10

\* So they do when the step without a pullback completes the active trend and
\* begins the next.
LEMMA TrendStepLinked ==
    ASSUME NEW s, NEW ws \in Seq(SwingRow), Alternating(ws), NEW k \in 1 .. Len(ws),
           Active(s, ws, k), LinkedRows(s.rows, ws)
    PROVE  Linked(TrendStep(s, ws, k), ws)
<1>1. PICK t, d, rs, n : t = s.active.trend /\ d = Opposite(t.dir) /\ rs = s.rows /\ n = Len(rs)
  OBVIOUS
<1>2. /\ s \in StateRow /\ s.active # NoSeq /\ Going(s.active, ws, k) /\ t.start <= k
      /\ RowsTo(rs, k, t.start) /\ rs[n] = t
  BY <1>1 DEF Active
<1>3. s.active \in SeqRow /\ t \in TrendRow /\ t.end = k /\ t.start \in Nat
  BY <1>1, <1>2 DEF Going, SeqRow, TrendRow
<1>4. CASE SfFractal(s.active.sfs) = "none"
  <2>1. TrendStep(s, ws, k) = s
    BY <1>4 DEF TrendStep
  <2> QED
    BY <1>2, <2>1 DEF Linked
<1>5. CASE SfFractal(s.active.sfs) # "none" /\ HasGap(s.active.sfs)
  <2>1. PICK p : p = Split(s.active, ws)
    OBVIOUS
  <2>2. TrendStep(s, ws, k) = [s EXCEPT !.pullback = p]
    BY <1>5, <2>1 DEF TrendStep
  <2>3. [s EXCEPT !.pullback = p].rows = s.rows /\ [s EXCEPT !.pullback = p].active = s.active
    BY <1>2 DEF StateRow
  <2> QED
    BY <1>2, <2>2, <2>3 DEF Linked
<1>6. CASE SfFractal(s.active.sfs) # "none" /\ ~HasGap(s.active.sfs)
  <2>1. PICK c, r : c = Completed(s, t, ws) /\ r = CompletedRows(rs, t, ws)
    OBVIOUS
  <2>2. TrendStep(s, ws, k) = Begun(c, d, ws, k)
    BY <1>1, <1>6, <2>1 DEF TrendStep
  <2>3. rs \in Seq(TrendRow) /\ rs # <<>> /\ n \in Nat \ {0} /\ t.start <= t.end /\ t.end <= Len(ws) /\ t.end <= k
    BY <1>1, <1>2, <1>3 DEF RowsTo
  <2>4. c \in StateRow /\ c.rows = r
    BY <1>1, <1>2, <1>3, <2>1, <2>3, CompletedIs
  <2>5. LinksTo(rs, ws, t.start, t.dir) /\ ws[t.start].dir = t.dir
    BY <1>1, <1>2 DEF LinkedRows
  <2>6. PICK final, m : final = r[m] /\ m = Len(r)
    OBVIOUS
  <2>7. LinksTo(r, ws, final.start, final.dir) /\ LinkAt(final, ws) /\ final.dir = t.dir
    BY <1>2, <1>3, <2>1, <2>3, <2>5, <2>6, CompletedRowsLinked
  <2>8. Len(r) = n
    <3>1. PICK a : a = t.start
      OBVIOUS
    <3>2. a \in Nat /\ a <= t.start /\ RowsTo(rs, k, a)
      BY <1>2, <1>3, <3>1
    <3> QED
      BY <1>1, <1>3, <2>1, <2>3, <3>2, CompletedRowsOrdered
  <2>9. r # <<>>
    BY <2>3, <2>8
  <2>10. Linked(Begun(c, Opposite(final.dir), ws, k), ws)
    BY <2>4, <2>6, <2>7, <2>9, BegunLinked
  <2> QED
    BY <1>1, <2>2, <2>7, <2>10
<1> QED
  BY <1>4, <1>5, <1>6

\* Rows that are named behind that step were so before.
LEMMA TrendStepNamed ==
    ASSUME NEW s, NEW ws \in Seq(SwingRow), NEW k \in 1 .. Len(ws), Active(s, ws, k),
           Named(TrendStep(s, ws, k).rows)
    PROVE  Named(s.rows)
<1>1. PICK t, d, rs, n : t = s.active.trend /\ d = Opposite(t.dir) /\ rs = s.rows /\ n = Len(rs)
  OBVIOUS
<1>2. /\ s \in StateRow /\ s.active # NoSeq /\ Going(s.active, ws, k) /\ t.start <= k
      /\ RowsTo(rs, k, t.start) /\ rs[n] = t
  BY <1>1 DEF Active
<1>3. s.active \in SeqRow /\ t \in TrendRow /\ t.end = k /\ t.start \in Nat
  BY <1>1, <1>2 DEF Going, SeqRow, TrendRow
<1>4. CASE SfFractal(s.active.sfs) = "none"
  <2>1. TrendStep(s, ws, k) = s
    BY <1>4 DEF TrendStep
  <2> QED
    BY <2>1
<1>5. CASE SfFractal(s.active.sfs) # "none" /\ HasGap(s.active.sfs)
  <2>1. TrendStep(s, ws, k) = [s EXCEPT !.pullback = Split(s.active, ws)]
    BY <1>5 DEF TrendStep
  <2>2. \A x : [s EXCEPT !.pullback = x].rows = s.rows
    BY <1>2 DEF StateRow
  <2> QED
    BY <2>1, <2>2
<1>6. CASE SfFractal(s.active.sfs) # "none" /\ ~HasGap(s.active.sfs)
  <2>1. PICK c, r : c = Completed(s, t, ws) /\ r = CompletedRows(rs, t, ws)
    OBVIOUS
  <2>2. TrendStep(s, ws, k) = Begun(c, d, ws, k)
    BY <1>1, <1>6, <2>1 DEF TrendStep
  <2>3. rs \in Seq(TrendRow) /\ rs # <<>> /\ n \in Nat \ {0} /\ t.start <= t.end /\ t.end <= Len(ws) /\ t.end <= k
    BY <1>1, <1>2, <1>3 DEF RowsTo
  <2>4. c \in StateRow /\ c.rows = r
    BY <1>1, <1>2, <1>3, <2>1, <2>3, CompletedIs
  <2>5. r # <<>>
    <3>1. PICK a : a = t.start
      OBVIOUS
    <3>2. a \in Nat /\ a <= t.start /\ RowsTo(rs, k, a)
      BY <1>2, <1>3, <3>1
    <3>3. RowsTo(r, k, a)
      BY <1>1, <1>3, <2>1, <2>3, <3>2, CompletedRowsOrdered
    <3> QED
      BY <3>3 DEF RowsTo
  <2>6. d \in Directions
    BY <1>1 DEF Directions, Opposite
  <2>7. Named(r)
    BY <2>2, <2>4, <2>5, <2>6, BegunNamed
  <2>8. t.id # NoId /\ \A j \in 1 .. n - 1 : rs[j].id # NoId
    BY <1>1, <1>3, <2>1, <2>3, <2>7, CompletedRowsNamed
  <2>9. \A i \in 1 .. n : i = n \/ i \in 1 .. n - 1
    BY <2>3
  <2> QED
    BY <1>1, <1>2, <2>8, <2>9 DEF Named
<1> QED
  BY <1>4, <1>5, <1>6

\* A pullback that comes to an end leaves a row without an id.
LEMMA PullbackStepNames ==
    ASSUME NEW s, NEW ws \in Seq(SwingRow), NEW k \in 1 .. Len(ws), State(s, ws, k - 1),
           NEW p \in SeqRow, p # NoSeq, PullbackIn(p, s.active.trend, ws, k),
           s.active.trend.start <= k - 1, Named(PullbackStep(s, p, ws, k).rows)
    PROVE  /\ PullbackStep(s, p, ws, k).rows = Continue(s, ws, k).rows
           /\ PullbackStep(s, p, ws, k).active = Continue(s, ws, k).active
<1>1. PICK t, c : t = s.active.trend /\ c = Continue(s, ws, k)
  OBVIOUS
<1>2. /\ s.active # NoSeq /\ s.active \in SeqRow /\ t \in TrendRow /\ Active(c, ws, k)
  BY <1>1, ContinueActive
<1>3. c \in StateRow
  BY <1>2 DEF Active
<1>4. \A x : [c EXCEPT !.pullback = x].rows = c.rows /\ [c EXCEPT !.pullback = x].active = c.active
  BY <1>3 DEF StateRow
<1>5. /\ Going(p, ws, k) /\ p.trend.id = NoId /\ t.start <= p.trend.start /\ p.trend.start <= k
  BY <1>1 DEF PullbackIn
<1>6. p.trend \in TrendRow /\ p.trend.start \in Nat /\ p.trend.end = k
  BY <1>5 DEF Going, SeqRow, TrendRow
<1>7. PICK a, rs, e : a = t.start /\ rs = s.rows /\ e = Completed(s, t, ws)
  OBVIOUS
<1>8. /\ s \in StateRow /\ rs \in Seq(TrendRow) /\ rs # <<>> /\ RowsTo(rs, k, a) /\ a \in Nat /\ a <= t.start
      /\ t.start <= t.end /\ t.end <= k /\ t.end <= Len(ws)
  <2>1. s \in StateRow /\ Going(s.active, ws, k - 1) /\ RowsTo(rs, k - 1, a)
    BY <1>1, <1>2, <1>7 DEF State
  <2>2. t.end = k - 1 /\ t.start <= k - 1 /\ a \in Nat
    BY <1>1, <1>2, <1>7, <2>1 DEF Going, TrendRow
  <2>3. RowsTo(rs, k, a)
    <3>1. k - 1 \in Nat /\ k \in Nat /\ k - 1 <= k /\ a <= a
      BY <2>2
    <3> QED
      BY <2>1, <2>2, <3>1, RowsGoOn
  <2>4. rs \in Seq(TrendRow) /\ rs # <<>>
    BY <2>3 DEF RowsTo
  <2>5. a <= t.start /\ t.start <= t.end /\ t.end <= k /\ t.end <= Len(ws)
    BY <1>7, <2>2
  <2> QED
    BY <2>1, <2>2, <2>3, <2>4, <2>5
<1>9. e \in StateRow /\ e.rows = CompletedRows(rs, t, ws)
  BY <1>2, <1>7, <1>8, CompletedIs
<1>10. RowsTo(e.rows, k, a)
  <2>1. PICK r : r = CompletedRows(rs, t, ws)
    OBVIOUS
  <2>2. RowsTo(r, k, a)
    BY <1>2, <1>8, <2>1, CompletedRowsOrdered
  <2> QED
    BY <1>9, <2>1, <2>2
<1>11. PICK es, n : es = e.rows /\ n = Len(es)
  OBVIOUS
<1>12. es \in Seq(TrendRow) /\ es # <<>> /\ n \in Nat \ {0}
  BY <1>10, <1>11 DEF RowsTo
<1>13. CASE NewLimit(t, ws[k])
  <2>1. PullbackStep(s, p, ws, k) = [c EXCEPT !.pullback = NoSeq]
    BY <1>1, <1>13 DEF PullbackStep
  <2> QED
    BY <1>1, <1>4, <2>1
<1>14. CASE ~NewLimit(t, ws[k]) /\ SfFractal(p.sfs) = "none"
  <2>1. PullbackStep(s, p, ws, k) = [c EXCEPT !.pullback = p]
    BY <1>1, <1>14 DEF PullbackStep
  <2> QED
    BY <1>1, <1>4, <2>1
<1>15. CASE ~NewLimit(t, ws[k]) /\ SfFractal(p.sfs) # "none" /\ ~Qualifies(p)
  <2>1. PullbackStep(s, p, ws, k) = [c EXCEPT !.pullback = Updated(Agg(p, ws, k), ws, k)]
    BY <1>1, <1>15 DEF PullbackStep
  <2> QED
    BY <1>1, <1>4, <2>1
<1>16. ASSUME ~NewLimit(t, ws[k]), SfFractal(p.sfs) # "none", Qualifies(p), HasGap(p.sfs)
       PROVE  FALSE
  <2>1. PICK q : q = Split(p, ws)
    OBVIOUS
  <2>2. PICK d, r : d = [e EXCEPT !.active = p, !.pullback = q] /\ r = WithLast(es, p.trend)
    OBVIOUS
  <2>3. PICK f : f = [d EXCEPT !.rows = r]
    OBVIOUS
  <2>4. d.active = p /\ d.rows = es /\ d \in [rows : {es}, ids : Nat, active : {p}, pullback : {q}]
    BY <1>9, <1>11, <2>2 DEF StateRow
  <2>5. f.rows = r
    BY <2>3, <2>4
  <2>6. PullbackStep(s, p, ws, k) = f
    <3>1. PullbackStep(s, p, ws, k) = ShowActive(d)
      BY <1>1, <1>7, <1>16, <2>1, <2>2 DEF PullbackStep
    <3>2. ShowActive(d) = [d EXCEPT !.rows = WithLast(d.rows, d.active.trend)]
      BY DEF ShowActive
    <3> QED
      BY <2>2, <2>3, <2>4, <3>1, <3>2
  <2>7. Len(r) = n /\ r[n] = p.trend
    BY <1>6, <1>11, <1>12, <2>2, WithLastIs
  <2>8. n \in 1 .. Len(r) /\ Named(r)
    BY <1>12, <2>5, <2>6, <2>7
  <2> QED
    BY <1>5, <2>7, <2>8 DEF Named
<1>17. ASSUME ~NewLimit(t, ws[k]), SfFractal(p.sfs) # "none", Qualifies(p), ~HasGap(p.sfs)
       PROVE  FALSE
  <2>1. PICK u, d : u = p.trend /\ d = Opposite(t.dir)
    OBVIOUS
  <2>2. PICK f : f = Completed(e, u, ws)
    OBVIOUS
  <2>3. PullbackStep(s, p, ws, k) = Begun(f, d, ws, k)
    BY <1>1, <1>7, <1>17, <2>1, <2>2 DEF PullbackStep
  <2>4. u \in TrendRow /\ u.start <= u.end /\ u.end <= Len(ws) /\ u.end <= k /\ a <= u.start /\ u.id = NoId
    BY <1>5, <1>6, <1>7, <2>1
  <2>5. f \in StateRow /\ f.rows = CompletedRows(es, u, ws)
    BY <1>9, <1>11, <1>12, <2>2, <2>4, CompletedIs
  <2>6. PICK fs : fs = f.rows
    OBVIOUS
  <2>7. RowsTo(fs, k, a) /\ Len(fs) = n /\ fs[n].id = NoId
    <3>1. PICK r : r = CompletedRows(es, u, ws)
      OBVIOUS
    <3>2. RowsTo(r, k, a) /\ Len(r) = Len(es) /\ r[Len(es)].id = u.id
      BY <1>8, <1>10, <1>11, <2>4, <3>1, CompletedRowsOrdered
    <3> QED
      BY <1>11, <2>4, <2>5, <2>6, <3>1, <3>2
  <2>8. d \in Directions /\ fs # <<>>
    BY <1>12, <2>1, <2>7 DEF Directions, Opposite
  <2>9. PICK b : b = Begun(f, d, ws, k)
    OBVIOUS
  <2>10. \/ b.rows = fs
         \/ Len(b.rows) = n + 1 /\ \A i \in 1 .. n : b.rows[i] = fs[i]
    BY <2>5, <2>6, <2>7, <2>8, <2>9, BegunRows
  <2>11. Named(b.rows)
    BY <2>3, <2>9
  <2>12. b.rows[n].id = NoId /\ n \in 1 .. Len(b.rows)
    BY <1>12, <2>7, <2>10
  <2> QED
    BY <2>11, <2>12 DEF Named
<1> QED
  BY <1>13, <1>14, <1>15, <1>16, <1>17

\* The rows are linked if they are named.
Chained(s, ws) == Named(s.rows) => Linked(s, ws)

\* A step keeps the rows chained.
LEMMA BuildStepChained ==
    ASSUME NEW s, NEW ws \in Seq(SwingRow), Alternating(ws), NEW k \in 1 .. Len(ws),
           State(s, ws, k - 1), Chained(s, ws)
    PROVE  Chained(BuildStep(s, ws, k), ws)
<1>1. SUFFICES ASSUME Named(BuildStep(s, ws, k).rows) PROVE Linked(BuildStep(s, ws, k), ws)
  BY DEF Chained
<1>2. PICK c : c = Continue(s, ws, k)
  OBVIOUS
<1>3. Active(c, ws, k) /\ c.active # NoSeq
  BY <1>2, ContinueActive DEF Active
<1>4. Named(c.rows) => LinkedRows(c.rows, ws)
  BY <1>2, ContinueLinked DEF Chained, Linked
<1>5. CASE s.pullback = NoSeq
  <2>1. BuildStep(s, ws, k) = TrendStep(c, ws, k)
    BY <1>2, <1>5 DEF BuildStep
  <2>2. Named(c.rows)
    BY <1>1, <1>3, <2>1, TrendStepNamed
  <2> QED
    BY <1>3, <1>4, <2>1, <2>2, TrendStepLinked
<1>6. CASE s.pullback # NoSeq
  <2>1. PICK p : p = Agg(Updated(s.pullback, ws, k), ws, k)
    OBVIOUS
  <2>2. BuildStep(s, ws, k) = PullbackStep(s, p, ws, k)
    BY <1>6, <2>1 DEF BuildStep
  <2>3. p \in SeqRow /\ p # NoSeq /\ PullbackIn(p, s.active.trend, ws, k) /\ s.active.trend.start <= k - 1
    BY <1>6, <2>1, PullbackGoes
  <2>4. PullbackStep(s, p, ws, k).rows = c.rows /\ PullbackStep(s, p, ws, k).active = c.active
    BY <1>1, <1>2, <2>2, <2>3, PullbackStepNames
  <2> QED
    BY <1>1, <1>3, <1>4, <2>2, <2>4 DEF Linked
<1> QED
  BY <1>5, <1>6

\* The first trend starts with a swing of its own.
LEMMA SeededChained ==
    ASSUME NEW ws \in Seq(SwingRow), NEW k \in 3 .. Len(ws), CanSeed(ws, k)
    PROVE  Chained(Seeded(ws, k), ws)
<1>1. PICK s : s = Seeded(ws, k)
  OBVIOUS
<1>2. State(s, ws, k)
  BY <1>1, SeededIs
<1>3. PICK t : s.rows = <<t>> /\ t.start = k - 2 /\ t.dir = ws[k].dir /\ ~t.done
  BY <1>1 DEF Seeded
<1>4. Len(s.rows) = 1 /\ s.rows[1] = t
  BY <1>3
<1>5. s.active # NoSeq
  BY <1>2, <1>3, <1>4 DEF State, Ended
<1>6. ws[k - 2].dir = ws[k].dir
  BY DEF CanSeed
<1>7. LinksTo(s.rows, ws, s.rows[1].start, s.rows[1].dir)
  <2>1. 1 .. Len(s.rows) - 1 = {}
    BY <1>4
  <2> QED
    BY <2>1 DEF LinksTo
<1> QED
  BY <1>1, <1>3, <1>4, <1>5, <1>6, <1>7 DEF Chained, Linked, LinkedRows

\* Trends of a rebuild, as TrendsChain asks.
ChainedRows(rs, ws) ==
    Named(rs) =>
        \A i \in 1 .. Len(rs) :
            LET t   == rs[i]
                own == {k \in t.start .. t.end : ws[k].dir = t.dir}
            IN  /\ t.start \in own
                /\ i > 1 => /\ t.dir = Opposite(rs[i - 1].dir)
                            /\ t.start = rs[i - 1].end + 1
                /\ t.done => /\ t.end \in own
                             /\ \A k \in own : IF t.dir = "up" THEN ws[k].high <= ws[t.end].high
                                               ELSE ws[k].low >= ws[t.end].low

\* The rows are chained all along a rebuild.
LEMMA RebuildsChained ==
    ASSUME NEW ws \in Seq(SwingRow), Alternating(ws), NEW e \in 3 .. Len(ws), CanSeed(ws, e),
           NEW g, Rebuilds(g, ws, e)
    PROVE  Chained(g[Len(ws)], ws)
<1> DEFINE n == Len(ws)
           P == {k \in 0 .. n : k >= e => Chained(g[k], ws)}
<1>1. n \in Nat /\ e \in 3 .. n
  OBVIOUS
<1>2. 0 \in P
  BY <1>1
<1>3. ASSUME NEW k \in 1 .. n, k - 1 \in P PROVE k \in P
  <2>1. k \in 0 .. n
    BY <1>1
  <2>2. CASE k < e
    BY <1>1, <2>1, <2>2
  <2>3. CASE k = e
    <3>1. k \in 0 .. e
      BY <1>1, <2>3
    <3>2. g[k] = Seeded(ws, e)
      BY <3>1 DEF Rebuilds
    <3> QED
      BY <2>1, <3>2, SeededChained
  <2>4. CASE k > e
    <3>1. k \in e + 1 .. n /\ k - 1 \in e .. n /\ k - 1 >= e
      BY <1>1, <2>4
    <3>2. PICK s : s = g[k - 1]
      OBVIOUS
    <3>3. State(s, ws, k - 1) /\ g[k] = BuildStep(s, ws, k) /\ Chained(s, ws)
      BY <1>3, <3>1, <3>2 DEF Rebuilds
    <3>4. Chained(g[k], ws)
      BY <3>3, BuildStepChained
    <3> QED
      BY <2>1, <3>4
  <2> QED
    BY <1>1, <2>2, <2>3, <2>4
<1>4. \A k \in 0 .. n : k \in P
  <2> HIDE DEF P, n
  <2> QED
    BY <1>1, <1>2, <1>3, Reaches
<1> QED
  BY <1>1, <1>4

\* The rows of a rebuild are chained.
LEMMA RebuiltChained ==
    ASSUME NEW ws \in Seq(SwingRow), Alternating(ws)
    PROVE  ChainedRows(Rebuilt(ws), ws)
<1>1. CASE Rebuilt(ws) = <<>>
  BY <1>1 DEF ChainedRows
<1>2. CASE Rebuilt(ws) # <<>>
  <2>1. PICK e \in 3 .. Len(ws) : /\ Rebuilds(Rebuilding(ws, e), ws, e)
                                  /\ Rebuilt(ws) = Rebuilding(ws, e)[Len(ws)].rows
                                  /\ CanSeed(ws, e)
    BY <1>2, RebuiltIs
  <2>2. PICK g, m : g = Rebuilding(ws, e) /\ m = Len(ws)
    OBVIOUS
  <2>3. PICK s : s = g[m]
    OBVIOUS
  <2>4. State(s, ws, m)
    <3>1. m \in e .. Len(ws)
      BY <2>2
    <3> QED
      BY <2>1, <2>2, <2>3, <3>1 DEF Rebuilds
  <2>5. Chained(s, ws)
    BY <2>1, <2>2, <2>3, RebuildsChained
  <2>6. PICK rs, n : rs = s.rows /\ n = Len(rs)
    OBVIOUS
  <2>7. OrderedRows(rs, ws)
    BY <2>1, <2>2, <2>3, <2>6, RebuiltOrdered
  <2>8. rs \in Seq(TrendRow) /\ rs # <<>> /\ n \in Nat \ {0}
    BY <2>4, <2>6 DEF State, RowsTo
  <2> SUFFICES ChainedRows(rs, ws)
    BY <2>1, <2>2, <2>3, <2>6
  <2> SUFFICES ASSUME Named(rs), NEW i \in 1 .. Len(rs)
               PROVE  LET t   == rs[i]
                          own == {k \in t.start .. t.end : ws[k].dir = t.dir}
                      IN  /\ t.start \in own
                          /\ i > 1 => /\ t.dir = Opposite(rs[i - 1].dir)
                                      /\ t.start = rs[i - 1].end + 1
                          /\ t.done => /\ t.end \in own
                                       /\ \A k \in own : IF t.dir = "up" THEN ws[k].high <= ws[t.end].high
                                                         ELSE ws[k].low >= ws[t.end].low
    BY DEF ChainedRows
  <2>9. PICK own : own = {k \in rs[i].start .. rs[i].end : ws[k].dir = rs[i].dir} /\ i \in 1 .. n
    BY <2>6
  <2>10. PICK t : t = rs[i]
    OBVIOUS
  <2>11. /\ t \in TrendRow /\ t.start \in Nat \ {0} /\ t.end \in Nat \ {0} /\ t.dir \in Directions
         /\ t.start <= t.end /\ t.end <= Len(ws)
    <3>1. t \in TrendRow
      BY <2>6, <2>8, <2>10
    <3> QED
      BY <2>6, <2>7, <2>10, <3>1 DEF OrderedRows, TrendRow
  <2>12. own = Ranged(ws, t.start, t.end, t.dir)
    <3>1. t.start .. t.end = InRange(ws, t.start, t.end)
      BY <2>11 DEF InRange
    <3> QED
      BY <2>9, <2>10, <3>1 DEF Ranged
  <2>13. Linked(s, ws)
    BY <2>5, <2>6 DEF Chained
  <2>14. ws[t.start].dir = t.dir
    <3>1. i = n \/ i \in 1 .. n - 1
      BY <2>8, <2>9
    <3> QED
      BY <2>6, <2>10, <2>13, <3>1 DEF Linked, LinkedRows, LinksTo, LinkAt
  <2>15. t.start \in own
    BY <2>9, <2>10, <2>11, <2>14
  <2>16. i > 1 => rs[i].dir = Opposite(rs[i - 1].dir) /\ rs[i].start = rs[i - 1].end + 1
    <3>1. SUFFICES ASSUME i > 1
                   PROVE  rs[i].dir = Opposite(rs[i - 1].dir) /\ rs[i].start = rs[i - 1].end + 1
      OBVIOUS
    <3>2. PICK j : j = i - 1
      OBVIOUS
    <3>3. j \in 1 .. n - 1 /\ j + 1 = i /\ (j = n - 1 <=> i = n)
      BY <2>8, <2>9, <3>1, <3>2
    <3>4. IF j = n - 1 THEN rs[n].start = rs[j].end + 1 /\ rs[n].dir = Opposite(rs[j].dir)
          ELSE rs[j + 1].start = rs[j].end + 1 /\ rs[j + 1].dir = Opposite(rs[j].dir)
      BY <2>6, <2>13, <3>3 DEF Linked, LinkedRows, LinksTo
    <3> QED
      BY <3>2, <3>3, <3>4
  <2>17. ASSUME t.done PROVE EndsAtLimit(ws, t.start, t.end, t.dir)
    <3>1. CASE i \in 1 .. n - 1
      BY <2>6, <2>10, <2>13, <3>1 DEF Linked, LinkedRows, LinksTo, LinkAt
    <3>2. CASE i = n
      <4>1. s.active = NoSeq
        BY <2>4, <2>6, <2>10, <2>17, <3>2 DEF State, Going
      <4> QED
        BY <2>6, <2>10, <2>13, <3>2, <4>1 DEF Linked, LinkAt
    <3> QED
      BY <2>8, <2>9, <3>1, <3>2
  <2>18. t.done => /\ t.end \in own
                   /\ \A k \in own : IF t.dir = "up" THEN ws[k].high <= ws[t.end].high
                                     ELSE ws[k].low >= ws[t.end].low
    BY <2>11, <2>12, <2>17 DEF EndsAtLimit, AtLimit, EndLimit, Directions
  <2> QED
    BY <2>9, <2>10, <2>15, <2>16, <2>18
<1> QED
  BY <1>1, <1>2

\* A swing confirmed behind others that alternate with it.
LEMMA AppendAlternates ==
    ASSUME NEW ws \in Seq(SwingRow), Alternating(ws), NEW p \in Int, NEW q \in Int, p # q,
           ws = <<>> \/ Follows(SwingOf(p, q), Last(ws), p)
    PROVE  SwingOf(p, q) \in SwingRow /\ Alternating(Append(ws, SwingOf(p, q)))
<1>1. PICK w, n, l : w = SwingOf(p, q) /\ n = Len(ws) /\ l = ws[n]
  OBVIOUS
<1>2. PICK hi, lo : hi = Max({p, q}) /\ lo = Min({p, q})
  OBVIOUS
<1>3. hi \in {p, q} /\ p <= hi /\ q <= hi /\ lo \in {p, q} /\ lo <= p /\ lo <= q
  BY <1>2, PairMaxMin
<1>4. w = [dir |-> IF p < q THEN "up" ELSE "down", high |-> hi, low |-> lo]
  BY <1>1, <1>2 DEF SwingOf
<1>5. w \in SwingRow
  BY <1>3, <1>4 DEF SwingRow, Directions
<1>6. (w.dir = "up" => w.low = p) /\ (w.dir # "up" => w.high = p)
  BY <1>3, <1>4
<1>7. PICK v : v = Append(ws, w)
  OBVIOUS
<1>8. n \in Nat /\ v \in Seq(SwingRow) /\ Len(v) = n + 1 /\ v[n + 1] = w /\ \A i \in 1 .. n : v[i] = ws[i]
  BY <1>1, <1>5, <1>7
<1>9. ASSUME NEW i \in 1 .. n
      PROVE  /\ v[i + 1].dir = Opposite(v[i].dir)
             /\ IF v[i].dir = "up" THEN v[i + 1].high = v[i].high ELSE v[i + 1].low = v[i].low
  <2>1. CASE i = n
    <3>1. v[i] = l /\ v[i + 1] = w
      BY <1>1, <1>8, <2>1
    <3>2. ws # <<>> /\ Last(ws) = l
      BY <1>1, <1>8, <2>1 DEF Last
    <3>3. w.dir = Opposite(l.dir) /\ p = IF l.dir = "up" THEN l.high ELSE l.low
      BY <1>1, <3>2 DEF Follows
    <3>4. (l.dir = "up" => w.dir # "up") /\ (l.dir # "up" => w.dir = "up")
      BY <3>3 DEF Opposite
    <3> QED
      BY <1>6, <3>1, <3>3, <3>4
  <2>2. CASE i # n
    <3>1. i \in 1 .. n - 1 /\ i + 1 \in 1 .. n
      BY <1>8, <2>2
    <3>2. v[i] = ws[i] /\ v[i + 1] = ws[i + 1]
      BY <1>8, <3>1
    <3> QED
      BY <1>1, <3>1, <3>2 DEF Alternating
  <2> QED
    BY <2>1, <2>2
<1>10. Len(v) - 1 = n
  BY <1>8
<1>11. Alternating(v)
  BY <1>9, <1>10 DEF Alternating
<1> QED
  BY <1>1, <1>5, <1>7, <1>11

\* Swings alternate without the last of them.
LEMMA FrontAlternates ==
    ASSUME NEW ws \in Seq(SwingRow), ws # <<>>, Alternating(ws)
    PROVE  Front(ws) \in Seq(SwingRow) /\ Alternating(Front(ws))
<1>1. PICK v, n : v = Front(ws) /\ n = Len(ws) - 1
  OBVIOUS
<1>2. n \in Nat /\ n + 1 = Len(ws)
  BY <1>1
<1>3. v \in Seq(SwingRow) /\ Len(v) = n /\ \A i \in 1 .. n : v[i] = ws[i]
  BY <1>1, <1>2 DEF Front
<1>4. \A i \in 1 .. n - 1 : i \in 1 .. n /\ i + 1 \in 1 .. n /\ i \in 1 .. Len(ws) - 1
  BY <1>1, <1>2
<1>5. \A i \in 1 .. n - 1 : v[i] = ws[i] /\ v[i + 1] = ws[i + 1]
  BY <1>3, <1>4
<1>6. Alternating(v)
  BY <1>3, <1>4, <1>5 DEF Alternating
<1> QED
  BY <1>1, <1>3, <1>6

-----------------------------------------------------------------------------
(* A further swing.                                                        *)

\* The swings vs are ws and a further one.
Further(vs, ws) ==
    /\ vs \in Seq(SwingRow) /\ ws \in Seq(SwingRow) /\ Len(vs) = Len(ws) + 1
    /\ \A k \in 1 .. Len(ws) : vs[k] = ws[k]

\* What is made of one swing that was there is as it was.
LEMMA SameSwing ==
    ASSUME NEW vs, NEW ws, Further(vs, ws), NEW k \in 1 .. Len(ws)
    PROVE  /\ \A t : Extended(t, vs, k) = Extended(t, ws, k)
           /\ \A q : Updated(q, vs, k) = Updated(q, ws, k) /\ Agg(q, vs, k) = Agg(q, ws, k)
<1>1. vs[k] = ws[k]
  BY DEF Further
<1>2. \A t : Extended(t, vs, k) = Extended(t, ws, k)
  BY <1>1 DEF Extended
<1> QED
  BY <1>1, <1>2 DEF Updated, Agg

\* So are the swings of a range that ended before.
LEMMA SameRange ==
    ASSUME NEW vs, NEW ws, Further(vs, ws), NEW a, NEW b \in Int, b <= Len(ws)
    PROVE  InRange(vs, a, b) = InRange(ws, a, b)
<1>1. /\ Len(ws) \in Nat /\ Len(vs) = Len(ws) + 1
      /\ \A k \in 1 .. Len(ws) : vs[k] = ws[k]
  BY DEF Further
<1>2. PICK n, m : n = Len(ws) /\ m = Len(vs)
  OBVIOUS
<1>3. \A k \in 1 .. m : k <= b => k \in 1 .. n
  BY <1>1, <1>2
<1>4. \A k \in 1 .. n : k \in 1 .. m
  BY <1>1, <1>2
<1> QED
  BY <1>2, <1>3, <1>4 DEF InRange

\* So are the limits of the range.
LEMMA SameLimit ==
    ASSUME NEW vs, NEW ws, Further(vs, ws), NEW a, NEW b \in Int, b <= Len(ws), NEW d, NEW limit
    PROVE  LimitSwing(vs, a, b, d, limit) = LimitSwing(ws, a, b, d, limit)
<1>1. \A k \in 1 .. Len(ws) : vs[k] = ws[k]
  BY DEF Further
<1>2. InRange(vs, a, b) = InRange(ws, a, b)
  BY SameRange
<1>3. \A k \in InRange(ws, a, b) : vs[k] = ws[k]
  BY <1>1 DEF InRange
<1>4. Ranged(vs, a, b, d) = Ranged(ws, a, b, d)
  BY <1>2, <1>3 DEF Ranged
<1>5. PICK R : R = Ranged(ws, a, b, d)
  OBVIOUS
<1>6. \A k \in R : vs[k] = ws[k]
  BY <1>3, <1>5 DEF Ranged
<1>7. {k \in R : \A j \in R : vs[j].high <= vs[k].high} = {k \in R : \A j \in R : ws[j].high <= ws[k].high}
  BY <1>6
<1>8. {k \in R : \A j \in R : vs[j].low >= vs[k].low} = {k \in R : \A j \in R : ws[j].low >= ws[k].low}
  BY <1>6
<1>9. Furthest(vs, R, limit) = Furthest(ws, R, limit)
  BY <1>7, <1>8 DEF Furthest
<1>10. /\ LimitSwing(vs, a, b, d, limit) = Furthest(vs, R, limit)
       /\ LimitSwing(ws, a, b, d, limit) = Furthest(ws, R, limit)
  BY <1>4, <1>5 DEF LimitSwing, Ranged
<1> QED
  BY <1>9, <1>10

\* The swings against a trend that ended before.
LEMMA SameAgainst ==
    ASSUME NEW vs, NEW ws, Further(vs, ws), NEW t \in TrendRow, t.end <= Len(ws)
    PROVE  Against(t, vs) = Against(t, ws)
<1>1. /\ ws \in Seq(SwingRow) /\ vs \in Seq(SwingRow) /\ t.end \in Int
      /\ Len(ws) \in Nat /\ Len(vs) = Len(ws) + 1
  BY DEF Further, TrendRow
<1>2. PICK f : AgainstBy(f, t, ws)
  BY <1>1, AgainstRuns
<1>3. PICK g : AgainstBy(g, t, vs)
  BY <1>1, AgainstRuns
<1>4. PICK R : R = InRange(ws, t.start, t.end)
  OBVIOUS
<1>5. InRange(vs, t.start, t.end) = R
  BY <1>1, <1>4, SameRange
<1>6. PICK n : n = Len(ws)
  OBVIOUS
<1> DEFINE P == {k \in 0 .. n : f[k] = g[k]}
<1>7. n \in Nat /\ 0 \in P
  BY <1>1, <1>2, <1>3, <1>6 DEF AgainstBy
<1>8. ASSUME NEW k \in 1 .. n, k - 1 \in P PROVE k \in P
  <2>1. k \in 1 .. Len(ws) /\ k \in 1 .. Len(vs) /\ k \in 0 .. n /\ f[k - 1] = g[k - 1]
    BY <1>1, <1>6, <1>8
  <2>2. f[k] = IF k \in R THEN Agg(f[k - 1], ws, k) ELSE f[k - 1]
    BY <1>2, <1>4, <2>1 DEF AgainstBy
  <2>3. g[k] = IF k \in R THEN Agg(g[k - 1], vs, k) ELSE g[k - 1]
    BY <1>3, <1>5, <2>1 DEF AgainstBy
  <2>4. Agg(g[k - 1], vs, k) = Agg(g[k - 1], ws, k)
    BY <2>1, SameSwing
  <2> QED
    BY <2>1, <2>2, <2>3, <2>4
<1>9. \A k \in 0 .. n : k \in P
  <2> HIDE DEF P
  <2> QED
    BY <1>7, <1>8, Reaches
<1>10. f[n] = g[n]
  BY <1>7, <1>9
<1>11. n + 1 \in 1 .. Len(vs) /\ n + 1 \notin R /\ (n + 1) - 1 = n
  BY <1>1, <1>4, <1>6 DEF InRange
<1>12. g[n + 1] = g[n]
  BY <1>3, <1>5, <1>11 DEF AgainstBy
<1> QED
  BY <1>1, <1>2, <1>3, <1>6, <1>10, <1>12 DEF AgainstBy

\* The pullback against a trend that ended before.
LEMMA SamePullback ==
    ASSUME NEW vs, NEW ws, Further(vs, ws), NEW t \in TrendRow, t.end <= Len(ws),
           NEW lim \in 1 .. Len(ws), lim <= t.end
    PROVE  PullbackFrom(t, vs, lim) = PullbackFrom(t, ws, lim)
<1>1. /\ ws \in Seq(SwingRow) /\ vs \in Seq(SwingRow) /\ t.end \in Int
      /\ Len(ws) \in Nat /\ Len(vs) = Len(ws) + 1 /\ vs[lim] = ws[lim]
  BY DEF Further, TrendRow
<1>2. PICK f : PullbackBy(f, t, ws, lim)
  BY <1>1, PullbackRuns
<1>3. lim \in 1 .. Len(vs) /\ t.end <= Len(vs)
  BY <1>1
<1>4. PICK g : PullbackBy(g, t, vs, lim)
  BY <1>1, <1>3, PullbackRuns
<1>5. PICK R : R = InRange(ws, lim, t.end)
  OBVIOUS
<1>6. InRange(vs, lim, t.end) = R
  BY <1>1, <1>5, SameRange
<1>7. PICK n : n = Len(ws)
  OBVIOUS
<1> DEFINE P == {k \in 0 .. n : f[k] = g[k]}
<1>8. n \in Nat /\ 0 \in P
  BY <1>1, <1>2, <1>4, <1>7 DEF PullbackBy
<1>9. ASSUME NEW k \in 1 .. n, k - 1 \in P PROVE k \in P
  <2>1. k \in 1 .. Len(ws) /\ k \in 1 .. Len(vs) /\ k \in 0 .. n /\ f[k - 1] = g[k - 1]
    BY <1>1, <1>7, <1>9
  <2>2. f[k] = IF k \in R THEN Updated(Agg(f[k - 1], ws, k), ws, k) ELSE f[k - 1]
    BY <1>2, <1>5, <2>1 DEF PullbackBy
  <2>3. g[k] = IF k \in R THEN Updated(Agg(g[k - 1], vs, k), vs, k) ELSE g[k - 1]
    BY <1>4, <1>6, <2>1 DEF PullbackBy
  <2>4. Updated(Agg(g[k - 1], vs, k), vs, k) = Updated(Agg(g[k - 1], ws, k), ws, k)
    BY <2>1, SameSwing
  <2> QED
    BY <2>1, <2>2, <2>3, <2>4
<1>10. \A k \in 0 .. n : k \in P
  <2> HIDE DEF P
  <2> QED
    BY <1>8, <1>9, Reaches
<1>11. f[n] = g[n]
  BY <1>8, <1>10
<1>12. n + 1 \in 1 .. Len(vs) /\ n + 1 \notin R /\ (n + 1) - 1 = n
  BY <1>1, <1>5, <1>7 DEF InRange
<1>13. g[n + 1] = g[n]
  BY <1>4, <1>6, <1>12 DEF PullbackBy
<1> QED
  BY <1>1, <1>2, <1>4, <1>7, <1>11, <1>13 DEF PullbackBy

\* The limit of any range of swings is one of the swings, or 0.
LEMMA LimitFound ==
    ASSUME NEW ws \in Seq(SwingRow), NEW a, NEW b, NEW d, NEW limit
    PROVE  LimitSwing(ws, a, b, d, limit) \in {0} \cup 1 .. Len(ws)
<1>1. PICK x, R : x = LimitSwing(ws, a, b, d, limit) /\ R = Ranged(ws, a, b, d)
  OBVIOUS
<1>2. x = 0 \/ x \in R
  BY <1>1, LimitIs DEF AtLimit
<1>3. x \in R => x \in 1 .. Len(ws)
  BY <1>1 DEF Ranged, InRange
<1> QED
  BY <1>1, <1>2, <1>3

\* So is the pullback that a gap splits from a sequence.
LEMMA SameSplit ==
    ASSUME NEW vs, NEW ws, Further(vs, ws), NEW q, NEW k \in 1 .. Len(ws),
           Going(q, ws, k), q.trend.start <= k
    PROVE  Split(q, vs) = Split(q, ws)
<1>1. PICK t : t = q.trend
  OBVIOUS
<1>2. ws \in Seq(SwingRow) /\ t \in TrendRow /\ t.end \in Int /\ t.end <= Len(ws)
  BY <1>1 DEF Further, Going, SeqRow
<1>3. PICK d, limit : d = Opposite(t.dir) /\ limit = EndLimit(t.dir)
  OBVIOUS
<1>4. PICK lim : lim = LimitSwing(ws, t.start, t.end, d, limit)
  OBVIOUS
<1>5. LimitSwing(vs, t.start, t.end, d, limit) = lim
  <2>1. PICK a, b : a = t.start /\ b = t.end
    OBVIOUS
  <2>2. b \in Int /\ b <= Len(ws)
    BY <1>2, <2>1
  <2>3. LimitSwing(vs, a, b, d, limit) = LimitSwing(ws, a, b, d, limit)
    BY <2>2, SameLimit
  <2> QED
    BY <1>4, <2>1, <2>3
<1>6. CASE ~HasGap(q.sfs)
  BY <1>6 DEF Split
<1>7. CASE HasGap(q.sfs)
  <2>1. lim \in 1 .. Len(ws) /\ lim <= t.end
    BY <1>1, <1>2, <1>3, <1>4, <1>7, GapHasLimit
  <2>2. PullbackFrom(t, vs, lim) = PullbackFrom(t, ws, lim)
    BY <1>2, <2>1, SamePullback
  <2>3. Split(q, vs) = PullbackFrom(t, vs, lim) /\ Split(q, ws) = PullbackFrom(t, ws, lim)
    BY <1>1, <1>3, <1>4, <1>5, <1>7 DEF Split
  <2> QED
    BY <2>2, <2>3
<1> QED
  BY <1>6, <1>7

\* So is the completion of a trend that ended before.
LEMMA SameCompleted ==
    ASSUME NEW vs, NEW ws, Further(vs, ws), NEW s, NEW t \in TrendRow,
           t.start <= t.end, t.end <= Len(ws)
    PROVE  Completed(s, t, vs) = Completed(s, t, ws)
<1>1. ws \in Seq(SwingRow) /\ Len(ws) \in Nat
  BY DEF Further
<1>2. \A r \in TrendRow : r.start \in Nat \ {0} /\ r.end \in Int
  BY DEF TrendRow
<1>3. ASSUME NEW r \in TrendRow, r.end <= Len(ws), NEW limit
      PROVE  \E x : /\ x \in {0} \cup 1 .. Len(ws)
                    /\ x = LimitSwing(ws, r.start, r.end, r.dir, limit)
                    /\ x = LimitSwing(vs, r.start, r.end, r.dir, limit)
  <2>1. PICK a, b, d : a = r.start /\ b = r.end /\ d = r.dir
    OBVIOUS
  <2>2. b \in Int /\ b <= Len(ws)
    BY <1>2, <1>3, <2>1
  <2>3. LimitSwing(vs, a, b, d, limit) = LimitSwing(ws, a, b, d, limit)
    BY <2>2, SameLimit
  <2>4. LimitSwing(ws, a, b, d, limit) \in {0} \cup 1 .. Len(ws)
    BY <1>1, LimitFound
  <2> QED
    BY <2>1, <2>3, <2>4
<1>4. \A x \in 1 .. Len(ws) : \A r : Extended(r, vs, x) = Extended(r, ws, x)
  BY SameSwing
<1>5. ToStartLimit(t, vs) = ToStartLimit(t, ws)
  <2>1. PICK x : /\ x \in {0} \cup 1 .. Len(ws)
                 /\ x = LimitSwing(ws, t.start, t.end, t.dir, StartLimit(t.dir))
                 /\ x = LimitSwing(vs, t.start, t.end, t.dir, StartLimit(t.dir))
    BY <1>3
  <2>2. x # 0 => Extended(t, vs, x) = Extended(t, ws, x)
    BY <1>4, <2>1
  <2> QED
    BY <2>1, <2>2 DEF ToStartLimit
<1>6. PICK u : u = ToStartLimit(t, ws)
  OBVIOUS
<1>7. u \in TrendRow /\ u.end <= Len(ws) /\ u.start <= Len(ws)
  <2>1. SameTrend(u, t) /\ u.end = t.end /\ u.start <= t.end
    BY <1>1, <1>6, ToStartLimitIs
  <2>2. u.start \in Nat /\ t.end \in Int
    BY <1>2, <2>1 DEF SameTrend
  <2> QED
    BY <1>1, <2>1, <2>2 DEF SameTrend
<1>8. ToEndLimit(u, vs) = ToEndLimit(u, ws)
  <2>1. PICK x : /\ x \in {0} \cup 1 .. Len(ws)
                 /\ x = LimitSwing(ws, u.start, u.end, u.dir, EndLimit(u.dir))
                 /\ x = LimitSwing(vs, u.start, u.end, u.dir, EndLimit(u.dir))
    BY <1>3, <1>7
  <2>2. x # 0 => Extended(u, vs, x) = Extended(u, ws, x)
    BY <1>4, <2>1
  <2> QED
    BY <2>1, <2>2 DEF ToEndLimit
<1>9. PICK e, rs : e = u.start - 1 /\ rs = s.rows
  OBVIOUS
<1>10. e \in Int /\ e <= Len(ws)
  BY <1>1, <1>2, <1>7, <1>9
<1>11. PreviousEndsAt(rs, vs, e) = PreviousEndsAt(rs, ws, e)
  <2>1. e >= 1 => e \in 1 .. Len(ws)
    BY <1>1, <1>10
  <2>2. e >= 1 => \A r : Extended(r, vs, e) = Extended(r, ws, e)
    BY <1>4, <2>1
  <2> QED
    BY <2>2 DEF PreviousEndsAt
<1>12. Settle(s, t.start, u, vs) = Settle(s, t.start, u, ws)
  BY <1>8, <1>9, <1>11 DEF Settle
<1> QED
  BY <1>5, <1>6, <1>12 DEF Completed

\* Of a trend that ends before it begins no swings count.
LEMMA AgainstNone ==
    ASSUME NEW t \in TrendRow, NEW ws \in Seq(SwingRow), t.end < t.start
    PROVE  Against(t, ws).sfs = <<>>
<1>1. PICK g : AgainstBy(g, t, ws)
  BY AgainstRuns
<1>2. InRange(ws, t.start, t.end) = {}
  BY DEF InRange, TrendRow
<1>3. PICK n, q : n = Len(ws) /\ q = [trend |-> t, sfs |-> <<>>]
  OBVIOUS
<1> DEFINE P == {k \in 0 .. n : g[k] = q}
<1>4. n \in Nat /\ 0 \in P
  BY <1>1, <1>3 DEF AgainstBy
<1>5. \A k \in 1 .. n : k - 1 \in P => k \in P
  BY <1>1, <1>2, <1>3 DEF AgainstBy
<1>6. \A k \in 0 .. n : k \in P
  <2> HIDE DEF P
  <2> QED
    BY <1>4, <1>5, Reaches
<1>7. g[n] = q
  BY <1>4, <1>6
<1>8. Against(t, ws) = q
  BY <1>1, <1>3, <1>7 DEF AgainstBy
<1> QED
  BY <1>3, <1>8

\* With a further swing the state s is the same, unless the swings came to
\* their end: then the next trend has begun with the further one already.
SameOrAhead(u, s) ==
    IF s.active # NoSeq THEN u = s
    ELSE /\ Len(u.rows) = Len(s.rows) + 1
         /\ \A i \in 1 .. Len(s.rows) : u.rows[i] = s.rows[i]
         /\ u.active # NoSeq /\ u.active.sfs = <<>> /\ u.pullback = NoSeq

\* So is what begins behind completed rows.
LEMMA SameBegun ==
    ASSUME NEW vs, NEW ws, Further(vs, ws), NEW c \in StateRow, c.rows # <<>>,
           NEW d \in Directions, NEW k \in 1 .. Len(ws), c.rows[Len(c.rows)].end <= k
    PROVE  SameOrAhead(Begun(c, d, vs, k), Begun(c, d, ws, k))
<1>1. /\ ws \in Seq(SwingRow) /\ vs \in Seq(SwingRow) /\ Len(ws) \in Nat
      /\ Len(vs) = Len(ws) + 1 /\ \A i \in 1 .. Len(ws) : vs[i] = ws[i]
  BY DEF Further
<1>2. PICK rs, n : rs = c.rows /\ n = Len(c.rows)
  OBVIOUS
<1>3. rs \in Seq(TrendRow) /\ n \in Nat \ {0} /\ rs[n] \in TrendRow /\ c.ids \in Nat
  BY <1>2 DEF StateRow
<1>4. PICK a : a = rs[n].end + 1
  OBVIOUS
<1>5. a \in Nat \ {0} /\ a <= k + 1
  <2>1. rs[n].end \in Nat
    BY <1>3 DEF TrendRow
  <2> QED
    BY <1>2, <1>4, <2>1
<1>6. PICK x, y : x = Begun(c, d, vs, k) /\ y = Begun(c, d, ws, k)
  OBVIOUS
<1>7. k \in 1 .. Len(vs) /\ a \in 1 .. Len(vs) /\ vs[k] = ws[k]
  BY <1>1, <1>5
<1>8. PICK t : t = [id |-> c.ids + 1, dir |-> d, start |-> a, end |-> k,
                    high |-> Max({vs[a].high, vs[k].high}), low |-> Min({vs[a].low, vs[k].low}),
                    done |-> FALSE]
  OBVIOUS
<1>9. t \in TrendRow
  <2>1. vs[a] \in SwingRow /\ vs[k] \in SwingRow
    BY <1>1, <1>7
  <2>2. vs[a].high \in Int /\ vs[k].high \in Int /\ vs[a].low \in Int /\ vs[k].low \in Int
    BY <2>1 DEF SwingRow
  <2>3. Max({vs[a].high, vs[k].high}) \in Int /\ Min({vs[a].low, vs[k].low}) \in Int
    BY <2>2, PairMaxMin
  <2>4. c.ids + 1 \in Nat /\ k \in Nat \ {0}
    BY <1>3
  <2> QED
    BY <1>5, <1>8, <2>3, <2>4 DEF TrendRow
<1>10. t.start = a /\ t.end = k /\ t.id = c.ids + 1 /\ t.dir = d
  BY <1>8
<1>11. x = [rows |-> Append(rs, t), ids |-> t.id, active |-> Against(t, vs), pullback |-> NoSeq]
  <2>1. ~(a > Len(vs))
    BY <1>1, <1>7
  <2> QED
    BY <1>2, <1>4, <1>6, <1>8, <2>1 DEF Begun
<1>12. CASE a <= Len(ws)
  <2>1. vs[a] = ws[a] /\ ~(a > Len(ws))
    BY <1>1, <1>5, <1>12
  <2>2. Against(t, vs) = Against(t, ws)
    <3>1. t.end <= Len(ws)
      BY <1>1, <1>10
    <3> QED
      BY <1>9, <3>1, SameAgainst
  <2>3. t = [id |-> c.ids + 1, dir |-> d, start |-> a, end |-> k,
             high |-> Max({ws[a].high, ws[k].high}), low |-> Min({ws[a].low, ws[k].low}),
             done |-> FALSE]
    BY <1>7, <1>8, <2>1
  <2>4. y = [rows |-> Append(rs, t), ids |-> t.id, active |-> Against(t, ws), pullback |-> NoSeq]
    BY <1>2, <1>4, <1>6, <2>1, <2>3 DEF Begun
  <2>5. x = y
    BY <1>11, <2>2, <2>4
  <2>6. y.active # NoSeq
    <3>1. y.active.trend = t
      BY <1>1, <1>9, <2>4, AgainstIs
    <3> QED
      BY <1>10, <3>1 DEF NoSeq, NoTrend, Directions
  <2> QED
    BY <1>6, <2>5, <2>6 DEF SameOrAhead
<1>13. CASE a > Len(ws)
  <2>1. PICK z : z = [c EXCEPT !.active = NoSeq, !.pullback = NoSeq]
    OBVIOUS
  <2>2. y = z
    BY <1>2, <1>4, <1>6, <1>13, <2>1 DEF Begun
  <2>3. y.rows = rs /\ y.active = NoSeq
    BY <1>2, <2>1, <2>2 DEF StateRow
  <2>4. k < a
    BY <1>1, <1>5, <1>13
  <2>5. PICK q : q = Against(t, vs)
    OBVIOUS
  <2>6. q.sfs = <<>> /\ q.trend = t
    BY <1>1, <1>9, <1>10, <2>4, <2>5, AgainstNone, AgainstIs
  <2>7. q # NoSeq
    BY <1>10, <2>6 DEF NoSeq, NoTrend, Directions
  <2>8. x.rows = Append(rs, t) /\ x.active = q /\ x.pullback = NoSeq
    BY <1>11, <2>5
  <2>9. Len(x.rows) = Len(rs) + 1 /\ \A i \in 1 .. Len(rs) : x.rows[i] = rs[i]
    BY <1>3, <1>9, <2>8
  <2>10. SameOrAhead(x, y)
    BY <2>3, <2>6, <2>7, <2>8, <2>9 DEF SameOrAhead
  <2> QED
    BY <1>6, <2>10
<1> QED
  BY <1>1, <1>5, <1>12, <1>13

\* All rows but the last two are as they were.
SamePast(us, rs) == Len(us) = Len(rs) /\ \A i \in 1 .. Len(rs) - 2 : us[i] = rs[i]

\* Overwriting the last row keeps the past.
LEMMA SamePastWithLast ==
    ASSUME NEW rs \in Seq(TrendRow), rs # <<>>, NEW t \in TrendRow
    PROVE  SamePast(WithLast(rs, t), rs)
<1>1. PICK us : us = WithLast(rs, t)
  OBVIOUS
<1>2. Len(us) = Len(rs) /\ \A i \in 1 .. Len(rs) - 1 : us[i] = rs[i]
  BY <1>1, WithLastIs
<1>3. Len(rs) \in Nat
  OBVIOUS
<1> QED
  BY <1>1, <1>2, <1>3 DEF SamePast

\* So does completing a trend, which moves the end of the one before at most.
LEMMA SamePastCompleted ==
    ASSUME NEW rs \in Seq(TrendRow), rs # <<>>, NEW ws \in Seq(SwingRow),
           NEW t \in TrendRow, t.start <= t.end, t.end <= Len(ws)
    PROVE  SamePast(CompletedRows(rs, t, ws), rs)
<1>1. PICK u, first, us : /\ u = ToStartLimit(t, ws) /\ first = t.start
                          /\ us = CompletedRows(rs, t, ws)
  OBVIOUS
<1>2. u \in TrendRow /\ u.start <= u.end /\ u.end <= Len(ws)
  BY <1>1, ToStartLimitIs DEF SameTrend
<1>3. us = SettledRows(rs, first, u, ws)
  BY <1>1 DEF CompletedRows
<1>4. /\ Len(us) = Len(rs)
      /\ \A i \in 1 .. Len(rs) - 1 :
             us[i] = IF /\ u.start # first /\ i = Len(rs) - 1 /\ u.start - 1 >= 1
                        /\ rs[i].done /\ rs[i].end # u.start - 1
                     THEN Extended(rs[i], ws, u.start - 1) ELSE rs[i]
  BY <1>2, <1>3, SettledRowsAre
<1>5. Len(rs) \in Nat
  OBVIOUS
<1>6. \A i \in 1 .. Len(rs) - 2 : us[i] = rs[i]
  BY <1>4, <1>5
<1> QED
  BY <1>1, <1>4, <1>6 DEF SamePast

\* The completed trend is the last row and does not end later than it did.
LEMMA CompletedRowsEnd ==
    ASSUME NEW rs \in Seq(TrendRow), rs # <<>>, NEW ws \in Seq(SwingRow), NEW k \in 1 .. Len(ws),
           NEW t \in TrendRow, t.start <= t.end, t.end <= k
    PROVE  CompletedRows(rs, t, ws)[Len(rs)].end <= k
<1>1. PICK u, first, us : /\ u = ToStartLimit(t, ws) /\ first = t.start
                          /\ us = CompletedRows(rs, t, ws)
  OBVIOUS
<1>2. t.start \in Nat /\ t.end \in Nat /\ t.end <= Len(ws)
  BY DEF TrendRow
<1>3. u \in TrendRow /\ u.start <= u.end /\ u.end = t.end
  BY <1>1, <1>2, ToStartLimitIs DEF SameTrend
<1>4. us = SettledRows(rs, first, u, ws)
  BY <1>1 DEF CompletedRows
<1>5. us[Len(rs)] = Finished(u, ws)
  BY <1>2, <1>3, <1>4, SettledRowsAre
<1>6. PICK f : f = Finished(u, ws)
  OBVIOUS
<1>7. f \in TrendRow /\ f.end <= t.end
  BY <1>2, <1>3, <1>6, FinishedIs DEF SameTrend
<1>8. f.end \in Nat
  BY <1>7 DEF TrendRow
<1> QED
  BY <1>1, <1>2, <1>5, <1>6, <1>7, <1>8

\* Completing a trend, as the state sees it.
LEMMA CompletedPast ==
    ASSUME NEW s \in StateRow, s.rows # <<>>, NEW ws \in Seq(SwingRow),
           NEW t \in TrendRow, t.start <= t.end, t.end <= Len(ws),
           NEW c, c = Completed(s, t, ws)
    PROVE  /\ c \in StateRow /\ c.rows # <<>> /\ SamePast(c.rows, s.rows)
           /\ \A k \in Nat : t.end <= k => c.rows[Len(c.rows)].end <= k
<1>1. c \in StateRow /\ c.rows = CompletedRows(s.rows, t, ws)
  BY CompletedIs
<1>2. PICK rs, us : rs = s.rows /\ us = c.rows
  OBVIOUS
<1>3. rs \in Seq(TrendRow) /\ rs # <<>> /\ us \in Seq(TrendRow) /\ us = CompletedRows(rs, t, ws)
  BY <1>1, <1>2 DEF StateRow
<1>4. SamePast(us, rs)
  BY <1>3, SamePastCompleted
<1>5. Len(us) = Len(rs) /\ Len(rs) \in Nat \ {0}
  BY <1>3, <1>4 DEF SamePast
<1>6. us # <<>> /\ us[Len(us)] \in TrendRow
  BY <1>3, <1>5
<1>7. PICK m, e : m = t.end /\ e = us[Len(us)].end
  OBVIOUS
<1>8. m \in 1 .. Len(ws) /\ m \in Nat /\ e \in Nat
  BY <1>6, <1>7 DEF TrendRow
<1>9. e <= m
  BY <1>3, <1>5, <1>7, <1>8, CompletedRowsEnd
<1>10. \A k \in Nat : m <= k => e <= k
  BY <1>8, <1>9
<1> QED
  BY <1>1, <1>2, <1>4, <1>6, <1>7, <1>10

\* So is a step without a pullback.
LEMMA SameTrendStep ==
    ASSUME NEW vs, NEW ws, Further(vs, ws), NEW k \in 1 .. Len(ws),
           NEW s, Active(s, ws, k), s.pullback = NoSeq
    PROVE  SameOrAhead(TrendStep(s, vs, k), TrendStep(s, ws, k))
<1>1. PICK t, d : t = s.active.trend /\ d = Opposite(t.dir)
  OBVIOUS
<1>2. /\ s \in StateRow /\ s.active # NoSeq /\ Going(s.active, ws, k) /\ t.start <= k
      /\ RowsTo(s.rows, k, t.start)
  BY <1>1 DEF Active
<1>3. /\ s.active \in SeqRow /\ t \in TrendRow /\ t.end = k /\ t.start \in Nat /\ d \in Directions
      /\ ws \in Seq(SwingRow) /\ Len(ws) \in Nat
  BY <1>1, <1>2 DEF Going, SeqRow, TrendRow, Directions, Opposite, Further
<1>4. CASE SfFractal(s.active.sfs) = "none"
  <2>1. TrendStep(s, ws, k) = s /\ TrendStep(s, vs, k) = s
    BY <1>4 DEF TrendStep
  <2> QED
    BY <1>2, <2>1 DEF SameOrAhead
<1>5. CASE SfFractal(s.active.sfs) # "none" /\ HasGap(s.active.sfs)
  <2>1. PICK p : p = Split(s.active, ws) /\ p = Split(s.active, vs)
    BY <1>1, <1>2, SameSplit
  <2>2. TrendStep(s, ws, k) = [s EXCEPT !.pullback = p] /\ TrendStep(s, vs, k) = [s EXCEPT !.pullback = p]
    BY <1>5, <2>1 DEF TrendStep
  <2>3. [s EXCEPT !.pullback = p].active # NoSeq
    BY <1>2 DEF StateRow
  <2> QED
    BY <2>2, <2>3 DEF SameOrAhead
<1>6. CASE SfFractal(s.active.sfs) # "none" /\ ~HasGap(s.active.sfs)
  <2>1. s.rows # <<>> /\ t.start <= t.end /\ t.end <= Len(ws) /\ t.end <= k
    BY <1>2, <1>3 DEF RowsTo
  <2>2. PICK c : c = Completed(s, t, ws) /\ c = Completed(s, t, vs)
    BY <1>3, <2>1, SameCompleted
  <2>3. /\ TrendStep(s, ws, k) = Begun(c, d, ws, k)
        /\ TrendStep(s, vs, k) = Begun(c, d, vs, k)
    BY <1>1, <1>6, <2>2 DEF TrendStep
  <2>4. c = Completed(s, t, ws)
    BY <2>2
  <2>5. c \in StateRow /\ c.rows # <<>> /\ c.rows[Len(c.rows)].end <= k
    BY <1>2, <1>3, <2>1, <2>4, CompletedPast
  <2> QED
    BY <1>3, <2>3, <2>5, SameBegun
<1> QED
  BY <1>4, <1>5, <1>6

\* So is a step with the pullback p.
LEMMA SamePullbackStep ==
    ASSUME NEW vs, NEW ws, Further(vs, ws), NEW k \in 1 .. Len(ws), NEW s, State(s, ws, k - 1),
           NEW p \in SeqRow, p # NoSeq, PullbackIn(p, s.active.trend, ws, k),
           s.active.trend.start <= k - 1
    PROVE  SameOrAhead(PullbackStep(s, p, vs, k), PullbackStep(s, p, ws, k))
<1>1. PICK t, c : t = s.active.trend /\ c = Continue(s, ws, k)
  OBVIOUS
<1>2. ws \in Seq(SwingRow) /\ Len(ws) \in Nat /\ vs[k] = ws[k]
  BY DEF Further
<1>3. /\ s.active # NoSeq /\ s.active \in SeqRow /\ t \in TrendRow
      /\ c \in StateRow /\ c.active # NoSeq
  BY <1>1, <1>2, ContinueActive DEF Active
<1>4. Continue(s, vs, k) = c
  BY <1>1, SameSwing DEF Continue
<1>5. Going(p, ws, k) /\ p.trend.start <= k
  BY DEF PullbackIn
<1>6. \A x : [c EXCEPT !.pullback = x].active # NoSeq
  BY <1>3 DEF StateRow
<1>7. CASE NewLimit(t, ws[k])
  <2>1. /\ PullbackStep(s, p, ws, k) = [c EXCEPT !.pullback = NoSeq]
        /\ PullbackStep(s, p, vs, k) = [c EXCEPT !.pullback = NoSeq]
    BY <1>1, <1>2, <1>4, <1>7 DEF PullbackStep
  <2> QED
    BY <1>6, <2>1 DEF SameOrAhead
<1>8. CASE ~NewLimit(t, ws[k]) /\ SfFractal(p.sfs) = "none"
  <2>1. /\ PullbackStep(s, p, ws, k) = [c EXCEPT !.pullback = p]
        /\ PullbackStep(s, p, vs, k) = [c EXCEPT !.pullback = p]
    BY <1>1, <1>2, <1>4, <1>8 DEF PullbackStep
  <2> QED
    BY <1>6, <2>1 DEF SameOrAhead
<1>9. CASE ~NewLimit(t, ws[k]) /\ SfFractal(p.sfs) # "none" /\ ~Qualifies(p)
  <2>1. PICK q : q = Updated(Agg(p, ws, k), ws, k) /\ q = Updated(Agg(p, vs, k), vs, k)
    BY SameSwing
  <2>2. /\ PullbackStep(s, p, ws, k) = [c EXCEPT !.pullback = q]
        /\ PullbackStep(s, p, vs, k) = [c EXCEPT !.pullback = q]
    BY <1>1, <1>2, <1>4, <1>9, <2>1 DEF PullbackStep
  <2> QED
    BY <1>6, <2>2 DEF SameOrAhead
<1>10. PICK rs : rs = s.rows
  OBVIOUS
<1>11. /\ s \in StateRow /\ rs \in Seq(TrendRow) /\ rs # <<>>
       /\ t.start <= t.end /\ t.end <= k /\ t.end <= Len(ws)
  <2>1. s \in StateRow /\ Going(s.active, ws, k - 1) /\ rs \in Seq(TrendRow) /\ rs # <<>>
    BY <1>3, <1>10 DEF State, RowsTo
  <2>2. t.end = k - 1 /\ t.start \in Nat
    BY <1>1, <1>3, <2>1 DEF Going, TrendRow
  <2> QED
    BY <1>1, <1>2, <2>1, <2>2
<1>12. PICK e : e = Completed(s, t, ws) /\ e = Completed(s, t, vs)
  BY <1>3, <1>11, SameCompleted
<1>13. e = Completed(s, t, ws)
  BY <1>12
<1>14. e \in StateRow /\ e.rows # <<>>
  BY <1>2, <1>3, <1>10, <1>11, <1>13, CompletedPast
<1>15. CASE ~NewLimit(t, ws[k]) /\ SfFractal(p.sfs) # "none" /\ Qualifies(p) /\ HasGap(p.sfs)
  <2>1. PICK q : q = Split(p, ws) /\ q = Split(p, vs)
    BY <1>5, SameSplit
  <2>2. PICK f : f = ShowActive([e EXCEPT !.active = p, !.pullback = q])
    OBVIOUS
  <2>3. PullbackStep(s, p, ws, k) = f /\ PullbackStep(s, p, vs, k) = f
    BY <1>1, <1>2, <1>12, <1>15, <2>1, <2>2 DEF PullbackStep
  <2>4. f.active = p
    BY <1>14, <2>2 DEF ShowActive, StateRow
  <2> QED
    BY <2>3, <2>4 DEF SameOrAhead
<1>16. CASE ~NewLimit(t, ws[k]) /\ SfFractal(p.sfs) # "none" /\ Qualifies(p) /\ ~HasGap(p.sfs)
  <2>1. PICK u, d : u = p.trend /\ d = Opposite(t.dir)
    OBVIOUS
  <2>2. u \in TrendRow /\ u.start <= u.end /\ u.end <= k /\ u.end <= Len(ws)
    BY <1>2, <1>5, <2>1 DEF Going, SeqRow
  <2>3. PICK f : f = Completed(e, u, ws) /\ f = Completed(e, u, vs)
    BY <2>2, SameCompleted
  <2>4. /\ PullbackStep(s, p, ws, k) = Begun(f, d, ws, k)
        /\ PullbackStep(s, p, vs, k) = Begun(f, d, vs, k)
    BY <1>1, <1>2, <1>12, <1>16, <2>1, <2>3 DEF PullbackStep
  <2>5. f = Completed(e, u, ws)
    BY <2>3
  <2>6. f \in StateRow /\ f.rows # <<>> /\ f.rows[Len(f.rows)].end <= k
    BY <1>2, <1>14, <2>2, <2>5, CompletedPast
  <2>7. d \in Directions
    BY <2>1 DEF Directions, Opposite
  <2> QED
    BY <2>4, <2>6, <2>7, SameBegun
<1> QED
  BY <1>7, <1>8, <1>9, <1>15, <1>16

\* So is any step.
LEMMA SameBuildStep ==
    ASSUME NEW vs, NEW ws, Further(vs, ws), NEW k \in 1 .. Len(ws), NEW s, State(s, ws, k - 1)
    PROVE  SameOrAhead(BuildStep(s, vs, k), BuildStep(s, ws, k))
<1>1. ws \in Seq(SwingRow)
  BY DEF Further
<1>2. CASE s.pullback = NoSeq
  <2>1. PICK c : c = Continue(s, ws, k) /\ c = Continue(s, vs, k)
    BY SameSwing DEF Continue
  <2>2. Active(c, ws, k) /\ c.pullback = NoSeq
    BY <1>1, <1>2, <2>1, ContinueActive
  <2>3. SameOrAhead(TrendStep(c, vs, k), TrendStep(c, ws, k))
    BY <2>2, SameTrendStep
  <2> QED
    BY <1>2, <2>1, <2>3 DEF BuildStep
<1>3. CASE s.pullback # NoSeq
  <2>1. PICK p : p = Agg(Updated(s.pullback, ws, k), ws, k) /\ p = Agg(Updated(s.pullback, vs, k), vs, k)
    BY SameSwing
  <2>2. /\ p \in SeqRow /\ p # NoSeq /\ PullbackIn(p, s.active.trend, ws, k)
        /\ s.active.trend.start <= k - 1
    BY <1>1, <1>3, <2>1, PullbackGoes
  <2>3. SameOrAhead(PullbackStep(s, p, vs, k), PullbackStep(s, p, ws, k))
    BY <2>2, SamePullbackStep
  <2> QED
    BY <1>3, <2>1, <2>3 DEF BuildStep
<1> QED
  BY <1>2, <1>3

\* Rows that have become at most one more, all but the last two as they were.
MoreRows(us, rs) ==
    /\ Len(us) \in Len(rs) .. Len(rs) + 1
    /\ \A i \in 1 .. Len(rs) - 2 : us[i] = rs[i]

\* What keeps the past after what keeps the past.
LEMMA SamePastThrough ==
    ASSUME NEW rs \in Seq(TrendRow), NEW qs, NEW us, SamePast(us, qs), SamePast(qs, rs)
    PROVE  SamePast(us, rs) /\ MoreRows(us, rs)
<1>1. Len(rs) \in Nat
  OBVIOUS
<1>2. SamePast(us, rs)
  BY DEF SamePast
<1> QED
  BY <1>1, <1>2 DEF SamePast, MoreRows

\* A trend that begins is one more row.
LEMMA BegunKeepsPast ==
    ASSUME NEW s \in StateRow, s.rows # <<>>, NEW ws \in Seq(SwingRow), NEW k \in 1 .. Len(ws),
           NEW d \in Directions, NEW rs \in Seq(TrendRow), SamePast(s.rows, rs)
    PROVE  MoreRows(Begun(s, d, ws, k).rows, rs)
<1>1. PICK n, qs, us : n = Len(rs) /\ qs = s.rows /\ us = Begun(s, d, ws, k).rows
  OBVIOUS
<1>2. n \in Nat /\ Len(qs) = n /\ \A i \in 1 .. n - 2 : qs[i] = rs[i]
  BY <1>1 DEF SamePast
<1>3. us = qs \/ (Len(us) = n + 1 /\ \A i \in 1 .. n : us[i] = qs[i])
  BY <1>1, <1>2, BegunRows
<1>4. Len(us) \in n .. n + 1 /\ \A i \in 1 .. n - 2 : us[i] = qs[i]
  <2>1. \A i \in 1 .. n - 2 : i \in 1 .. n
    BY <1>2
  <2> QED
    BY <1>2, <1>3, <2>1
<1> QED
  BY <1>1, <1>2, <1>4 DEF MoreRows

\* A step without a pullback keeps the past.
LEMMA TrendStepKeepsPast ==
    ASSUME NEW s, NEW ws \in Seq(SwingRow), NEW k \in 1 .. Len(ws), Active(s, ws, k),
           NEW rs \in Seq(TrendRow), SamePast(s.rows, rs)
    PROVE  MoreRows(TrendStep(s, ws, k).rows, rs)
<1>1. PICK t, d : t = s.active.trend /\ d = Opposite(t.dir)
  OBVIOUS
<1>2. /\ s \in StateRow /\ s.active \in SeqRow /\ t.end = k /\ t.start <= k
      /\ s.rows # <<>> /\ s.rows \in Seq(TrendRow)
  BY <1>1 DEF Active, Going, RowsTo
<1>3. t \in TrendRow /\ t.end <= Len(ws) /\ t.start <= t.end
  BY <1>1, <1>2 DEF SeqRow
<1>4. MoreRows(s.rows, rs)
  <2>1. SamePast(rs, rs)
    BY DEF SamePast
  <2> QED
    BY <2>1, SamePastThrough
<1>5. CASE SfFractal(s.active.sfs) = "none"
  BY <1>4, <1>5 DEF TrendStep
<1>6. CASE SfFractal(s.active.sfs) # "none" /\ HasGap(s.active.sfs)
  <2>1. PICK p, c : p = Split(s.active, ws) /\ c = [s EXCEPT !.pullback = p]
    OBVIOUS
  <2>2. TrendStep(s, ws, k) = c /\ c.rows = s.rows
    BY <1>2, <1>6, <2>1 DEF TrendStep, StateRow
  <2> QED
    BY <1>4, <2>2
<1>7. CASE SfFractal(s.active.sfs) # "none" /\ ~HasGap(s.active.sfs)
  <2>1. PICK c : c = Completed(s, t, ws)
    OBVIOUS
  <2>2. TrendStep(s, ws, k) = Begun(c, d, ws, k)
    BY <1>1, <1>7, <2>1 DEF TrendStep
  <2>3. c \in StateRow /\ c.rows # <<>> /\ SamePast(c.rows, s.rows)
    BY <1>2, <1>3, <2>1, CompletedPast
  <2>4. SamePast(c.rows, rs)
    BY <2>3, SamePastThrough
  <2>5. d \in Directions
    BY <1>1 DEF Directions, Opposite
  <2> QED
    BY <2>2, <2>3, <2>4, <2>5, BegunKeepsPast
<1> QED
  BY <1>5, <1>6, <1>7

\* So does the continuation of the active trend.
LEMMA ContinueKeepsPast ==
    ASSUME NEW s, NEW ws \in Seq(SwingRow), NEW k \in 1 .. Len(ws), State(s, ws, k - 1)
    PROVE  SamePast(Continue(s, ws, k).rows, s.rows)
<1>1. s \in StateRow /\ s.rows # <<>> /\ s.rows \in Seq(TrendRow)
  BY DEF State, RowsTo
<1>2. s.active # NoSeq /\ s.active \in SeqRow /\ s.active.trend \in TrendRow /\ Going(s.active, ws, k - 1)
  BY ContinueActive DEF State
<1>3. PICK t : t = Extended(s.active.trend, ws, k)
  OBVIOUS
<1>4. t \in TrendRow
  BY <1>2, <1>3, ExtendedIs DEF SameTrend
<1>5. Continue(s, ws, k).rows = WithLast(s.rows, t)
  BY <1>1, <1>2, <1>3, ContinueIs
<1> QED
  BY <1>1, <1>4, <1>5, SamePastWithLast

\* And a step with the pullback p.
LEMMA PullbackStepKeepsPast ==
    ASSUME NEW s, NEW ws \in Seq(SwingRow), NEW k \in 1 .. Len(ws), State(s, ws, k - 1),
           NEW p \in SeqRow, p # NoSeq, PullbackIn(p, s.active.trend, ws, k),
           s.active.trend.start <= k - 1
    PROVE  MoreRows(PullbackStep(s, p, ws, k).rows, s.rows)
<1>1. PICK t, c, rs : t = s.active.trend /\ c = Continue(s, ws, k) /\ rs = s.rows
  OBVIOUS
<1>2. /\ s.active # NoSeq /\ s.active \in SeqRow /\ t \in TrendRow /\ c \in StateRow
      /\ SamePast(c.rows, rs)
  BY <1>1, ContinueActive, ContinueKeepsPast DEF Active
<1>3. s \in StateRow /\ rs \in Seq(TrendRow) /\ rs # <<>> /\ SamePast(rs, rs)
  BY <1>1 DEF State, RowsTo, SamePast
<1>4. MoreRows(c.rows, rs)
  BY <1>2, <1>3, SamePastThrough
<1>5. \A x : [c EXCEPT !.pullback = x].rows = c.rows
  BY <1>2 DEF StateRow
<1>6. CASE NewLimit(t, ws[k]) \/ SfFractal(p.sfs) = "none" \/ ~Qualifies(p)
  <2>1. \E x : PullbackStep(s, p, ws, k) = [c EXCEPT !.pullback = x]
    BY <1>1, <1>6 DEF PullbackStep
  <2> QED
    BY <1>1, <1>4, <1>5, <2>1
<1>7. PICK e : e = Completed(s, t, ws)
  OBVIOUS
<1>8. e \in StateRow /\ e.rows # <<>> /\ SamePast(e.rows, rs)
  <2>1. s.active # NoSeq /\ Going(s.active, ws, k - 1)
    BY <1>2 DEF State
  <2>2. t.end = k - 1 /\ t.start \in Nat
    BY <1>1, <1>2, <2>1 DEF Going, TrendRow
  <2>3. t.start <= t.end /\ t.end <= Len(ws)
    BY <1>1, <2>2
  <2> QED
    BY <1>1, <1>2, <1>3, <1>7, <2>3, CompletedPast
<1>9. p.trend \in TrendRow /\ p.trend.end = k /\ p.trend.start <= k
  BY DEF PullbackIn, Going, SeqRow
<1>10. CASE ~NewLimit(t, ws[k]) /\ SfFractal(p.sfs) # "none" /\ Qualifies(p) /\ HasGap(p.sfs)
  <2>1. PICK q, f, us : /\ q = Split(p, ws) /\ f = [e EXCEPT !.active = p, !.pullback = q]
                        /\ us = WithLast(e.rows, p.trend)
    OBVIOUS
  <2>2. f.rows = e.rows /\ f.active = p
    BY <1>8, <2>1 DEF StateRow
  <2>3. PullbackStep(s, p, ws, k) = ShowActive(f)
    BY <1>1, <1>7, <1>10, <2>1 DEF PullbackStep
  <2>4. ShowActive(f).rows = us
    BY <1>8, <2>1, <2>2 DEF ShowActive, StateRow
  <2>5. e.rows \in Seq(TrendRow)
    BY <1>8 DEF StateRow
  <2>6. SamePast(us, e.rows)
    BY <1>8, <1>9, <2>1, <2>5, SamePastWithLast
  <2> QED
    BY <1>1, <1>3, <1>8, <2>3, <2>4, <2>6, SamePastThrough
<1>11. CASE ~NewLimit(t, ws[k]) /\ SfFractal(p.sfs) # "none" /\ Qualifies(p) /\ ~HasGap(p.sfs)
  <2>1. PICK f, d, u : f = Completed(e, u, ws) /\ d = Opposite(t.dir) /\ u = p.trend
    OBVIOUS
  <2>2. PullbackStep(s, p, ws, k) = Begun(f, d, ws, k)
    BY <1>1, <1>7, <1>11, <2>1 DEF PullbackStep
  <2>3. u \in TrendRow /\ u.start <= u.end /\ u.end <= Len(ws)
    BY <1>9, <2>1
  <2>4. f \in StateRow /\ f.rows # <<>> /\ SamePast(f.rows, e.rows)
    BY <1>8, <2>1, <2>3, CompletedPast
  <2>5. SamePast(f.rows, rs)
    BY <1>3, <1>8, <2>4, SamePastThrough
  <2>6. d \in Directions
    BY <2>1 DEF Directions, Opposite
  <2> QED
    BY <1>1, <1>3, <2>2, <2>4, <2>5, <2>6, BegunKeepsPast
<1> QED
  BY <1>6, <1>10, <1>11

\* And so any step.
LEMMA BuildStepKeepsPast ==
    ASSUME NEW s, NEW ws \in Seq(SwingRow), NEW k \in 1 .. Len(ws), State(s, ws, k - 1)
    PROVE  MoreRows(BuildStep(s, ws, k).rows, s.rows)
<1>1. CASE s.pullback = NoSeq
  <2>1. PICK c, rs : c = Continue(s, ws, k) /\ rs = s.rows
    OBVIOUS
  <2>2. Active(c, ws, k) /\ SamePast(c.rows, rs)
    BY <2>1, ContinueActive, ContinueKeepsPast
  <2>3. rs \in Seq(TrendRow)
    BY <2>1 DEF State, RowsTo
  <2>4. MoreRows(TrendStep(c, ws, k).rows, rs)
    BY <2>2, <2>3, TrendStepKeepsPast
  <2> QED
    BY <1>1, <2>1, <2>4 DEF BuildStep
<1>2. CASE s.pullback # NoSeq
  <2>1. PICK p : p = Agg(Updated(s.pullback, ws, k), ws, k)
    OBVIOUS
  <2>2. /\ p \in SeqRow /\ p # NoSeq /\ PullbackIn(p, s.active.trend, ws, k)
        /\ s.active.trend.start <= k - 1
    BY <1>2, <2>1, PullbackGoes
  <2>3. MoreRows(PullbackStep(s, p, ws, k).rows, s.rows)
    BY <2>2, PullbackStepKeepsPast
  <2> QED
    BY <1>2, <2>1, <2>3 DEF BuildStep
<1> QED
  BY <1>1, <1>2

\* No range absorbs another when there is none.
LEMMA JoinedNone ==
    ASSUME NEW range
    PROVE  Len(Joined(<<>>, range)) = 1
<1> DEFINE n == Len(<<>>)
           T == {i \in 0 .. n : i < n => /\ ~Covers(<<>>[n - i], range[i])
                                         /\ ~Covers(range[i], <<>>[n - i])}
           j == Min(T)
<1>1. n = 0
  OBVIOUS
<1>2. j = 0
  <2>1. 0 \in T /\ T \in SUBSET (0 .. 0) /\ T \in SUBSET Nat
    BY <1>1
  <2> HIDE DEF T
  <2>2. j \in T
    BY <2>1, MinNat
  <2>3. j \in 0 .. 0
    BY <2>1, <2>2
  <2> QED
    BY <2>3
<1>3. Joined(<<>>, range) = Append(SubSeq(<<>>, 1, n - j), range[j])
  BY DEF Joined
<1> HIDE DEF n, T, j
<1>4. PICK x : x = range[j]
  OBVIOUS
<1>5. SubSeq(<<>>, 1, n - j) = <<>>
  BY <1>1, <1>2
<1>6. <<>> \in Seq({x}) /\ x \in {x}
  OBVIOUS
<1>7. Len(Append(<<>>, x)) = Len(<<>>) + 1
  BY <1>6
<1>8. Joined(<<>>, range) = Append(<<>>, x)
  BY <1>3, <1>4, <1>5
<1> QED
  BY <1>7, <1>8

\* A trend that just began has no fractal with its first swing.
LEMMA FirstSwing ==
    ASSUME NEW q \in SeqRow, q.sfs = <<>>, NEW ws \in Seq(SwingRow), NEW k \in 1 .. Len(ws)
    PROVE  SfFractal(Agg(q, ws, k).sfs) = "none"
<1>1. PICK x : x = Joined(<<>>, Absorbing(q.trend.dir, <<>>, ws[k]))
  OBVIOUS
<1>2. Len(x) = 1 /\ Len(<<>>) = 0
  BY <1>1, JoinedNone
<1>3. Agg(q, ws, k).sfs = <<>> \/ Agg(q, ws, k).sfs = x
  BY <1>1 DEF Agg, SeqRow
<1>4. SfFractal(x) = "none" /\ SfFractal(<<>>) = "none"
  BY <1>2 DEF SfFractal
<1> QED
  BY <1>3, <1>4

\* Only the last row changes.
SameButLast(us, rs) == Len(us) = Len(rs) /\ \A i \in 1 .. Len(rs) - 1 : us[i] = rs[i]

\* A trend that began ahead of the swings goes on when they catch up with it.
LEMMA AheadStep ==
    ASSUME NEW u, NEW ws \in Seq(SwingRow), NEW k \in 1 .. Len(ws), State(u, ws, k - 1),
           u.active.sfs = <<>>, u.pullback = NoSeq, NEW us, us = BuildStep(u, ws, k).rows
    PROVE  SameButLast(us, u.rows)
<1>1. PICK c, q : c = Continue(u, ws, k) /\ q = Updated(u.active, ws, k)
  OBVIOUS
<1>2. /\ u \in StateRow /\ u.rows # <<>> /\ u.rows \in Seq(TrendRow)
      /\ u.active # NoSeq /\ u.active \in SeqRow /\ u.active.trend \in TrendRow
  BY ContinueActive DEF State, RowsTo
<1>3. Going(u.active, ws, k - 1)
  BY <1>2 DEF State
<1>4. PICK t : t = Extended(u.active.trend, ws, k)
  OBVIOUS
<1>5. c.rows = WithLast(u.rows, t) /\ c.active = Agg(q, ws, k)
  BY <1>1, <1>2, <1>3, <1>4, ContinueIs
<1>6. q \in SeqRow /\ q.sfs = <<>>
  BY <1>1, <1>2, UpdatedIs
<1>7. TrendStep(c, ws, k) = c
  BY <1>5, <1>6, FirstSwing DEF TrendStep
<1>8. BuildStep(u, ws, k) = c
  BY <1>1, <1>7 DEF BuildStep
<1>9. t \in TrendRow
  BY <1>2, <1>4, ExtendedIs DEF SameTrend
<1>10. us = WithLast(u.rows, t)
  BY <1>5, <1>8
<1>11. PICK rs : rs = u.rows
  OBVIOUS
<1>12. rs \in Seq(TrendRow) /\ rs # <<>> /\ us = WithLast(rs, t)
  BY <1>2, <1>10, <1>11
<1>13. Len(us) = Len(rs) /\ \A i \in 1 .. Len(rs) - 1 : us[i] = rs[i]
  <2>1. /\ Len(WithLast(rs, t)) = Len(rs)
        /\ \A i \in 1 .. Len(rs) - 1 : WithLast(rs, t)[i] = rs[i]
    BY <1>9, <1>12, WithLastIs
  <2> QED
    BY <1>12, <2>1
<1>14. SameButLast(us, rs)
  BY <1>13 DEF SameButLast
<1> QED
  BY <1>11, <1>14

\* The step with the further swing.
LEMMA FurtherStep ==
    ASSUME NEW vs, NEW ws, Further(vs, ws), ws # <<>>, NEW s, State(s, ws, Len(ws)),
           NEW u, State(u, vs, Len(ws)), SameOrAhead(u, s)
    PROVE  MoreRows(BuildStep(u, vs, Len(vs)).rows, s.rows)
<1>1. PICK k, n : k = Len(vs) /\ n = Len(s.rows)
  OBVIOUS
<1>2. vs \in Seq(SwingRow) /\ k \in 1 .. Len(vs) /\ k - 1 = Len(ws)
  BY <1>1 DEF Further
<1>3. State(u, vs, k - 1)
  BY <1>2
<1>4. CASE s.active # NoSeq
  <2>1. u = s
    BY <1>4 DEF SameOrAhead
  <2>2. MoreRows(BuildStep(u, vs, k).rows, u.rows)
    BY <1>2, <1>3, BuildStepKeepsPast
  <2> QED
    BY <1>1, <2>1, <2>2
<1>5. CASE s.active = NoSeq
  <2>1. /\ Len(u.rows) = n + 1 /\ \A i \in 1 .. n : u.rows[i] = s.rows[i]
        /\ u.active.sfs = <<>> /\ u.pullback = NoSeq
    BY <1>1, <1>5 DEF SameOrAhead
  <2>2. PICK us : us = BuildStep(u, vs, k).rows
    OBVIOUS
  <2>3. SameButLast(us, u.rows)
    <3>1. /\ vs \in Seq(SwingRow) /\ k \in 1 .. Len(vs) /\ State(u, vs, k - 1)
          /\ u.active.sfs = <<>> /\ u.pullback = NoSeq /\ us = BuildStep(u, vs, k).rows
      BY <1>2, <1>3, <2>1, <2>2
    <3> QED
      BY <3>1, AheadStep
  <2>4. n \in Nat
    <3>1. s.rows \in Seq(TrendRow)
      BY DEF State, RowsTo
    <3> QED
      BY <1>1, <3>1
  <2>5. Len(us) = n + 1 /\ \A i \in 1 .. n : us[i] = s.rows[i]
    BY <2>1, <2>3, <2>4 DEF SameButLast
  <2>6. Len(us) \in n .. n + 1 /\ \A i \in 1 .. n - 2 : us[i] = s.rows[i]
    BY <2>4, <2>5
  <2> QED
    BY <1>1, <2>2, <2>6 DEF MoreRows
<1> QED
  BY <1>4, <1>5

\* The seed is the same.
LEMMA SameSeed ==
    ASSUME NEW vs, NEW ws, Further(vs, ws), NEW k \in 3 .. Len(ws)
    PROVE  Seeded(vs, k) = Seeded(ws, k) /\ (CanSeed(vs, k) <=> CanSeed(ws, k))
<1>1. PICK i, j : i = k - 2 /\ j = k - 1
  OBVIOUS
<1>2. i \in 1 .. Len(ws) /\ j \in 1 .. Len(ws) /\ k \in 1 .. Len(ws)
  BY <1>1 DEF Further
<1>3. vs[i] = ws[i] /\ vs[j] = ws[j] /\ vs[k] = ws[k]
  BY <1>2 DEF Further
<1>4. \A q : Agg(q, vs, j) = Agg(q, ws, j)
  BY <1>2, SameSwing
<1>5. Seeded(vs, k) = Seeded(ws, k)
  BY <1>1, <1>3, <1>4 DEF Seeded
<1>6. {vs[x] : x \in k - 2 .. k} = {ws[x] : x \in k - 2 .. k}
  <2>1. \A x \in k - 2 .. k : vs[x] = ws[x]
    BY <1>2 DEF Further
  <2> QED
    BY <2>1
<1>7. CanSeed(vs, k) <=> CanSeed(ws, k)
  BY <1>1, <1>3, <1>6 DEF CanSeed
<1> QED
  BY <1>5, <1>7

\* All along the rebuild the state is the same, at its end it may be ahead.
LEMMA SameRebuilding ==
    ASSUME NEW vs, NEW ws, Further(vs, ws), NEW e \in 3 .. Len(ws),
           NEW f, Rebuilds(f, vs, e), NEW g, Rebuilds(g, ws, e)
    PROVE  SameOrAhead(f[Len(ws)], g[Len(ws)])
<1>1. PICK n : n = Len(ws)
  OBVIOUS
<1>2. n \in Nat /\ ws \in Seq(SwingRow) /\ e \in 3 .. n /\ Len(vs) = n + 1
  BY <1>1 DEF Further
<1> DEFINE P == {k \in 0 .. n : k < e \/ SameOrAhead(f[k], g[k])}
<1>3. 0 \in P
  BY <1>2
<1>4. ASSUME NEW k \in 1 .. n, k - 1 \in P PROVE k \in P
  <2>1. CASE k < e
    BY <2>1
  <2>2. CASE k = e
    <3>1. f[k] = Seeded(vs, e) /\ g[k] = Seeded(ws, e) /\ State(g[k], ws, k)
      BY <1>1, <1>2, <2>2 DEF Rebuilds
    <3>2. f[k] = g[k]
      BY <3>1, SameSeed
    <3>3. g[k].active # NoSeq
      <4>1. PICK r, s : s = g[k] /\ r = s.rows[Len(s.rows)]
        OBVIOUS
      <4>2. s.active = NoSeq => r.done
        BY <3>1, <4>1 DEF State, Ended
      <4>3. \E t : s.rows = <<t>> /\ ~t.done
        BY <3>1, <4>1 DEF Seeded
      <4>4. ~r.done
        BY <4>1, <4>3
      <4> QED
        BY <4>1, <4>2, <4>4
    <3> QED
      BY <3>2, <3>3 DEF SameOrAhead
  <2>3. CASE k > e
    <3>1. PICK j : j = k - 1
      OBVIOUS
    <3>2. /\ k \in e + 1 .. n /\ k \in e + 1 .. n + 1 /\ j \in e .. n /\ j # n /\ ~(j < e)
          /\ j \in 0 .. n
      BY <1>2, <2>3, <3>1
    <3>3. f[k] = BuildStep(f[j], vs, k) /\ g[k] = BuildStep(g[j], ws, k) /\ State(g[j], ws, j)
      BY <1>1, <1>2, <3>1, <3>2 DEF Rebuilds
    <3>4. g[j].active # NoSeq
      BY <1>1, <3>2, <3>3 DEF State
    <3>5. f[j] = g[j]
      BY <1>4, <3>1, <3>2, <3>4 DEF SameOrAhead
    <3>6. k \in 1 .. Len(ws) /\ State(g[j], ws, k - 1)
      BY <1>1, <3>1, <3>3
    <3>7. SameOrAhead(BuildStep(g[j], vs, k), BuildStep(g[j], ws, k))
      BY <3>6, SameBuildStep
    <3> QED
      BY <3>3, <3>5, <3>7
  <2> QED
    BY <1>2, <2>1, <2>2, <2>3
<1>5. \A k \in 0 .. n : k \in P
  <2> HIDE DEF P
  <2> QED
    BY <1>2, <1>3, <1>4, Reaches
<1>6. n \in P /\ ~(n < e)
  BY <1>2, <1>5
<1> QED
  BY <1>1, <1>6

\* The rows are rebuilt from the first of the seeds S.
FromFirst(ws, S, e) ==
    /\ e \in S /\ \A k \in S : e <= k
    /\ Rebuilds(Rebuilding(ws, e), ws, e)
    /\ Rebuilt(ws) = Rebuilding(ws, e)[Len(ws)].rows

\* What is rebuilt, from the first three swings that can be a seed.
LEMMA RebuiltFrom ==
    ASSUME NEW ws \in Seq(SwingRow), NEW S, S = {k \in 3 .. Len(ws) : CanSeed(ws, k)}
    PROVE  /\ S = {} => Rebuilt(ws) = <<>>
           /\ S # {} => \E e : FromFirst(ws, S, e)
<1>1. S = {} => Rebuilt(ws) = <<>>
  BY DEF Rebuilt
<1>2. ASSUME S # {}
      PROVE  \E e : FromFirst(ws, S, e)
  <2>1. PICK e : e = Min(S)
    OBVIOUS
  <2>2. S \in SUBSET Nat
    OBVIOUS
  <2>3. e \in S /\ \A k \in S : e <= k
    BY <1>2, <2>1, <2>2, MinNat
  <2>4. e \in 3 .. Len(ws)
    BY <2>3
  <2>5. Rebuilds(Rebuilding(ws, e), ws, e)
    BY <2>4, RebuildingIs
  <2>6. Rebuilt(ws) = Rebuilding(ws, e)[Len(ws)].rows
    BY <1>2, <2>1 DEF Rebuilt
  <2>7. FromFirst(ws, S, e)
    BY <2>3, <2>5, <2>6 DEF FromFirst
  <2> QED
    BY <2>7
<1> QED
  BY <1>1, <1>2

\* A further swing leaves the past of the rows rebuilt as it was.
LEMMA RebuiltFurther ==
    ASSUME NEW vs, NEW ws, Further(vs, ws)
    PROVE  MoreRows(Rebuilt(vs), Rebuilt(ws))
<1>1. PICK n : n = Len(ws)
  OBVIOUS
<1>2. /\ vs \in Seq(SwingRow) /\ ws \in Seq(SwingRow) /\ n \in Nat
      /\ Len(vs) = n + 1
  BY <1>1 DEF Further
<1>3. PICK S, T : /\ S = {k \in 3 .. Len(ws) : CanSeed(ws, k)}
                  /\ T = {k \in 3 .. Len(vs) : CanSeed(vs, k)}
  OBVIOUS
<1>4. \A k \in 3 .. n : k \in S <=> k \in T
  <2>1. \A k \in 3 .. n : CanSeed(vs, k) <=> CanSeed(ws, k)
    BY <1>1, SameSeed
  <2>2. \A k \in 3 .. n : k \in 3 .. n + 1
    BY <1>2
  <2> QED
    BY <1>1, <1>2, <1>3, <2>1, <2>2
<1>5. /\ \A k \in S : k \in 3 .. n
      /\ \A k \in T : k \in 3 .. n + 1 /\ (k \in 3 .. n \/ k = n + 1)
  BY <1>1, <1>2, <1>3
<1>6. CASE S = {} /\ T = {}
  <2>1. Rebuilt(ws) = <<>> /\ Rebuilt(vs) = <<>>
    BY <1>2, <1>3, <1>6, RebuiltFrom
  <2> QED
    BY <2>1 DEF MoreRows
<1>7. CASE S = {} /\ T # {}
  <2>1. Rebuilt(ws) = <<>>
    BY <1>2, <1>3, <1>7, RebuiltFrom
  <2>2. PICK e : FromFirst(vs, T, e)
    BY <1>2, <1>3, <1>7, RebuiltFrom
  <2>3. e = n + 1 /\ e \in 0 .. e
    BY <1>2, <1>4, <1>5, <1>7, <2>2 DEF FromFirst
  <2>4. Rebuilt(vs) = Seeded(vs, e).rows
    BY <1>2, <2>2, <2>3 DEF FromFirst, Rebuilds
  <2>5. \E t : Rebuilt(vs) = <<t>>
    BY <2>4 DEF Seeded
  <2>6. Len(Rebuilt(vs)) = 1 /\ Len(Rebuilt(ws)) = 0
    BY <2>1, <2>5
  <2> QED
    BY <2>6 DEF MoreRows
<1>8. CASE S # {}
  <2>1. PICK e : FromFirst(ws, S, e)
    BY <1>2, <1>3, <1>8, RebuiltFrom
  <2>2. e \in 3 .. n /\ e \in S /\ e \in T
    BY <1>4, <1>5, <2>1 DEF FromFirst
  <2>3. T # {}
    BY <2>2
  <2>4. PICK d : FromFirst(vs, T, d)
    BY <1>2, <1>3, <2>3, RebuiltFrom
  <2>5. d = e
    <3>1. d \in T /\ d <= e /\ d \in 3 .. n + 1
      BY <1>5, <2>2, <2>4 DEF FromFirst
    <3>2. d \in 3 .. n
      BY <1>2, <2>2, <3>1
    <3>3. e <= d
      BY <1>4, <2>1, <3>1, <3>2 DEF FromFirst
    <3> QED
      BY <2>2, <3>1, <3>3
  <2>6. PICK f, g : f = Rebuilding(vs, e) /\ g = Rebuilding(ws, e)
    OBVIOUS
  <2>7. /\ Rebuilds(f, vs, e) /\ Rebuilds(g, ws, e)
        /\ Rebuilt(vs) = f[Len(vs)].rows /\ Rebuilt(ws) = g[n].rows
    BY <1>1, <2>1, <2>4, <2>5, <2>6 DEF FromFirst
  <2>8. SameOrAhead(f[n], g[n])
    BY <1>1, <2>2, <2>7, SameRebuilding
  <2>9. State(f[n], vs, n) /\ State(g[n], ws, n)
    <3>1. n \in e .. n /\ n \in e .. n + 1
      BY <1>2, <2>2
    <3> QED
      BY <1>1, <1>2, <2>7, <3>1 DEF Rebuilds
  <2>10. f[n + 1] = BuildStep(f[n], vs, n + 1)
    <3>1. n + 1 \in e + 1 .. n + 1 /\ (n + 1) - 1 = n
      BY <1>2, <2>2
    <3> QED
      BY <1>2, <2>7, <3>1 DEF Rebuilds
  <2>11. ws # <<>>
    BY <1>1, <2>2
  <2>12. MoreRows(BuildStep(f[n], vs, Len(vs)).rows, g[n].rows)
    BY <1>1, <2>8, <2>9, <2>11, FurtherStep
  <2> QED
    BY <1>2, <2>7, <2>10, <2>12
<1> QED
  BY <1>6, <1>7, <1>8

-----------------------------------------------------------------------------
(* The behaviours.                                                         *)

\* The swings alternate, and the rows are those rebuilt from them.
TrendInv == completed \in Seq(SwingRow) /\ Alternating(completed) /\ trends = Rebuilt(completed)

\* Whatever swings are confirmed and withdrawn, they alternate, and the trends are
\* those of a rebuild from all of them.
THEOREM TrendInvariant == TrendSpec => []TrendInv
<1>1. TrendInit => TrendInv
  <2>1. SUFFICES ASSUME TrendInit PROVE TrendInv
    OBVIOUS
  <2>2. completed = <<>> /\ completed \in Seq(SwingRow) /\ trends = <<>>
    BY <2>1 DEF TrendInit
  <2>3. {k \in 3 .. Len(completed) : CanSeed(completed, k)} = {}
    BY <2>2
  <2>4. Alternating(completed)
    BY <2>2 DEF Alternating
  <2> QED
    BY <2>2, <2>3, <2>4 DEF TrendInv, Rebuilt
<1>2. TrendInv /\ [TrendNext]_trendVars => TrendInv'
  <2> SUFFICES ASSUME TrendInv, [TrendNext]_trendVars PROVE TrendInv'
    OBVIOUS
  <2>1. PICK ws, vs : ws = completed /\ vs = completed'
    OBVIOUS
  <2>2. ws \in Seq(SwingRow) /\ Alternating(ws)
    BY <2>1 DEF TrendInv
  <2>3. CASE SwingConfirmed
    <3>1. PICK p \in Prices, q \in Prices :
              /\ p # q
              /\ ws = <<>> \/ Follows(SwingOf(p, q), Last(ws), p)
              /\ RebuildFromSwings(Append(ws, SwingOf(p, q)))
      BY <2>1, <2>3 DEF SwingConfirmed
    <3>2. p \in Int /\ q \in Int
      BY TrendAssumption
    <3>3. PICK w : w = SwingOf(p, q)
      OBVIOUS
    <3>4. w \in SwingRow /\ Alternating(Append(ws, w))
      BY <2>2, <3>1, <3>2, <3>3, AppendAlternates
    <3>5. completed' = Append(ws, w) /\ trends' = Rebuilt(completed')
      BY <3>1, <3>3 DEF RebuildFromSwings
    <3>6. vs \in Seq(SwingRow) /\ Alternating(vs)
      BY <2>1, <2>2, <3>4, <3>5
    <3> QED
      BY <2>1, <3>5, <3>6 DEF TrendInv
  <2>4. CASE SwingResumed
    <3>1. ws # <<>> /\ completed' = Front(ws) /\ trends' = Rebuilt(completed')
      BY <2>1, <2>4 DEF SwingResumed, RebuildFromSwings
    <3>2. vs \in Seq(SwingRow) /\ Alternating(vs)
      BY <2>1, <2>2, <3>1, FrontAlternates
    <3> QED
      BY <2>1, <3>1, <3>2 DEF TrendInv
  <2>5. CASE UNCHANGED trendVars
    BY <2>5 DEF trendVars, TrendInv
  <2> QED
    BY <2>3, <2>4, <2>5 DEF TrendNext
<1> QED
  BY <1>1, <1>2, PTL DEF TrendSpec

\* Trends begin one after the other, none ends before it begins or behind the
\* swings, and only the last, which then goes on to the last swing, may be
\* incomplete: whatever the rebuild splits off, joins and moves the ends of.
THEOREM TrendsOrderedHolds == TrendSpec => []TrendsOrdered
<1>1. TrendInv => TrendsOrdered
  BY RebuiltOrdered DEF TrendInv, TrendsOrdered, OrderedRows
<1> QED
  BY <1>1, TrendInvariant, PTL

\* Unless a pullback took the place of the trend before it, trends alternate,
\* join one another without a gap, and completed ones run between the limits
\* of their own swings, although each completion moves the ends of two rows.
THEOREM TrendsChainHolds == TrendSpec => []TrendsChain
<1>1. TrendInv => TrendsChain
  <2>1. TrendInv => ChainedRows(trends, completed)
    BY RebuiltChained DEF TrendInv
  <2> QED
    BY <2>1 DEF ChainedRows, Named, TrendsChain, TrendIdsPresent
<1> QED
  BY <1>1, TrendInvariant, PTL

\* Although the rebuild reads swings that came after the one it is at, a
\* further swing ends no trend that was there, begins at most one, and leaves
\* all but the last two as they were.
THEOREM PastTrendsSettledHolds == TrendSpec => PastTrendsSettled
<1>1. TrendInv /\ TrendInv' /\ [TrendNext]_trendVars =>
          [Len(completed') > Len(completed) =>
              /\ Len(trends') \in Len(trends) .. Len(trends) + 1
              /\ \A i \in 1 .. Len(trends) - 2 : Unnamed(trends'[i]) = Unnamed(trends[i])]_trendVars
  <2> SUFFICES ASSUME TrendInv, TrendInv', [TrendNext]_trendVars, Len(completed') > Len(completed)
               PROVE  /\ Len(trends') \in Len(trends) .. Len(trends) + 1
                      /\ \A i \in 1 .. Len(trends) - 2 : Unnamed(trends'[i]) = Unnamed(trends[i])
    OBVIOUS
  <2>1. PICK ws, vs : ws = completed /\ vs = completed'
    OBVIOUS
  <2>2. ws \in Seq(SwingRow) /\ vs \in Seq(SwingRow) /\ Len(vs) > Len(ws)
    BY <2>1 DEF TrendInv
  <2>3. CASE SwingConfirmed
    <3>1. \E w : vs = Append(ws, w)
      BY <2>1, <2>3 DEF SwingConfirmed, RebuildFromSwings
    <3>2. PICK w : vs = Append(ws, w)
      BY <3>1
    <3>3. Further(vs, ws)
      BY <2>2, <3>2 DEF Further
    <3>4. MoreRows(Rebuilt(vs), Rebuilt(ws))
      BY <3>3, RebuiltFurther
    <3>5. trends = Rebuilt(ws) /\ trends' = Rebuilt(vs)
      BY <2>1 DEF TrendInv
    <3> QED
      BY <3>4, <3>5 DEF MoreRows
  <2>4. CASE SwingResumed
    <3>1. ws # <<>> /\ vs = Front(ws)
      BY <2>1, <2>4 DEF SwingResumed, RebuildFromSwings
    <3>2. Len(vs) = Len(ws) - 1
      BY <2>2, <3>1 DEF Front
    <3> QED
      BY <2>2, <3>2
  <2>5. CASE UNCHANGED trendVars
    BY <2>1, <2>2, <2>5 DEF trendVars
  <2> QED
    BY <2>3, <2>4, <2>5 DEF TrendNext
<1> QED
  BY <1>1, TrendInvariant, PTL DEF TrendSpec, PastTrendsSettled

-----------------------------------------------------------------------------
(* IdGenerator.                                                            *)


\* Two numbers with a digit below them compare like the numbers.
LEMMA DigitBelow ==
    ASSUME NEW a \in Nat, NEW b \in Nat, NEW K \in Nat, a < b,
           NEW p \in 0 .. K - 1, NEW q \in 0 .. K - 1
    PROVE  a * K + p < b * K + q
<1>1. PICK d \in Nat : b = a + 1 + d
  <2>1. b - a - 1 \in Nat /\ b = a + 1 + (b - a - 1)
    OBVIOUS
  <2> QED
    BY <2>1
<1>2. b * K = a * K + K + d * K
  BY <1>1
<1>3. d * K >= 0 /\ d * K \in Nat /\ a * K \in Nat /\ b * K \in Nat
  OBVIOUS
<1> QED
  BY <1>2, <1>3

\* Ids compare like their timestamps, and within a timestamp like their
\* sequence numbers.
LEMMA IdOrder ==
    ASSUME NEW w \in Workers, NEW t \in Nat, NEW u \in Nat,
           NEW r \in 0 .. SequenceRange - 1, NEW s \in 0 .. SequenceRange - 1,
           t < u \/ (t = u /\ r < s)
    PROVE  Id(t, w, r) < Id(u, w, s)
<1>1. w \in 0 .. WorkerRange - 1 /\ WorkerRange \in Nat /\ SequenceRange \in Nat
  BY GeneratorAssumption
<1>2. t * WorkerRange + w \in Nat /\ u * WorkerRange + w \in Nat
  BY <1>1
<1>3. CASE t < u
  <2>1. t * WorkerRange + w < u * WorkerRange + w
    BY <1>1, <1>3, DigitBelow
  <2> QED
    BY <1>1, <1>2, <2>1, DigitBelow DEF Id
<1>4. CASE t = u /\ r < s
  <2>1. (t * WorkerRange + w) * SequenceRange \in Nat
    BY <1>1, <1>2
  <2> QED
    BY <1>4, <2>1 DEF Id
<1> QED
  BY <1>3, <1>4

\* The worker id can be read off an id.
LEMMA IdWorker ==
    ASSUME NEW v \in Workers, NEW w \in Workers, v # w,
           NEW t \in Nat, NEW u \in Nat,
           NEW r \in 0 .. SequenceRange - 1, NEW s \in 0 .. SequenceRange - 1
    PROVE  Id(t, v, r) # Id(u, w, s)
<1> DEFINE a == t * WorkerRange + v
           b == u * WorkerRange + w
<1>1. /\ v \in 0 .. WorkerRange - 1 /\ w \in 0 .. WorkerRange - 1
      /\ WorkerRange \in Nat /\ SequenceRange \in Nat
  BY GeneratorAssumption
<1>2. a \in Nat /\ b \in Nat
  BY <1>1
<1>3. a # b
  <2>1. CASE t < u
    BY <1>1, <2>1, DigitBelow
  <2>2. CASE u < t
    BY <1>1, <2>2, DigitBelow
  <2>3. CASE t = u
    <3>1. t * WorkerRange \in Nat
      BY <1>1
    <3> QED
      BY <1>1, <2>3, <3>1
  <2> QED
    BY <2>1, <2>2, <2>3
<1>4. Id(t, v, r) = a * SequenceRange + r /\ Id(u, w, s) = b * SequenceRange + s
  BY DEF Id
<1>5. a * SequenceRange \in Nat /\ b * SequenceRange \in Nat
  BY <1>1, <1>2
<1> HIDE DEF a, b
<1>6. CASE a < b
  BY <1>1, <1>2, <1>4, <1>5, <1>6, DigitBelow
<1>7. CASE b < a
  BY <1>1, <1>2, <1>4, <1>5, <1>7, DigitBelow
<1> QED
  BY <1>2, <1>3, <1>6, <1>7

-----------------------------------------------------------------------------
(* The inductive invariant.                                                *)

\* The number of the last id of generator w: a call that waits has set the
\* sequence to 0 already.
LastNumber(w) == IF waiting[w] THEN SequenceRange - 1 ELSE sequence[w]

\* Each id was made from a timestamp and a number up to those of the last.
IdsFormed ==
    \A w \in Workers : \A i \in 1 .. Len(issued[w]) :
        \E t \in Nat, s \in 0 .. SequenceRange - 1 :
            /\ issued[w][i] = Id(t, w, s)
            /\ t < last[w] \/ (t = last[w] /\ s <= LastNumber(w))

\* The numbers of the last timestamp were issued from 0 on without a gap.
NumbersFilled ==
    \A w \in Workers :
        last[w] # Never =>
            \A s \in 0 .. LastNumber(w) : Id(last[w], w, s) \in Range(issued[w])

WaitsLater == \A w \in Workers : waiting[w] => last[w] # Never

GeneratorInv ==
    /\ GeneratorTypeOK
    /\ WaitsLater
    /\ IdsFormed
    /\ IdsIncrease
    /\ NumbersFilled

\* The number after s, as the mask computes it.
LEMMA NextNumber ==
    ASSUME NEW s \in 0 .. SequenceRange - 1
    PROVE  /\ NextSequence(s) \in 0 .. SequenceRange - 1
           /\ NextSequence(s) # 0 => NextSequence(s) = s + 1
           /\ NextSequence(s) = 0 => s = SequenceRange - 1
<1>1. SequenceRange \in Nat \ {0}
  BY GeneratorAssumption
<1>2. CASE s + 1 = SequenceRange
  <2>1. NextSequence(s) = 0
    BY <1>1, <1>2 DEF NextSequence
  <2> QED
    BY <1>1, <1>2, <2>1
<1>3. CASE s + 1 < SequenceRange
  <2>1. NextSequence(s) = s + 1
    BY <1>1, <1>3 DEF NextSequence
  <2> QED
    BY <1>1, <1>3, <2>1
<1> QED
  BY <1>1, <1>2, <1>3

\* What appending does to a sequence of numbers.
LEMMA Appended ==
    ASSUME NEW q \in Seq(Nat), NEW x \in Nat
    PROVE  /\ Append(q, x) \in Seq(Nat)
           /\ Len(Append(q, x)) = Len(q) + 1 /\ Len(q) \in Nat
           /\ \A i \in 1 .. Len(q) : Append(q, x)[i] = q[i]
           /\ Append(q, x)[Len(q) + 1] = x
           /\ Range(q) \subseteq Range(Append(q, x))
           /\ x \in Range(Append(q, x))
<1>1. /\ Append(q, x) \in Seq(Nat)
      /\ Len(Append(q, x)) = Len(q) + 1 /\ Len(q) \in Nat
      /\ \A i \in 1 .. Len(q) : Append(q, x)[i] = q[i]
      /\ Append(q, x)[Len(q) + 1] = x
  OBVIOUS
<1>2. DOMAIN q = 1 .. Len(q) /\ DOMAIN Append(q, x) = 1 .. Len(q) + 1
  BY <1>1
<1> QED
  BY <1>1, <1>2 DEF Range

\* The invariant survives the issue of an id, when its timestamp and number
\* follow those of the last one.
LEMMA IssueKeeps ==
    ASSUME GeneratorInv, NEW w \in Workers, NEW t \in Nat,
           NEW n \in 0 .. SequenceRange - 1,
           \/ last[w] < t /\ n = 0
           \/ last[w] = t /\ n = LastNumber(w) + 1,
           Issue(w, t, n), clock' \in Nat, setBacks' \in 0 .. MaxSetBacks
    PROVE  GeneratorInv'
<1> DEFINE x == Id(t, w, n)
<1>0. SequenceRange \in Nat \ {0} /\ WorkerRange \in Nat \ {0} /\ w \in Nat
  BY GeneratorAssumption
<1>1. x \in Nat
  BY <1>0 DEF Id
<1>2. /\ last \in [Workers -> Nat \cup {Never}]
      /\ sequence \in [Workers -> 0 .. SequenceRange - 1]
      /\ waiting \in [Workers -> BOOLEAN]
      /\ issued \in [Workers -> Seq(Nat)]
  BY DEF GeneratorInv, GeneratorTypeOK
<1>3. /\ last'[w] = t /\ sequence'[w] = n /\ waiting'[w] = FALSE
      /\ issued'[w] = Append(issued[w], x)
      /\ LastNumber(w)' = n
  BY <1>2 DEF Issue, LastNumber
<1>4. ASSUME NEW v \in Workers, v # w
      PROVE  /\ last'[v] = last[v] /\ sequence'[v] = sequence[v]
             /\ waiting'[v] = waiting[v] /\ issued'[v] = issued[v]
             /\ LastNumber(v)' = LastNumber(v)
  BY <1>2, <1>4 DEF Issue, LastNumber
<1>5. LastNumber(w) \in 0 .. SequenceRange - 1
  BY <1>0, <1>2 DEF LastNumber
<1>6. /\ Append(issued[w], x) \in Seq(Nat)
      /\ Len(Append(issued[w], x)) = Len(issued[w]) + 1 /\ Len(issued[w]) \in Nat
      /\ \A i \in 1 .. Len(issued[w]) : Append(issued[w], x)[i] = issued[w][i]
      /\ Append(issued[w], x)[Len(issued[w]) + 1] = x
      /\ Range(issued[w]) \subseteq Range(Append(issued[w], x))
      /\ x \in Range(Append(issued[w], x))
  <2>1. issued[w] \in Seq(Nat)
    BY <1>2
  <2> HIDE DEF x
  <2> QED
    BY <1>1, <2>1, Appended
<1>7. ASSUME NEW i \in 1 .. Len(issued[w])
      PROVE  \E u \in Nat, s \in 0 .. SequenceRange - 1 :
                /\ issued[w][i] = Id(u, w, s)
                /\ u < t \/ (u = t /\ s < n)
  <2>1. PICK u \in Nat, s \in 0 .. SequenceRange - 1 :
          /\ issued[w][i] = Id(u, w, s)
          /\ u < last[w] \/ (u = last[w] /\ s <= LastNumber(w))
    BY DEF GeneratorInv, IdsFormed
  <2>2. last[w] \in Int
    BY <1>2 DEF Never
  <2>3. u < t \/ (u = t /\ s < n)
    BY <1>5, <2>1, <2>2
  <2> QED
    BY <2>1, <2>3
<1>8. GeneratorTypeOK'
  <2>1. issued' \in [Workers -> Seq(Nat)]
    BY <1>2, <1>3, <1>6 DEF Issue
  <2> QED
    BY <1>2, <2>1 DEF Issue, GeneratorTypeOK
<1>9. WaitsLater'
  BY <1>3, <1>4 DEF WaitsLater, GeneratorInv
<1>10. IdsFormed'
  <2> SUFFICES ASSUME NEW v \in Workers, NEW i \in 1 .. Len(issued'[v])
               PROVE  \E u \in Nat, s \in 0 .. SequenceRange - 1 :
                         /\ issued'[v][i] = Id(u, v, s)
                         /\ u < last'[v] \/ (u = last'[v] /\ s <= LastNumber(v)')
    BY DEF IdsFormed
  <2>1. CASE v # w
    <3>1. PICK u \in Nat, s \in 0 .. SequenceRange - 1 :
            /\ issued[v][i] = Id(u, v, s)
            /\ u < last[v] \/ (u = last[v] /\ s <= LastNumber(v))
      BY <1>4, <2>1 DEF GeneratorInv, IdsFormed
    <3> QED
      BY <1>4, <2>1, <3>1
  <2>2. CASE v = w /\ i = Len(issued[w]) + 1
    <3>1. issued'[w][i] = Id(t, w, n)
      BY <1>3, <1>6, <2>2
    <3>2. n <= n
      BY <1>0
    <3> QED
      BY <1>3, <2>2, <3>1, <3>2
  <2>3. CASE v = w /\ i # Len(issued[w]) + 1
    <3>1. i \in 1 .. Len(issued[w])
      BY <1>3, <1>6, <2>3
    <3>2. PICK u \in Nat, s \in 0 .. SequenceRange - 1 :
             /\ issued[w][i] = Id(u, w, s)
             /\ u < t \/ (u = t /\ s < n)
      BY <1>7, <3>1
    <3>3. issued'[w][i] = issued[w][i]
      BY <1>3, <1>6, <3>1
    <3>4. s < n => s <= n
      BY <1>0
    <3> QED
      BY <1>3, <2>3, <3>2, <3>3, <3>4
  <2> QED
    BY <2>1, <2>2, <2>3
<1>11. IdsIncrease'
  <2> SUFFICES ASSUME NEW v \in Workers, NEW i \in 1 .. Len(issued'[v]),
                      NEW j \in 1 .. Len(issued'[v]), i < j
               PROVE  issued'[v][i] < issued'[v][j]
    BY DEF IdsIncrease
  <2>1. CASE v # w
    BY <1>4, <2>1 DEF GeneratorInv, IdsIncrease
  <2>2. CASE v = w /\ j = Len(issued[w]) + 1
    <3>1. i \in 1 .. Len(issued[w])
      BY <1>3, <1>6, <2>2
    <3>2. PICK u \in Nat, s \in 0 .. SequenceRange - 1 :
             /\ issued[w][i] = Id(u, w, s)
             /\ u < t \/ (u = t /\ s < n)
      BY <1>7, <3>1
    <3>3. Id(u, w, s) < Id(t, w, n)
      BY <3>2, IdOrder
    <3> QED
      BY <1>3, <1>6, <2>2, <3>1, <3>2, <3>3
  <2>3. CASE v = w /\ j # Len(issued[w]) + 1
    <3>1. i \in 1 .. Len(issued[w]) /\ j \in 1 .. Len(issued[w])
      <4>1. Len(issued'[v]) = Len(issued[w]) + 1
        BY <1>3, <1>6, <2>3
      <4>2. Len(issued[w]) \in Nat
        BY <1>6
      <4>3. i \in Nat /\ j \in Nat /\ i < Len(issued[w]) + 1 /\ j < Len(issued[w]) + 1
        BY <2>3, <4>1, <4>2
      <4> QED
        BY <4>2, <4>3
    <3>2. issued[w][i] < issued[w][j]
      BY <3>1 DEF GeneratorInv, IdsIncrease
    <3> QED
      BY <1>3, <1>6, <2>3, <3>1, <3>2
  <2> QED
    BY <2>1, <2>2, <2>3
<1>12. NumbersFilled'
  <2> SUFFICES ASSUME NEW v \in Workers, last'[v] # Never,
                      NEW s \in 0 .. LastNumber(v)'
               PROVE  Id(last'[v], v, s) \in Range(issued'[v])
    BY DEF NumbersFilled
  <2>1. CASE v # w
    BY <1>4, <2>1 DEF GeneratorInv, NumbersFilled
  <2>2. CASE v = w /\ s = n
    BY <1>3, <1>6, <2>2
  <2>3. CASE v = w /\ s # n
    <3>1. last[w] = t /\ s \in 0 .. LastNumber(w)
      BY <1>0, <1>3, <1>5, <2>3
    <3>2. last[w] # Never
      BY <3>1 DEF Never
    <3>3. Id(t, w, s) \in Range(issued[w])
      BY <3>1, <3>2 DEF GeneratorInv, NumbersFilled
    <3> QED
      BY <1>3, <1>6, <2>3, <3>3
  <2> QED
    BY <2>1, <2>2, <2>3
<1> QED
  BY <1>8, <1>9, <1>10, <1>11, <1>12 DEF GeneratorInv

-----------------------------------------------------------------------------
(* The theorems.                                                           *)

LEMMA InvInit == GeneratorInit => GeneratorInv
<1> SUFFICES ASSUME GeneratorInit PROVE GeneratorInv
  OBVIOUS
<1>1. SequenceRange \in Nat \ {0} /\ MaxClock \in Nat /\ MaxSetBacks \in Nat
  BY GeneratorAssumption
<1>2. GeneratorTypeOK
  BY <1>1 DEF GeneratorInit, GeneratorTypeOK
<1>3. \A w \in Workers : issued[w] = <<>> /\ ~waiting[w] /\ last[w] = Never
  BY DEF GeneratorInit
<1>4. WaitsLater /\ NumbersFilled
  BY <1>3 DEF WaitsLater, NumbersFilled
<1>5. IdsFormed /\ IdsIncrease
  BY <1>3 DEF IdsFormed, IdsIncrease
<1> QED
  BY <1>2, <1>4, <1>5 DEF GeneratorInv

LEMMA InvStep == GeneratorInv /\ [GeneratorNext]_generatorVars => GeneratorInv'
<1> SUFFICES ASSUME GeneratorInv, [GeneratorNext]_generatorVars
             PROVE  GeneratorInv'
  OBVIOUS
<1>1. /\ SequenceRange \in Nat \ {0} /\ MaxClock \in Nat /\ MaxSetBacks \in Nat
      /\ clock \in Nat /\ setBacks \in 0 .. MaxSetBacks
      /\ last \in [Workers -> Nat \cup {Never}]
      /\ sequence \in [Workers -> 0 .. SequenceRange - 1]
      /\ waiting \in [Workers -> BOOLEAN]
      /\ issued \in [Workers -> Seq(Nat)]
  BY GeneratorAssumption DEF GeneratorInv, GeneratorTypeOK
<1>2. 0 \in 0 .. SequenceRange - 1
  BY <1>1
<1>3. ASSUME NEW w \in Workers, NewMillisecond(w)
      PROVE  GeneratorInv'
  <2>1. Issue(w, clock, 0) /\ last[w] < clock
    BY <1>1, <1>3 DEF NewMillisecond, Never
  <2>2. clock' \in Nat /\ setBacks' \in 0 .. MaxSetBacks
    BY <1>1, <1>3 DEF NewMillisecond
  <2> QED
    BY <1>1, <1>2, <2>1, <2>2, IssueKeeps
<1>4. ASSUME NEW w \in Workers, SameMillisecond(w)
      PROVE  GeneratorInv'
  <2> DEFINE n == NextSequence(sequence[w])
  <2>1. n \in 0 .. SequenceRange - 1 /\ n = sequence[w] + 1
    BY <1>1, <1>4, NextNumber DEF SameMillisecond
  <2>2. n = LastNumber(w) + 1
    BY <1>4, <2>1 DEF SameMillisecond, LastNumber
  <2>3. last[w] \in Nat
    BY <1>1, <1>4 DEF SameMillisecond, Never
  <2>4. Issue(w, last[w], n)
    BY <1>4 DEF SameMillisecond
  <2>5. clock' \in Nat /\ setBacks' \in 0 .. MaxSetBacks
    BY <1>1, <1>4 DEF SameMillisecond
  <2> HIDE DEF n
  <2> QED
    BY <2>1, <2>2, <2>3, <2>4, <2>5, IssueKeeps
<1>5. ASSUME NEW w \in Workers, Exhausted(w)
      PROVE  GeneratorInv'
  <2>1. sequence[w] = SequenceRange - 1 /\ ~waiting[w] /\ last[w] \in Nat
    BY <1>1, <1>5, NextNumber DEF Exhausted, Never
  <2>2. /\ UNCHANGED <<clock, setBacks, last, issued>>
        /\ sequence' = [sequence EXCEPT ![w] = 0]
        /\ waiting' = [waiting EXCEPT ![w] = TRUE]
    BY <1>5 DEF Exhausted
  <2>3. \A v \in Workers : LastNumber(v)' = LastNumber(v)
    BY <1>1, <2>1, <2>2 DEF LastNumber
  <2>4. GeneratorTypeOK'
    BY <1>1, <1>2, <2>2 DEF GeneratorTypeOK
  <2>5. WaitsLater'
    BY <1>1, <2>1, <2>2 DEF WaitsLater, Never, GeneratorInv
  <2>6. IdsFormed' /\ NumbersFilled'
    BY <2>2, <2>3 DEF IdsFormed, NumbersFilled, GeneratorInv
  <2>7. IdsIncrease'
    BY <2>2 DEF IdsIncrease, GeneratorInv
  <2> QED
    BY <2>4, <2>5, <2>6, <2>7 DEF GeneratorInv
<1>6. ASSUME NEW w \in Workers, Resume(w)
      PROVE  GeneratorInv'
  <2>1. Issue(w, clock, 0) /\ last[w] < clock
    BY <1>1, <1>6 DEF Resume, Never
  <2>2. clock' \in Nat /\ setBacks' \in 0 .. MaxSetBacks
    BY <1>1, <1>6 DEF Resume
  <2> QED
    BY <1>1, <1>2, <2>1, <2>2, IssueKeeps
<1>7. ASSUME UNCHANGED <<last, sequence, waiting, issued>>,
             clock' \in Nat, setBacks' \in 0 .. MaxSetBacks
      PROVE  GeneratorInv'
  <2>1. GeneratorTypeOK'
    BY <1>1, <1>7 DEF GeneratorTypeOK
  <2>2. WaitsLater' /\ IdsFormed' /\ IdsIncrease' /\ NumbersFilled'
    BY <1>7 DEF WaitsLater, IdsFormed, IdsIncrease, NumbersFilled, LastNumber, GeneratorInv
  <2> QED
    BY <2>1, <2>2 DEF GeneratorInv
<1>8. CASE Advance
  BY <1>1, <1>7, <1>8 DEF Advance
<1>9. CASE SetBack
  BY <1>1, <1>7, <1>9 DEF SetBack
<1>10. CASE UNCHANGED generatorVars
  BY <1>1, <1>7, <1>10 DEF generatorVars
<1> QED
  BY <1>3, <1>4, <1>5, <1>6, <1>8, <1>9, <1>10 DEF GeneratorNext

\* The inductive invariant holds in every reachable state.
THEOREM GeneratorInvHolds == GeneratorSpec => []GeneratorInv
<1>1. GeneratorSpec => GeneratorInit /\ [][GeneratorNext]_generatorVars
  BY PTL DEF GeneratorSpec
<1> QED
  BY <1>1, InvInit, InvStep, PTL

\* The state of every generator keeps its type: the sequence fits its bits.
THEOREM GeneratorTypeCorrect == GeneratorSpec => []GeneratorTypeOK
<1>1. GeneratorInv => GeneratorTypeOK
  BY DEF GeneratorInv
<1> QED
  BY <1>1, GeneratorInvHolds, PTL

\* get_id returns larger and larger ids, whatever the clock does.
THEOREM IdsIncreaseHolds == GeneratorSpec => []IdsIncrease
<1>1. GeneratorInv => IdsIncrease
  BY DEF GeneratorInv
<1> QED
  BY <1>1, GeneratorInvHolds, PTL

\* Two generators with different worker ids never return the same id.
THEOREM IdsDisjointHolds == GeneratorSpec => []IdsDisjoint
<1>1. GeneratorInv => IdsDisjoint
  <2> SUFFICES ASSUME GeneratorInv, NEW v \in Workers, NEW w \in Workers, v # w,
                      NEW x \in Range(issued[v]), x \in Range(issued[w])
               PROVE  FALSE
    BY DEF IdsDisjoint
  <2>1. issued[v] \in Seq(Nat) /\ issued[w] \in Seq(Nat)
    BY DEF GeneratorInv, GeneratorTypeOK
  <2>2. PICK i \in 1 .. Len(issued[v]) : issued[v][i] = x
    BY <2>1 DEF Range
  <2>3. PICK j \in 1 .. Len(issued[w]) : issued[w][j] = x
    BY <2>1 DEF Range
  <2>4. PICK t \in Nat, r \in 0 .. SequenceRange - 1 : issued[v][i] = Id(t, v, r)
    BY DEF GeneratorInv, IdsFormed
  <2>5. PICK u \in Nat, s \in 0 .. SequenceRange - 1 : issued[w][j] = Id(u, w, s)
    BY DEF GeneratorInv, IdsFormed
  <2> QED
    BY <2>2, <2>3, <2>4, <2>5, IdWorker
<1> QED
  BY <1>1, GeneratorInvHolds, PTL

\* A call of get_id waits only when the millisecond has no number left.
THEOREM WaitsOnlyExhaustedHolds == GeneratorSpec => []WaitsOnlyExhausted
<1>1. GeneratorInv => WaitsOnlyExhausted
  BY DEF GeneratorInv, WaitsLater, NumbersFilled, WaitsOnlyExhausted, LastNumber
<1> QED
  BY <1>1, GeneratorInvHolds, PTL

=============================================================================
