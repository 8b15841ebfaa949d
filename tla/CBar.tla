-------------------------------- MODULE CBar --------------------------------
(***************************************************************************)
(* The first structural layer of a timeframe: the raw bars (SBar) appended *)
(* by SBarManager and the inclusion-free bars (CBar) that CBarManager      *)
(* derives from them, with their fractal labels and the backtrack id that  *)
(* tells the layers above from which row on they must read again.          *)
(*                                                                         *)
(* An SBar is reduced to its high and its low, the only fields the layer   *)
(* compares.  An SBar's id is its position in sbars: ids of one generator  *)
(* increase and the layer never does arithmetic on them.  CBar ids come    *)
(* from a generator of their own, cbarIds being the last one it issued.    *)
(***************************************************************************)
EXTENDS Integers, Sequences, FiniteSetsExt, Layers

CONSTANTS Bars,      \* the bars that may arrive: records with high and low
          MaxBars    \* bound: the number of bars appended in a behaviour

ASSUME BarsAssumption ==
    /\ Bars \subseteq [high : Int, low : Int]
    /\ \A b \in Bars : b.low <= b.high

ASSUME MaxBarsAssumption == MaxBars \in Nat

VARIABLES sbars,      \* SBarManager.rows
          rows,       \* CBarManager.rows
          cbarIds,    \* the last id the CBar generator issued
          backtrack   \* CBarManager.backtrack_id; NoId is Rust's None

cbarVars == <<sbars, rows, cbarIds, backtrack>>

Labels == {"top", "bottom", "none"}

CBarRow == [id : Nat \ {0}, start : Nat \ {0}, end : Nat \ {0},
            high : Int, low : Int, fractal : Labels]

CBarTypeOK ==
    /\ sbars \in Seq(Bars)
    /\ rows \in Seq(CBarRow)
    /\ cbarIds \in Nat
    /\ backtrack \in Nat

-----------------------------------------------------------------------------
(* Inclusion and merging.                                                  *)

\* One of the two price ranges contains the other, ties included.
Inclusive(a, b) ==
    \/ a.high >= b.high /\ a.low <= b.low
    \/ a.high <= b.high /\ a.low >= b.low

\* The rows that k pops remove from the tail of rs.
Popped(rs, k) == (Len(rs) - k + 1) .. Len(rs)

\* Mutation of Merged: the popped rows do not widen the range.
MergedForgets(rs, b, k) == [high |-> b.high, low |-> b.low]

\* The range of bar b after k rows of rs were popped and merged into it.
Merged(rs, b, k) ==
    [high |-> Max({b.high} \cup {rs[i].high : i \in Popped(rs, k)}),
     low  |-> Min({b.low} \cup {rs[i].low : i \in Popped(rs, k)})]

\* The loop pops while the last row and the merged range are inclusive: it
\* stops at the first k where no row is left or the next one is not.
Stops(rs, b) ==
    {k \in 0 .. Len(rs) :
        k < Len(rs) => ~Inclusive(rs[Len(rs) - k], Merged(rs, b, k))}

\* Mutation of PopCount: an if in the place of the loop.
PopCountOnce(rs, b) == IF 0 \in Stops(rs, b) THEN 0 ELSE 1

PopCount(rs, b) == Min(Stops(rs, b))

\* Mutation of MergedRows: the start of the popped rows is not taken over.
MergedRowsNoStart(rs, b, n, id) ==
    LET k == PopCount(rs, b)
        m == Merged(rs, b, k)
    IN  Append(SubSeq(rs, 1, Len(rs) - k),
               [id |-> id, start |-> n, end |-> n,
                high |-> m.high, low |-> m.low, fractal |-> "none"])

\* The rows after bar b, the n-th SBar, was merged in: the popped rows give
\* way to one row that takes the start of the earliest of them and a new id.
MergedRows(rs, b, n, id) ==
    LET k == PopCount(rs, b)
        m == Merged(rs, b, k)
    IN  Append(SubSeq(rs, 1, Len(rs) - k),
               [id |-> id,
                start |-> IF k = 0 THEN n ELSE rs[Len(rs) - k + 1].start,
                end |-> n,
                high |-> m.high, low |-> m.low,
                fractal |-> "none"])

-----------------------------------------------------------------------------
(* Fractals.                                                               *)

\* Mutation of IsTop: the right bar is not looked at.
IsTopLeft(l, m, r) == m.high >= l.high /\ m.low >= l.low

IsTop(l, m, r) ==
    /\ m.high >= l.high /\ m.high >= r.high
    /\ m.low >= l.low /\ m.low >= r.low

IsBottom(l, m, r) ==
    /\ m.high <= l.high /\ m.high <= r.high
    /\ m.low <= l.low /\ m.low <= r.low

\* Fractal::verify: a top wins over a bottom.
Verify(l, m, r) ==
    IF IsTop(l, m, r) THEN "top"
    ELSE IF IsBottom(l, m, r) THEN "bottom" ELSE "none"

\* The label of row i: the first and the last row never have one.
LabelAt(rs, i) ==
    IF 1 < i /\ i < Len(rs) THEN Verify(rs[i - 1], rs[i], rs[i + 1])
    ELSE "none"

Labelled(rs) == [i \in 1 .. Len(rs) |-> [rs[i] EXCEPT !.fractal = LabelAt(rs, i)]]

-----------------------------------------------------------------------------
(* The operations.                                                         *)

CBarInit ==
    /\ sbars = <<>>
    /\ rows = <<>>
    /\ cbarIds = 0
    /\ backtrack = NoId

\* SBarManager::append followed by CBarManager::on_sbar.
OnSBar(b) ==
    /\ Len(sbars) < MaxBars
    /\ sbars' = Append(sbars, b)
    /\ cbarIds' = cbarIds + 1
    /\ rows' = Labelled(MergedRows(rows, b, Len(sbars) + 1, cbarIds + 1))
    /\ backtrack' = FirstChangedId(rows, rows', FALSE)

CBarNext == \E b \in Bars : OnSBar(b)

CBarSpec == CBarInit /\ [][CBarNext]_cbarVars

-----------------------------------------------------------------------------
\* get_index: the first row with that id.
IndexOf(rs, id) == Min({i \in 1 .. Len(rs) : rs[i].id = id})

-----------------------------------------------------------------------------
(* Properties.                                                             *)

\* The rows cut the appended bars into consecutive, non-empty stretches: no
\* bar is lost, none is counted twice, however many rows a merge swallows.
Partition ==
    /\ rows = <<>> <=> sbars = <<>>
    /\ rows # <<>> => rows[1].start = 1 /\ rows[Len(rows)].end = Len(sbars)
    /\ \A i \in 1 .. Len(rows) : rows[i].start <= rows[i].end
    /\ \A i \in 1 .. Len(rows) - 1 : rows[i + 1].start = rows[i].end + 1

\* No row contains its neighbour, ties included: a merge that grows a row is
\* carried on until the row before it is clear of the grown range as well.
NonInclusive ==
    \A i \in 1 .. Len(rows) - 1 : ~Inclusive(rows[i], rows[i + 1])

\* The range of a row is the exact envelope of the bars it stands for.
RangeIsEnvelope ==
    \A i \in 1 .. Len(rows) :
        LET span == rows[i].start .. rows[i].end
        IN  /\ \A j \in span : sbars[j].high <= rows[i].high /\ sbars[j].low >= rows[i].low
            /\ \E j \in span : sbars[j].high = rows[i].high
            /\ \E j \in span : sbars[j].low = rows[i].low

\* A stored label means what the definition of a fractal says, with strict
\* inequalities, although verify compares with >= and <=: the middle row is
\* beyond both neighbours with its high and with its low.
FractalsStrict ==
    \A i \in 1 .. Len(rows) :
        /\ rows[i].fractal = "top" =>
              /\ 1 < i /\ i < Len(rows)
              /\ \A n \in {i - 1, i + 1} :
                     rows[n].high < rows[i].high /\ rows[n].low < rows[i].low
        /\ rows[i].fractal = "bottom" =>
              /\ 1 < i /\ i < Len(rows)
              /\ \A n \in {i - 1, i + 1} :
                     rows[n].high > rows[i].high /\ rows[n].low > rows[i].low

\* A subscriber that keeps a copy of the rows, drops it from the row with the
\* reported id on and reads the rest again, has the current rows: no row
\* before that one changed, and no row at all when no id is reported.
BacktrackSound ==
    [][LET kept == IF backtrack' = NoId THEN Len(rows)
                   ELSE IndexOf(rows, backtrack') - 1
       IN  /\ kept <= Len(rows')
           /\ \A i \in 1 .. kept : rows'[i] = rows[i]]_cbarVars

\* An id stands for one row for ever: a row seen again under a known id has
\* its place, its span and its range unchanged, only its label may differ,
\* so an id kept by another layer never comes to mean another stretch.
IdsStable ==
    [][\A i \in 1 .. Len(rows), j \in 1 .. Len(rows') :
          rows[i].id = rows'[j].id =>
              i = j /\ [rows[i] EXCEPT !.fractal = "none"]
                       = [rows'[j] EXCEPT !.fractal = "none"]]_cbarVars

=============================================================================
