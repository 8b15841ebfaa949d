-------------------------------- MODULE Swing --------------------------------
(***************************************************************************)
(* The second structural layer of a timeframe: SwingManager cuts the CBars *)
(* into swings that run from fractal to fractal.  It keeps nothing between *)
(* two bars but its rows: after every bar it clears them and walks over    *)
(* all fractals again.  The module adds that rebuild to CBar's operation.  *)
(*                                                                         *)
(* Volume, open interest and span, which the rebuild sets to constants,    *)
(* are left out.  Positions in the CBar rows stand for fractals.           *)
(***************************************************************************)
EXTENDS CBar

VARIABLES swings,            \* SwingManager.rows
          swingIds,          \* the last id the swing generator issued
          swingBacktrack     \* SwingManager.backtrack_id

swingVars == <<swings, swingIds, swingBacktrack>>

SwingRow == [id : Nat \ {0}, direction : Directions,
             start : Nat \ {0}, end : Nat \ {0},       \* CBar ids
             sstart : Nat \ {0}, send : Nat \ {0},     \* SBar ids
             high : Int, low : Int,
             state : {"forming", "pending", "confirmed"}]

-----------------------------------------------------------------------------
(* Fractals of the rows cs, by the position p of their middle.             *)

Kind(cs, p) == LabelAt(cs, p)

\* The rows that are the middle of a fractal.
Pivots(cs) == {p \in 1 .. Len(cs) : Kind(cs, p) # "none"}

High3(cs, p) == Max({cs[i].high : i \in p - 1 .. p + 1})
Low3(cs, p) == Min({cs[i].low : i \in p - 1 .. p + 1})

\* find_fractal_by_middle_id; 0 if the row is not the middle of a fractal.
PivotOf(cs, id) ==
    LET found == {p \in Pivots(cs) : cs[p].id = id}
    IN  IF found = {} THEN 0 ELSE Min(found)

\* fractal_overlap: touching counts when touch is set.
Overlap(cs, p, q, touch) ==
    LET lo == Max({Low3(cs, p), Low3(cs, q)})
        hi == Min({High3(cs, p), High3(cs, q)})
    IN  IF touch THEN lo <= hi ELSE lo < hi

StartKind(d) == IF d = "up" THEN "bottom" ELSE "top"
EndKind(d) == IF d = "up" THEN "top" ELSE "bottom"

\* latest_fractal_before; 0 if there is none.
LatestBefore(cs, p, kind) ==
    LET found == {q \in Pivots(cs) : cs[q].id < cs[p].id /\ Kind(cs, q) = kind}
    IN  IF found = {} THEN 0 ELSE Max(found)

\* end_breaks_start_reference: pivot q goes beyond the last fractal of its
\* kind before pivot p.
BreaksReference(cs, p, q, d) ==
    LET ref == LatestBefore(cs, p, EndKind(d))
    IN  /\ Kind(cs, q) = EndKind(d)
        /\ ref # 0
        /\ IF d = "down" THEN Low3(cs, q) < Low3(cs, ref)
           ELSE High3(cs, q) > High3(cs, ref)

-----------------------------------------------------------------------------
(* Ranges of CBars.                                                        *)

RowsBetween(cs, a, b) ==
    {i \in 1 .. Len(cs) : (a <= cs[i].id /\ cs[i].id <= b) \/ (b <= cs[i].id /\ cs[i].id <= a)}

\* find_swing_extreme_cbar_id: the latest of the most extreme rows.
ExtremeId(cs, w, endId) ==
    LET range == RowsBetween(cs, w.start, endId)
        best  == IF w.direction = "up"
                 THEN {i \in range : \A j \in range : cs[j].high <= cs[i].high}
                 ELSE {i \in range : \A j \in range : cs[j].low >= cs[i].low}
    IN  IF range = {} THEN endId ELSE cs[Max(best)].id

\* apply_cbar_range_stats.
WithStats(cs, w) ==
    LET range == RowsBetween(cs, w.start, w.end)
    IN  IF range = {} THEN w
        ELSE [w EXCEPT !.high = Max({cs[i].high : i \in range}),
                       !.low = Min({cs[i].low : i \in range}),
                       !.sstart = Min({cs[i].start : i \in range}),
                       !.send = Max({cs[i].end : i \in range})]

\* Mutation of Widened: the fractal does not count for the range.
WidenedNot(cs, w, p) == w

\* The high and low of a swing, widened to a whole fractal.
Widened(cs, w, p) ==
    [w EXCEPT !.high = Max({w.high, High3(cs, p)}), !.low = Min({w.low, Low3(cs, p)})]

\* Mutation of EndingAt: the SBar coordinate is not kept up.
EndingAtCBarOnly(cs, w, i) == [w EXCEPT !.end = cs[i].id]

\* The swing ends at row i.
EndingAt(cs, w, i) == [w EXCEPT !.end = cs[i].id, !.send = cs[i].end]

-----------------------------------------------------------------------------
(* The rebuild.  Its state is the rows w built so far, the last id issued  *)
(* and the pending candidate: a row of w, 0 for none, and its pivot.       *)

Rebuild == [w : Seq(SwingRow), ids : Nat, candRow : Nat, candPivot : Nat]

NoCandidate(s) == [s EXCEPT !.candRow = 0, !.candPivot = 0]

\* append_from_fractal: the first fractal opens the first swing.
Opened(cs, s, p) ==
    LET m == cs[p]
        r == cs[p + 1]
    IN  [s EXCEPT
           !.ids = @ + 1,
           !.w = Append(@, [id |-> s.ids + 1,
                            direction |-> IF Kind(cs, p) = "top" THEN "down" ELSE "up",
                            start |-> m.id, end |-> r.id,
                            sstart |-> m.start, send |-> r.end,
                            high |-> Max({m.high, r.high}), low |-> Min({m.low, r.low}),
                            state |-> "forming"])]

\* The pivot cannot end the active swing: wrong kind, or its three bars
\* overlap or touch those of the fractal the swing starts or ends at.
MustExtend(cs, act, p) ==
    \/ Kind(cs, p) # EndKind(act.direction)
    \/ \E q \in {PivotOf(cs, act.start), PivotOf(cs, act.end)} :
          q # 0 /\ Overlap(cs, q, p, TRUE)

\* Row k, resumed up to the bar to the right of pivot p; later rows go.
Resumed(cs, s, k, p) ==
    LET w == Widened(cs, EndingAt(cs, s.w[k], p + 1), p)
    IN  NoCandidate([s EXCEPT !.w = Append(SubSeq(@, 1, k - 1), [w EXCEPT !.state = "forming"])])

\* The candidate end was exceeded by a later fractal.
BreaksCandidate(cs, s, p) ==
    /\ s.candRow # 0
    /\ IF Kind(cs, s.candPivot) = "top" THEN High3(cs, p) > High3(cs, s.candPivot)
       ELSE Low3(cs, p) < Low3(cs, s.candPivot)

\* should_resume_previous_swing.
ResumesPrevious(cs, s, act, p) ==
    LET prev == s.w[Len(s.w) - 1]
    IN  /\ Len(s.w) >= 2
        /\ prev.state = "pending" /\ prev.direction # act.direction
        /\ Kind(cs, p) = EndKind(prev.direction)
        /\ IF prev.direction = "down" THEN Low3(cs, p) < act.low
           ELSE High3(cs, p) > act.high

\* determine_swing.  The swing before it is the active one itself, whose row
\* has been marked confirmed; two ids are at least six apart when five lie
\* between them.
Determined(cs, s, act, completed, p) ==
    LET q        == PivotOf(cs, act.start)
        distance == Max({High3(cs, q), High3(cs, p)}) - Min({Low3(cs, q), Low3(cs, p)})
        before   == completed.high - completed.low
        apart    == IF cs[p].id > cs[q].id THEN cs[p].id - cs[q].id ELSE cs[q].id - cs[p].id
    IN  /\ q # 0
        /\ Kind(cs, q) # Kind(cs, p)
        /\ Len(s.w) = 1 => BreaksReference(cs, q, p, act.direction)
        /\ IF act.direction = "up" THEN High3(cs, p) >= Low3(cs, q)
           ELSE Low3(cs, p) <= High3(cs, q)
        /\ \/ ~Overlap(cs, q, p, TRUE)
           \/ ~Overlap(cs, q, p, FALSE)
           \/ before > 0 /\ 10 * distance >= 6 * before /\ apart - 1 >= 5

\* The active swing awaits its confirmation and the opposite one begins.
Turned(cs, s, act, p) ==
    LET i    == CHOOSE j \in 1 .. Len(cs) : cs[j].id = ExtremeId(cs, act, cs[p].id)
        done == [WithStats(cs, [act EXCEPT !.end = cs[i].id]) EXCEPT !.state = "pending"]
        r    == cs[p + 1]
        n    == Len(s.w)
    IN  [w |-> Append(Append(SubSeq(s.w, 1, n - 1), done),
                 [id |-> s.ids + 1, direction |-> Opposite(done.direction),
                  start |-> done.end, end |-> r.id,
                  sstart |-> done.send, send |-> r.end,
                  high |-> IF done.direction = "up" THEN done.high ELSE r.high,
                  low |-> IF done.direction = "down" THEN done.low ELSE r.low,
                  state |-> "forming"]),
         ids |-> s.ids + 1, candRow |-> n, candPivot |-> p]

\* should_reanchor_start: a better fractal to start the first swing from.
Reanchors(cs, s, act, p) ==
    LET q == PivotOf(cs, act.start)
    IN  /\ Len(s.w) = 1 /\ q # 0
        /\ Kind(cs, q) = Kind(cs, p)
        /\ Kind(cs, p) = StartKind(act.direction)
        /\ IF act.direction = "down" THEN High3(cs, p) >= High3(cs, q)
           ELSE Low3(cs, p) <= Low3(cs, q)

\* The active swing goes on, up to the bar to the right of the pivot.
Kept(cs, s, act, p) ==
    LET w == IF Reanchors(cs, s, act, p)
             THEN [act EXCEPT !.start = cs[p].id, !.sstart = cs[p].start] ELSE act
    IN  [s EXCEPT !.w[Len(s.w)] =
            [WithStats(cs, EndingAt(cs, w, p + 1)) EXCEPT !.state = "forming"]]

\* One pass of the loop over the pivots.
Visited(cs, s, p) ==
    LET n         == Len(s.w)
        act       == Widened(cs, s.w[n], p)
        completed == EndingAt(cs, act, p)
    IN  CASE s.w = <<>> -> Opened(cs, s, p)
          [] s.w # <<>> /\ MustExtend(cs, act, p) ->
                [s EXCEPT !.w[n] = [completed EXCEPT !.state = "forming"]]
          [] s.w # <<>> /\ ~MustExtend(cs, act, p) ->
                IF BreaksCandidate(cs, s, p) THEN Resumed(cs, s, s.candRow, p)
                ELSE IF ResumesPrevious(cs, s, act, p) THEN Resumed(cs, s, n - 1, p)
                ELSE IF Determined(cs, s, act, completed, p) THEN Turned(cs, s, act, p)
                ELSE Kept(cs, s, act, p)

\* After the loop a last swing that is still forming becomes confirmed.
Closed(w) ==
    IF w # <<>> /\ w[Len(w)].state = "forming"
    THEN [w EXCEPT ![Len(w)].state = "confirmed"] ELSE w

\* The loop: what it has built after it has looked at the first p rows.
Walk(cs, ids) ==
    LET walk[p \in 0 .. Len(cs)] ==
            IF p = 0 THEN [w |-> <<>>, ids |-> ids, candRow |-> 0, candPivot |-> 0]
            ELSE IF Kind(cs, p) = "none" THEN walk[p - 1]
            ELSE Visited(cs, walk[p - 1], p)
    IN  walk

\* rebuild_from_cbars_with_backtrack, up to its new rows.
Rebuilt(cs, ids) == [Walk(cs, ids)[Len(cs)] EXCEPT !.w = Closed(@)]

\* Mutation of SwingBacktrackId: no id from below means no change above.
SwingBacktrackIdFromBelow(old, new, below) ==
    IF below = NoId THEN NoId ELSE FirstChangedId(old, new, TRUE)

\* With an id from below there is always an id for above.
SwingBacktrackId(old, new, below) ==
    LET changed == FirstChangedId(old, new, below # NoId)
    IN  IF below # NoId /\ changed = NoId /\ new # <<>> THEN new[1].id ELSE changed

-----------------------------------------------------------------------------
(* The operation: a bar goes through both layers.                          *)

SwingInit ==
    /\ CBarInit
    /\ swings = <<>> /\ swingIds = 0 /\ swingBacktrack = NoId

AppendThroughSwings(b) ==
    /\ OnSBar(b)
    /\ LET s == Rebuilt(rows', swingIds)
       IN  swings' = s.w /\ swingIds' = s.ids
    /\ swingBacktrack' = SwingBacktrackId(swings, swings', backtrack')

SwingNext == \E b \in Bars : AppendThroughSwings(b)

SwingSpec == SwingInit /\ [][SwingNext]_<<cbarVars, swingVars>>

-----------------------------------------------------------------------------
(* Properties.                                                             *)

Row(id) == IndexOf(rows, id)

\* A swing's two pairs of coordinates agree: its CBar ids name rows that
\* still exist, the first before the last, and its SBar ids are where the
\* spans of these rows begin and end, although merges renumber CBars.
SwingCoordinates ==
    \A k \in 1 .. Len(swings) :
        /\ \E i \in 1 .. Len(rows) : rows[i].id = swings[k].start
        /\ \E i \in 1 .. Len(rows) : rows[i].id = swings[k].end
        /\ Row(swings[k].start) < Row(swings[k].end)
        /\ rows[Row(swings[k].start)].start = swings[k].sstart
        /\ rows[Row(swings[k].end)].end = swings[k].send

\* The price range of a swing covers every bar that arrived between its two
\* ends, those swallowed by merges included.
SwingCovers ==
    \A k \in 1 .. Len(swings) : \A j \in swings[k].sstart .. swings[k].send :
        sbars[j].high <= swings[k].high /\ sbars[j].low >= swings[k].low

\* What the documentation says: two fractals whose ranges are completely apart
\* confirm the swing from the first to the second.  When these two are all
\* there are, of opposite kinds and the way the swing goes, it has ended and
\* the opposite one has begun.
SeparatedFractalsConfirm ==
    \A p, q \in 2 .. Len(rows) - 1 :
        /\ Pivots(rows) = {p, q} /\ p < q
        /\ \/ Kind(rows, p) = "bottom" /\ Low3(rows, q) > High3(rows, p)
           \/ Kind(rows, p) = "top" /\ High3(rows, q) < Low3(rows, p)
        => Len(swings) = 2

\* A layer above that keeps a copy of the swings, drops it from the reported
\* one on and reads the rest again, has the current swings.
SwingBacktrackSound ==
    [][LET kept == IF swingBacktrack' = NoId THEN Len(swings)
                   ELSE Cardinality({i \in 1 .. Len(swings) : swings[i].id < swingBacktrack'})
       IN  /\ kept <= Len(swings')
           /\ \A i \in 1 .. kept : swings'[i] = swings[i]]_<<cbarVars, swingVars>>

=============================================================================
