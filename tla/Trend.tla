-------------------------------- MODULE Trend --------------------------------
(***************************************************************************)
(* The third structural layer of a timeframe: TrendManager joins confirmed *)
(* swings into trends.  It is rebuilt from all swings whenever they change *)
(* and keeps its rows.                                                     *)
(*                                                                         *)
(* The swings are those that the code of the swing layer confirms in a row *)
(* (it lets at most one through, see Swing): they alternate, and each      *)
(* begins at the price at which the one before it ended.  Lists of another *)
(* shape, which tests pass to the layer, are not covered.  A swing's id is *)
(* its position in the list.  Ids of trends are numbered anew by each      *)
(* rebuild; as the generator never issues one twice, all rows of the last  *)
(* rebuild have other ids, and the backtrack id, which follows from that,  *)
(* is left out.  So are volume, open interest, span and the SBar ids,      *)
(* which follow the swing ids.                                             *)
(***************************************************************************)
EXTENDS Integers, FiniteSets, FiniteSetsExt, SequencesExt, Layers

CONSTANTS Prices,       \* the prices at which swings end
          Openings,     \* those of them at which the first swing may begin
          MaxSwings,    \* a bound on the number of swings
          MaxLead       \* a bound on the swings before the first trend

ASSUME TrendAssumption ==
    /\ Prices \subseteq Int /\ IsFiniteSet(Prices) /\ Openings \subseteq Prices
    /\ MaxSwings \in Nat /\ MaxLead \in Nat

VARIABLES completed,    \* the confirmed swings, the input of the rebuild
          trends        \* TrendManager.rows

trendVars == <<completed, trends>>

\* A row: the swings it runs from and to, its range, and if it is completed.
TrendRow == [id : Nat, dir : Directions, start : Nat \ {0}, end : Nat \ {0},
             high : Int, low : Int, done : BOOLEAN]

NoTrend == [dir |-> "none"]

-----------------------------------------------------------------------------
(* TrendSfSeq: a trend and the swings against it, contained ones merged.   *)

NoSeq == [trend |-> NoTrend, sfs |-> <<>>]

\* Mutation of Extended: the end is not kept up.
ExtendedKeepsEnd(t, ws, k) == [t EXCEPT !.high = Max({@, ws[k].high}), !.low = Min({@, ws[k].low})]

\* A trend that goes on to swing k.
Extended(t, ws, k) ==
    [t EXCEPT !.end = k, !.high = Max({@, ws[k].high}), !.low = Min({@, ws[k].low})]

\* update_trend.  Wherever it is called there is a trend.
Updated(q, ws, k) == [q EXCEPT !.trend = Extended(@, ws, k)]

Covers(a, b) == a.high >= b.high /\ a.low <= b.low

\* Two ranges, one of which contains the other, become one.
Absorbed(dir, a, b) ==
    IF dir = "up" THEN [high |-> Max({a.high, b.high}), low |-> Max({a.low, b.low})]
    ELSE [high |-> Min({a.high, b.high}), low |-> Min({a.low, b.low})]

\* The range of swing w when it has absorbed none, one, two, ... of the ranges,
\* from the end on.
Absorbing(dir, sfs, w) ==
    LET range[j \in 0 .. Len(sfs)] ==
            IF j = 0 THEN [high |-> w.high, low |-> w.low]
            ELSE Absorbed(dir, sfs[Len(sfs) - j + 1], range[j - 1])
    IN  range

\* It absorbs ranges until it stands before one that neither contains the other.
Joined(sfs, range) ==
    LET n == Len(sfs)
        j == Min({i \in 0 .. n : i < n => /\ ~Covers(sfs[n - i], range[i])
                                         /\ ~Covers(range[i], sfs[n - i])})
    IN  Append(SubSeq(sfs, 1, n - j), range[j])

\* agg_swing: only swings against the trend count.
Agg(q, ws, k) ==
    IF ws[k].dir = q.trend.dir THEN q
    ELSE [q EXCEPT !.sfs = Joined(@, Absorbing(q.trend.dir, @, ws[k]))]

\* The right, middle and left of the last three ranges.
Last3(sfs) == [right |-> sfs[Len(sfs)], mid |-> sfs[Len(sfs) - 1], left |-> sfs[Len(sfs) - 2]]

\* fractal_type.
SfFractal(sfs) ==
    LET f == Last3(sfs)
        above(x) == f.mid.high >= x.high /\ f.mid.low >= x.low
        below(x) == f.mid.high <= x.high /\ f.mid.low <= x.low
    IN  IF Len(sfs) < 3 THEN "none"
        ELSE IF above(f.left) /\ above(f.right) THEN "top"
        ELSE IF below(f.left) /\ below(f.right) THEN "bottom"
        ELSE "none"

\* has_gap.
HasGap(sfs) ==
    LET f == Last3(sfs)
    IN  CASE SfFractal(sfs) = "top"    -> f.left.high < f.mid.low /\ f.mid.low < f.right.high
          [] SfFractal(sfs) = "bottom" -> f.left.low > f.mid.high /\ f.mid.high > f.right.low
          [] SfFractal(sfs) = "none"   -> FALSE

-----------------------------------------------------------------------------
(* Swings of a range.                                                      *)

\* Mutation of InRange: swings that come later count as well.
InRangeOpen(ws, a, b) == {k \in 1 .. Len(ws) : a <= k}

\* swings_in_range.
InRange(ws, a, b) == {k \in 1 .. Len(ws) : a <= k /\ k <= b}

\* The last of the highest or the first of the lowest swings; 0 for none.
Furthest(ws, range, limit) ==
    IF range = {} THEN 0
    ELSE IF limit = "max" THEN Max({k \in range : \A j \in range : ws[j].high <= ws[k].high})
    ELSE Min({k \in range : \A j \in range : ws[j].low >= ws[k].low})

\* find_limit_swing, of the swings from a to b with direction d.
LimitSwing(ws, a, b, d, limit) ==
    Furthest(ws, {k \in InRange(ws, a, b) : ws[k].dir = d}, limit)

StartLimit(d) == IF d = "down" THEN "max" ELSE "min"
EndLimit(d) == IF d = "down" THEN "min" ELSE "max"

\* The swings of the trend against it, merged (rebuild_sfs_for_trend).
Against(t, ws) ==
    LET seq[k \in 0 .. Len(ws)] ==
            IF k = 0 THEN [trend |-> t, sfs |-> <<>>]
            ELSE IF k \in InRange(ws, t.start, t.end) THEN Agg(seq[k - 1], ws, k)
            ELSE seq[k - 1]
    IN  seq[Len(ws)]

\* The counter-movement to trend t since swing lim.
PullbackFrom(t, ws, lim) ==
    LET begun == [id |-> NoId, dir |-> Opposite(t.dir), start |-> lim, end |-> t.end,
                  high |-> ws[lim].high, low |-> ws[lim].low, done |-> FALSE]
        seq[k \in 0 .. Len(ws)] ==
            IF k = 0 THEN [trend |-> begun, sfs |-> <<>>]
            ELSE IF k \in InRange(ws, lim, t.end) THEN Updated(Agg(seq[k - 1], ws, k), ws, k)
            ELSE seq[k - 1]
    IN  seq[Len(ws)]

\* split_pullback_from_seq.  A sequence with a gap has swings against the
\* trend, so there is a limit.
Split(q, ws) ==
    IF ~HasGap(q.sfs) THEN NoSeq
    ELSE PullbackFrom(q.trend, ws, LimitSwing(ws, q.trend.start, q.trend.end,
                                              Opposite(q.trend.dir), EndLimit(q.trend.dir)))

-----------------------------------------------------------------------------
(* The rebuild.  Its state is the rows built so far, the last id issued,   *)
(* the sequence of the active trend and that of a pullback against it.     *)

\* update_active_trend: the last row is overwritten.
WithLast(rs, t) == IF rs = <<>> THEN <<t>> ELSE [rs EXCEPT ![Len(rs)] = t]

ShowActive(s) == [s EXCEPT !.rows = WithLast(@, s.active.trend)]

\* The active trend goes on with swing k.
Continue(s, ws, k) == ShowActive([s EXCEPT !.active = Agg(Updated(@, ws, k), ws, k)])

\* confirm_trend: the trend starts and ends at the limits of its own swings.
ToStartLimit(t, ws) ==
    LET a == LimitSwing(ws, t.start, t.end, t.dir, StartLimit(t.dir))
    IN  IF a \in {0, t.start} THEN t ELSE [Extended(t, ws, a) EXCEPT !.start = a, !.end = t.end]

\* Mutation of ToEndLimit: the trend ends where it was noticed to be over.
ToEndLimitNot(t, ws) == t

ToEndLimit(t, ws) ==
    LET b == LimitSwing(ws, t.start, t.end, t.dir, EndLimit(t.dir))
    IN  IF b = 0 THEN t ELSE Extended(t, ws, b)

\* A completed row before the last ends with swing e.
PreviousEndsAt(rs, ws, e) ==
    LET n == Len(rs) - 1
    IN  IF n >= 1 /\ e >= 1 /\ rs[n].done /\ rs[n].end # e
        THEN [rs EXCEPT ![n] = Extended(@, ws, e)] ELSE rs

\* The trend, which began with another swing than that it now begins with,
\* becomes the last row.
Settle(s, first, t, ws) ==
    [s EXCEPT !.rows = WithLast(IF t.start = first THEN @ ELSE PreviousEndsAt(@, ws, t.start - 1),
                                [ToEndLimit(t, ws) EXCEPT !.done = TRUE])]

\* The last row becomes the completed trend t.
Completed(s, t, ws) == Settle(s, t.start, ToStartLimit(t, ws), ws)

\* Behind the last row, which is complete, a trend of direction d has begun
\* by swing k, unless there is no swing behind.
Begun(s, d, ws, k) ==
    LET a == s.rows[Len(s.rows)].end + 1
        t == [id |-> s.ids + 1, dir |-> d, start |-> a, end |-> k,
              high |-> Max({ws[a].high, ws[k].high}), low |-> Min({ws[a].low, ws[k].low}),
              done |-> FALSE]
    IN  IF a > Len(ws) THEN [s EXCEPT !.active = NoSeq, !.pullback = NoSeq]
        ELSE [rows |-> Append(s.rows, t), ids |-> t.id, active |-> Against(t, ws), pullback |-> NoSeq]

\* build_trend_step without a pullback, once the active trend goes on.
TrendStep(s, ws, k) ==
    IF SfFractal(s.active.sfs) = "none" THEN s
    ELSE IF HasGap(s.active.sfs) THEN [s EXCEPT !.pullback = Split(s.active, ws)]
    ELSE Begun(Completed(s, s.active.trend, ws), Opposite(s.active.trend.dir), ws, k)

NewLimit(t, w) == IF t.dir = "up" THEN w.high > t.high ELSE w.low < t.low

Qualifies(q) == SfFractal(q.sfs) = IF q.trend.dir = "up" THEN "top" ELSE "bottom"

\* build_pullback_step, p being the pullback with swing k.  The trend that
\* ends a pullback takes the last row, where the active one was completed.
PullbackStep(s, p, ws, k) ==
    LET active == s.active.trend
    IN  IF NewLimit(active, ws[k]) THEN [Continue(s, ws, k) EXCEPT !.pullback = NoSeq]
        ELSE IF SfFractal(p.sfs) = "none" THEN [Continue(s, ws, k) EXCEPT !.pullback = p]
        ELSE IF ~Qualifies(p)
             THEN [Continue(s, ws, k) EXCEPT !.pullback = Updated(Agg(p, ws, k), ws, k)]
        ELSE IF HasGap(p.sfs)
             THEN ShowActive([Completed(s, active, ws) EXCEPT !.active = p, !.pullback = Split(p, ws)])
        ELSE Begun(Completed(Completed(s, active, ws), p.trend, ws), Opposite(active.dir), ws, k)

\* can_seed_trend, by the swing k that is the third.
CanSeed(ws, k) ==
    LET a == ws[k - 2]
        c == ws[k]
        three == {ws[j] : j \in k - 2 .. k}
    IN  /\ Max({w.low : w \in three}) <= Min({w.high : w \in three})
        /\ ws[k - 1].dir = Opposite(a.dir) /\ c.dir = a.dir
        /\ IF a.dir = "up" THEN c.high > a.high /\ c.low > a.low
           ELSE c.high < a.high /\ c.low < a.low

\* The first trend, from the first three swings that can be its seed.
Seeded(ws, k) ==
    LET t == [id |-> 1, dir |-> ws[k].dir, start |-> k - 2, end |-> k,
              high |-> Max({ws[k - 2].high, ws[k].high}), low |-> Min({ws[k - 2].low, ws[k].low}),
              done |-> FALSE]
    IN  [rows |-> <<t>>, ids |-> 1,
         active |-> Agg([trend |-> t, sfs |-> <<>>], ws, k - 1), pullback |-> NoSeq]

BuildStep(s, ws, k) ==
    IF s.pullback = NoSeq THEN TrendStep(Continue(s, ws, k), ws, k)
    ELSE PullbackStep(s, Agg(Updated(s.pullback, ws, k), ws, k), ws, k)

\* The states of the rebuild, which begins with the seed that ends with swing e.
Rebuilding(ws, e) ==
    LET state[k \in 0 .. Len(ws)] ==
            IF k <= e THEN Seeded(ws, e) ELSE BuildStep(state[k - 1], ws, k)
    IN  state

\* rebuild_from_swings_with_backtrack, up to its new rows.
Rebuilt(ws) ==
    LET seeds == {k \in 3 .. Len(ws) : CanSeed(ws, k)}
    IN  IF seeds = {} THEN <<>> ELSE Rebuilding(ws, Min(seeds))[Len(ws)].rows

-----------------------------------------------------------------------------
(* The operation, and how the swings it is given change.                   *)

TrendInit == completed = <<>> /\ trends = <<>>

RebuildFromSwings(ws) == completed' = ws /\ trends' = Rebuilt(ws)

SwingOf(p, q) == [dir |-> IF p < q THEN "up" ELSE "down", high |-> Max({p, q}), low |-> Min({p, q})]

Follows(w, l, p) == w.dir = Opposite(l.dir) /\ p = IF l.dir = "up" THEN l.high ELSE l.low

\* A swing is confirmed by the one against it, which ends at another price.
SwingConfirmed ==
    \E p, q \in Prices :
        /\ p # q
        /\ Len(completed) < MaxSwings
        /\ IF completed = <<>> THEN p \in Openings ELSE Follows(SwingOf(p, q), Last(completed), p)
        /\ RebuildFromSwings(Append(completed, SwingOf(p, q)))
        /\ Len(completed') > MaxLead => trends' # <<>>

\* The last swing is resumed, and no longer confirmed.
SwingResumed ==
    /\ completed # <<>>
    /\ RebuildFromSwings(Front(completed))

TrendNext == SwingConfirmed \/ SwingResumed

TrendSpec == TrendInit /\ [][TrendNext]_trendVars

-----------------------------------------------------------------------------
(* Properties.                                                             *)

\* Every trend has an id.
TrendIdsPresent == \A i \in 1 .. Len(trends) : trends[i].id # NoId

\* Trends begin one after the other, none ends before it begins, only the
\* last may be incomplete, and that one goes on to the last swing.  That
\* every swing belongs to a trend is not said, and not so: a pullback that
\* takes the row of the trend before it can leave some between two trends.
TrendsOrdered ==
    \A i \in 1 .. Len(trends) :
        /\ trends[i].start <= trends[i].end /\ trends[i].end <= Len(completed)
        /\ IF i < Len(trends) THEN trends[i].done /\ trends[i].start < trends[i + 1].start
           ELSE trends[i].done \/ trends[i].end = Len(completed)

\* Unless a pullback came to an end and took the place of the trend before
\* it (such a trend has no id), trends alternate, each begins with the swing
\* after the end of the one before, and a completed trend begins and ends
\* with swings of its own direction and ends at their limit.
TrendsChain ==
    TrendIdsPresent =>
        \A i \in 1 .. Len(trends) :
            LET t   == trends[i]
                own == {k \in t.start .. t.end : completed[k].dir = t.dir}
            IN  /\ t.start \in own
                /\ i > 1 => /\ t.dir = Opposite(trends[i - 1].dir)
                            /\ t.start = trends[i - 1].end + 1
                /\ t.done => /\ t.end \in own
                             /\ \A k \in own : IF t.dir = "up" THEN completed[k].high <= completed[t.end].high
                                               ELSE completed[k].low >= completed[t.end].low

Unnamed(t) == [t EXCEPT !.id = NoId]

\* The rebuild reads the whole list of swings at every step, those to come
\* included.  Nevertheless a further swing begins at most one trend, ends
\* none that was there, and leaves all but the last two as they were.
PastTrendsSettled ==
    [][Len(completed') > Len(completed) =>
          /\ Len(trends') \in Len(trends) .. Len(trends) + 1
          /\ \A i \in 1 .. Len(trends) - 2 : Unnamed(trends'[i]) = Unnamed(trends[i])]_trendVars

=============================================================================
