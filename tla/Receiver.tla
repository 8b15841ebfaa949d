------------------------------- MODULE Receiver -------------------------------
(***************************************************************************)
(* DataReceiver of the struxis crate: ticks become one-minute bars, one    *)
(* TickBarAggregator per instrument, and these become the bars of longer   *)
(* timeframes, one BarWindowAggregator per timeframe that all instruments  *)
(* share.  The bars are appended to the MultiTimeframeContext.             *)
(*                                                                         *)
(* A tick carries the volume traded so far in its session; turnover goes   *)
(* the same way and is left out, and so is open interest.  Ticks arrive in *)
(* the order of their minutes, but for late ones, which an earlier tick of *)
(* the session has overtaken or repeats.  The history of the ticks is      *)
(* kept, and a bar carries the numbers of the ticks it was made from.      *)
(***************************************************************************)
EXTENDS Integers, SequencesExt

CONSTANTS Instruments,   \* the symbol and exchange of a tick
          Timeframes,
          Window,        \* per timeframe: its length in minutes
          Prices,        \* last_price of a tick
          Volumes,       \* the volumes traded between two ticks
          MinuteSteps,   \* the minutes that may pass between two ticks
          LateTimeframes,   \* bound: the timeframes registered after the first tick
          MaxTicks,      \* bound: the number of ticks
          MaxLate,       \* bound: the number of late ticks
          MaxSessions    \* bound: the number of sessions, over all instruments

ASSUME ReceiverAssumption ==
    /\ Window \in [Timeframes -> Nat \ {0}]
    /\ Prices \subseteq Int
    /\ Volumes \subseteq Nat
    /\ MinuteSteps \subseteq Nat
    /\ LateTimeframes \subseteq Timeframes
    /\ MaxTicks \in Nat /\ MaxLate \in Nat
    /\ MaxSessions \in Nat

VARIABLES registered,    \* registered_timeframes
          current,       \* per instrument: current_bar, NoBar for None
          lastVolume,    \* per instrument: last_volume, Unknown for None
          buffer,        \* per timeframe: the buffer of its window aggregator
          appended,      \* per timeframe: the bars appended to the context
          ticks,         \* the ticks so far, each with what the market did:
                         \* the true volume traded since the tick before,
                         \* whether it is fresh, the first of its session or
                         \* the first that is received, and whether it is late
          completed,     \* the one-minute bars so far, in order
          since          \* per timeframe: Len(completed) when it was
                         \* registered last

aggregatorVars == <<registered, current, lastVolume, buffer, appended>>
historyVars == <<ticks, completed, since>>
receiverVars == <<aggregatorVars, historyVars>>

Unknown == -1
NoBar == [ticks |-> <<>>]

ReceiverInit ==
    /\ registered = {}
    /\ current = [k \in Instruments |-> NoBar]
    /\ lastVolume = [k \in Instruments |-> Unknown]
    /\ buffer = [tf \in Timeframes |-> <<>>]
    /\ appended = [tf \in Timeframes |-> <<>>]
    /\ ticks = <<>> /\ completed = <<>>
    /\ since = [tf \in Timeframes |-> 0]

-----------------------------------------------------------------------------
(* TickBarAggregator.                                                      *)

\* Mutation: the aggregator starts from volume 0 instead of an unknown one.
DeltaFromZero(k, volume) ==
    LET last == IF lastVolume[k] = Unknown THEN 0 ELSE lastVolume[k]
    IN  IF volume >= last THEN volume - last ELSE 0

\* The volume a tick adds: nothing when the session's volume fell.
Delta(k, volume) ==
    IF lastVolume[k] # Unknown /\ volume >= lastVolume[k]
    THEN volume - lastVolume[k] ELSE 0

\* The bar that tick t, the n-th, opens.
OpenedBar(t, n) ==
    [minute |-> t.minute, open |-> t.price, high |-> t.price, low |-> t.price,
     close |-> t.price, volume |-> Delta(t.by, t.volume), ticks |-> <<n>>]

\* Mutation: the close of the bar stays that of its first tick.
ExtendedBarKeepsClose(bar, t, n) ==
    [bar EXCEPT !.high = IF t.price > @ THEN t.price ELSE @,
                !.low = IF t.price < @ THEN t.price ELSE @,
                !.volume = @ + Delta(t.by, t.volume),
                !.ticks = Append(@, n)]

\* The bar that goes on with tick t.
ExtendedBar(bar, t, n) ==
    [bar EXCEPT !.high = IF t.price > @ THEN t.price ELSE @,
                !.low = IF t.price < @ THEN t.price ELSE @,
                !.close = t.price,
                !.volume = @ + Delta(t.by, t.volume),
                !.ticks = Append(@, n)]

-----------------------------------------------------------------------------
(* BarWindowAggregator.                                                    *)

\* The sum of a sequence of numbers.
Total(s) ==
    LET total[i \in 0 .. Len(s)] == IF i = 0 THEN 0 ELSE total[i - 1] + s[i]
    IN  total[Len(s)]

\* The bar made of the bars of a full window.
WindowBar(bars) ==
    [minute |-> Last(bars).minute,
     open |-> Head(bars).open,
     high |-> CHOOSE h \in {b.high : b \in Range(bars)} : \A b \in Range(bars) : b.high <= h,
     low |-> CHOOSE l \in {b.low : b \in Range(bars)} : \A b \in Range(bars) : l <= b.low,
     close |-> Last(bars).close,
     volume |-> Total([i \in DOMAIN bars |-> bars[i].volume]),
     ticks |-> FlattenSeq([i \in DOMAIN bars |-> bars[i].ticks])]

\* Mutation: the bar that closes a window is in none.
WindowUpdateLosesLast(tf, s, bar) ==
    LET full == Append(s.buffer, bar)
    IN  IF Len(full) < Window[tf] THEN [s EXCEPT !.buffer = full]
        ELSE [buffer |-> <<>>, appended |-> Append(s.appended, WindowBar(s.buffer))]

\* Mutation: the bar that closes a window also opens the next one.
WindowUpdateOverlaps(tf, s, bar) ==
    LET full == Append(s.buffer, bar)
    IN  IF Len(full) < Window[tf] THEN [s EXCEPT !.buffer = full]
        ELSE [buffer |-> <<bar>>, appended |-> Append(s.appended, WindowBar(full))]

\* update, on the buffer and the appended bars of timeframe tf.
WindowUpdate(tf, s, bar) ==
    LET full == Append(s.buffer, bar)
    IN  IF Len(full) < Window[tf] THEN [s EXCEPT !.buffer = full]
        ELSE [buffer |-> <<>>, appended |-> Append(s.appended, WindowBar(full))]

-----------------------------------------------------------------------------
(* DataReceiver.                                                           *)

\* forward_m1_bar, for timeframe tf.  A timeframe of one minute has no window
\* aggregator.
Fed(tf, s, bar) ==
    IF tf \notin registered THEN s
    ELSE IF Window[tf] = 1 THEN [s EXCEPT !.appended = Append(@, bar)]
    ELSE WindowUpdate(tf, s, bar)

\* What timeframe tf has after each of the bars, forwarded in order.
Feeding(tf, bars) ==
    LET fed[i \in 0 .. Len(bars)] ==
            IF i = 0 THEN [buffer |-> buffer[tf], appended |-> appended[tf]]
            ELSE Fed(tf, fed[i - 1], bars[i])
    IN  fed

\* forward_m1_bar for each of the bars, in order.
Forward(bars) ==
    /\ buffer' = [tf \in Timeframes |-> Feeding(tf, bars)[Len(bars)].buffer]
    /\ appended' = [tf \in Timeframes |-> Feeding(tf, bars)[Len(bars)].appended]
    /\ completed' = completed \o bars

\* register_timeframe: a timeframe that is registered again gets a new
\* window aggregator with an empty buffer.
Register(tf) ==
    /\ registered' = registered \cup {tf}
    /\ buffer' = [buffer EXCEPT ![tf] = <<>>]
    /\ since' = [since EXCEPT ![tf] = Len(completed)]
    /\ UNCHANGED <<current, lastVolume, appended, ticks, completed>>

\* ingest_tick.
IngestTick(t) ==
    LET n   == Len(ticks) + 1
        bar == current[t.by]
    IN  /\ n <= MaxTicks
        /\ ticks' = Append(ticks, t)
        /\ lastVolume' = [lastVolume EXCEPT ![t.by] = t.volume]
        /\ \/ /\ bar = NoBar
              /\ current' = [current EXCEPT ![t.by] = OpenedBar(t, n)]
              /\ UNCHANGED <<buffer, appended, completed>>
           \/ /\ bar # NoBar /\ bar.minute = t.minute
              /\ current' = [current EXCEPT ![t.by] = ExtendedBar(bar, t, n)]
              /\ UNCHANGED <<buffer, appended, completed>>
           \/ /\ bar # NoBar /\ bar.minute # t.minute
              /\ current' = [current EXCEPT ![t.by] = OpenedBar(t, n)]
              /\ Forward(<<bar>>)
        /\ UNCHANGED <<registered, since>>

\* flush_ticks: the aggregators are in a hash map, in any order.
FlushTicks ==
    /\ \E order \in SetToSeqs({k \in Instruments : current[k] # NoBar}) :
          /\ order # <<>>
          /\ Forward([i \in DOMAIN order |-> current[order[i]]])
    /\ current' = [k \in Instruments |-> NoBar]
    /\ UNCHANGED <<registered, lastVolume, ticks, since>>

-----------------------------------------------------------------------------
(* The market.                                                             *)

OnTime == {n \in DOMAIN ticks : ~ticks[n].late}

\* The latest tick on time among those of k before the n-th tick.
LatestOnTime(k, n) == Max({0} \cup {m \in OnTime : m < n /\ ticks[m].by = k})

Now == IF ticks = <<>> THEN 0 ELSE ticks[Max(OnTime)].minute

\* A trade in the session of the instrument's last tick, or the first tick
\* of a session, whose volume starts again from 0, or the first tick that is
\* received, in a session that has traded some volume before.
Tick(k) ==
    \E step \in MinuteSteps, price \in Prices, traded \in Volumes, fresh \in BOOLEAN,
       before \in IF lastVolume[k] = Unknown THEN Volumes ELSE {0} :
        /\ lastVolume[k] = Unknown => fresh
        /\ fresh => Cardinality({n \in DOMAIN ticks : ticks[n].fresh}) < MaxSessions
        /\ IngestTick([by |-> k, minute |-> Now + step, price |-> price,
                       volume |-> traded + (IF fresh THEN before
                                            ELSE ticks[LatestOnTime(k, Len(ticks) + 1)].volume),
                       traded |-> traded, fresh |-> fresh, late |-> FALSE])

\* A tick of the running session is received again, or only now that a tick
\* with the same or a larger volume was.
LateTick(k) ==
    /\ Cardinality(DOMAIN ticks \ OnTime) < MaxLate
    /\ \E n \in OnTime :
          /\ ticks[n].by = k
          /\ \A m \in OnTime : m > n /\ ticks[m].by = k => ~ticks[m].fresh
          /\ IngestTick([ticks[n] EXCEPT !.traded = 0, !.fresh = FALSE, !.late = TRUE])

ReceiverNext ==
    \/ \E k \in Instruments : Tick(k) \/ LateTick(k)
    \/ FlushTicks
    \/ \E tf \in Timeframes : (ticks = <<>> \/ tf \in LateTimeframes) /\ Register(tf)

ReceiverSpec == ReceiverInit /\ [][ReceiverNext]_receiverVars

-----------------------------------------------------------------------------
(* Properties.                                                             *)

AllBars == (UNION {Range(appended[tf]) \cup Range(buffer[tf]) : tf \in Timeframes})
               \cup ({current[k] : k \in Instruments} \ {NoBar})

Traded(bar) == Total([i \in DOMAIN bar.ticks |-> ticks[bar.ticks[i]].traded])

\* A bar of any timeframe is the summary of its ticks: prices through two
\* levels of aggregation, flushes in the middle of a minute included.
BarsSummarize ==
    \A bar \in AllBars :
        LET prices == {ticks[n].price : n \in Range(bar.ticks)}
        IN  /\ bar.open = ticks[Head(bar.ticks)].price
            /\ bar.close = ticks[Last(bar.ticks)].price
            /\ {bar.high, bar.low} \subseteq prices
            /\ \A p \in prices : bar.low <= p /\ p <= bar.high

\* What the n-th tick adds a second time: the tick of its instrument that came
\* before it was late and had taken the volume back.
Recounted(n) ==
    LET t == ticks[n]
        previous == Max({0} \cup {m \in 1 .. n - 1 : ticks[m].by = t.by})
        known == IF t.late THEN t.volume ELSE ticks[LatestOnTime(t.by, n)].volume
    IN  IF t.fresh THEN 0 ELSE Max({0, known - ticks[previous].volume})

\* Volume is lost only where a session begins, flushes and changes of the
\* minute lose none, and it is counted twice only after a late tick, by no more
\* than that tick's volume fell behind.
VolumeAccounted ==
    \A bar \in AllBars :
        LET again == Total([i \in DOMAIN bar.ticks |-> Recounted(bar.ticks[i])])
        IN  /\ bar.volume <= Traded(bar) + again
            /\ (\A n \in Range(bar.ticks) : ~ticks[n].fresh) => bar.volume = Traded(bar) + again

\* The bars of a timeframe stand for stretches of Window one-minute bars, one
\* after the other: no one-minute bar goes into two of them.
WindowsConsecutive ==
    \A tf \in Timeframes :
        LET w == Window[tf]
            \* the stretch of completed bars that starts at i
            Ticks(i) == FlattenSeq([j \in 1 .. w |-> completed[i + j - 1].ticks])
            starts == [m \in DOMAIN appended[tf] |->
                          {i \in 1 .. Len(completed) - w + 1 :
                              Ticks(i) = appended[tf][m].ticks}]
        IN  /\ \A m \in DOMAIN starts : starts[m] # {}
            /\ \A m \in 1 .. Len(starts) - 1 :
                  \A i \in starts[m], j \in starts[m + 1] : i + w <= j

\* Since a timeframe was registered last, every one-minute bar is in a bar of
\* the timeframe or waits in its buffer.
NothingSkipped ==
    \A tf \in registered : \A i \in since[tf] + 1 .. Len(completed) :
        \E bar \in Range(appended[tf]) \cup Range(buffer[tf]) :
            Range(completed[i].ticks) \subseteq Range(bar.ticks)

=============================================================================
