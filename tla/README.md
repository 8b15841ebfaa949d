# Struxis in TLA+

TLA+ modules of the struxis workspace, the TLC configurations that check them on
small instances, and theorems about them that TLAPS checks for every instance.

Run `tlc -config MCSwing.cfg MCSwing` to check an instance, `tlapm StructureProofs.tla`
to check proofs. `PROJECT.json` maps each definition to the source lines it
models and lists, for each property, a mutation of the code that the property
catches; the mutations stand in the modules, next to what they mutate.

## The system

Market data flows through the workspace in one direction:

```
exchange -> ExchangeAdapter -> ResilientAdapter -> pump -> Feed -> subscribers -> strategy
                (broker)          (broker)                (market)    (runtime)
                                                           |  \-> BarStore / AsyncBarStore (file)
ticks -> DataReceiver -> MultiTimeframeContext -> per timeframe:
         (struxis)       SBar -> CBar -> Swing -> Trend -> KeyZone -> SD score -> events
```

| Component | State | Operations | What makes it hard | What makes it correct |
|---|---|---|---|---|
| `CBarManager`, `SBarManager` | bars, merged rows, backtrack id | `on_sbar`, fractal queries | one bar may merge many rows; ids of rows are replaced while other layers hold them | rows partition the bars, do not contain each other, have the envelope of their bars; labels fit the rows; a reader who follows backtrack ids is never stale |
| `SwingManager` | swings, backtrack id | rebuild after every bar | refers to rows that are merged away | coordinates exist and agree, the range covers the bars, changes are announced |
| `TrendManager` | trends, the sequences of the active one and of a pullback | rebuild from all swings | completing a trend rewrites rows that were settled; each step sees the swings to come | trends are ordered, chain until a pullback completes, and the past stays as it is |
| `IdGenerator` | last timestamp, sequence | `get_id` | clock set back, sequence used up, spinning with the mutex held | ids increase, differ between generators, calls return |
| `DataReceiver`, aggregators | current bars, last volumes, window buffers | `ingest_tick`, `flush_ticks`, `register_timeframe` | cumulative volume, late ticks, flushes within a minute, instruments in one window, repeated registration | a bar summarizes its ticks, volume is accounted for, no bar is skipped |
| `BarStore` | file, write buffer | open, append, flush, drop, `read_all` | the buffer is emptied in the middle of a record; crash and reopening in append mode | order kept, no holes, one record lost per interruption |
| `AsyncBarStore` | channel, worker thread, acknowledgements | `enqueue_bar`, `flush`, `close`, drop | bounded channel, worker that fails with messages waiting, join, death of the process | what is acknowledged is in the file; every call returns |
| `Feed`, `RingBuffer`, `Distributor` | queue, counters, channel | `ingest_broker_bar`, `subscribe`, `pop_ingress`, `metrics` | lock-free steps of several threads, lag of subscribers | loss is bounded by the counters, order of each producer, delivery except announced gaps |
| `ResilientAdapter` | connected, last seen, subscriptions | `subscribe_symbol`, `connect`, `poll_bar` | the connection breaks between any two calls of the adapter | nothing is missed without an error, calls return, service comes back |
| `BinanceWsAdapter` | queue, flags, epoch, reader threads | `connect`, `subscribe_symbol`, `poll_bar`, `heartbeat` | readers that are replaced but not stopped share the queue and the flags with the new one | no trade twice; the adapter behaves as `ResilientAdapter` needs it |
| `CtpFeed`, `MockAdapter` | a counter | `next_bar`, `poll_bar` | nothing | a bar at each call |
| runtime loop, pumps | subscriptions, channel positions | `run_live_with_mode` | lag and bars of other symbols consume iterations | the run ends and leaves nothing behind |
| `DecisionEngine`, `Strategy` | none, one `AnalysisEngine` | `evaluate`, `on_bar` | fifteen inputs, rules in order | opens only when all agree, closes what is open |
| `KeyZoneManager`, SD scoring, indicators | zones, scores | build, evaluate | arithmetic on real numbers | not modelled |
| `MultiTimeframeContext`, events | managers, callbacks | `append`, `subscribe` | call order of the layers | the order is part of CBar and Swing |
| applications, replay tools | none | start the runtime, export files | nothing | not modelled |

The struxis pipeline itself is sequential: each bar runs through all layers of a
timeframe within one `append`. Concurrency is in the market crate (threads that
share a `Feed` or an `AsyncBarStore`), in the id generators, and in the adapters.

## The modules

Each component has a module with its variables, `Init`, one action per operation
or atomic step, and its properties; `MC...` modules and `.cfg` files instantiate
it; `...Proofs` modules hold the theorems.

* **Layers** has what the structural layers share: directions and
  `first_changed_id`.
* **CBar** models `on_sbar` as one action: push, merge backwards while the last
  row and the new range contain one another, new id, labels of all rows,
  backtrack id. `PopCount` is the number of rows the loop pops. A bar is its high
  and low, the only fields the layer compares.
* **Swing** extends CBar. One action is `TimeframeManager::append` up to the
  swing layer: `OnSBar`, then the rebuild, the loop `Walk` over the rows that does
  `Visited` at the fractals, one branch per branch of the code, then the
  backtrack id.
* **Trend** models `rebuild_from_swings` as a recursive function, `Rebuilding`,
  that does `BuildStep` at each confirmed swing behind the seed. `active` and `pullback` are the two `TrendSfSeq`, `Completed`
  is `confirm_trend`. The environment confirms a swing at the end of the list or
  withdraws the last one, as a rebuild of the layer below does. Its swings are
  those that `swing.rs` makes: they alternate, and each begins where the one
  before it ends. Tests feed the layer others as well, whose prices do not join
  (`trend_tests.rs:27-33`, `:64-74`, `intermediate_structures_tests.rs:187-196`);
  these are not covered.
* **IdGenerator** models `get_id`. A call is one step because the mutex is held,
  except when the sequence is used up: `Exhausted` begins to wait, `Resume` ends
  it. The clock advances and is set back.
* **Receiver** models `TickBarAggregator`, `BarWindowAggregator` and
  `DataReceiver`. Ticks come in order or late (`LateTick`). Histories of ticks
  and of completed bars let the properties say what a bar should contain.
* **BarStore** models the file as pieces of records, so that a flush, a failure
  or a crash can fall inside a record. **AsyncBarStore** extends it with the
  channel, the worker, the callers and the owner who closes or drops the store;
  the worker's writes are the actions of BarStore. `CrashProcess` ends the
  process at any step, with the channel, the buffer and all waiting callers;
  `Reopen` is `AsyncBarStore::open` by the next one, on the same file.
* **Feed** has one action per atomic access of `ingest_broker_bar`: push, pop,
  second push, counters, broadcast. Relaxed ordering is modelled by leaving the
  order of a call's two drop counts open.
* **ExchangeAdapter** is the contract of the trait: what its calls may return
  and do to the adapter's connection, which is up, down or `silent`, that is,
  dead without an error. It is the contract of adapters that check their
  connection. The defaults of the trait (`protocol.rs:14-20`) and `MockAdapter`
  (`mock.rs:69-72`) subscribe without one, and are not covered.
* **Lifecycle** has one action per call that `ResilientAdapter` makes to an
  adapter, of which it assumes `ExchangeAdapter` and nothing else. `pc` and
  `resume` are the place in `poll_bar`, `connect` and the reconnect loop.
* **Binance** models `BinanceWsAdapter`. The calls of the adapter are single
  steps, except a poll that finds the queue empty: it looks at `ws_running` in a
  second step (`PollEmpty`, `PollFlag`), and readers may push or end in between. A
  reader thread takes one step per access to the queue, `ws_running`, `ws_epoch`
  or `last_message_ms`, so that a reader that was replaced can be at any line when
  its successor starts.
* **Decision** has the decision table, `Evaluate`, and `StrategyContext`, the
  context in which `on_bar` asks it. Scores are in hundredths.
* **Runtime** models `run_live_with_mode` over Decision: subscribing, the pump in
  both modes, and the loop, where each subscriber tries to receive once per
  published bar. The feed is used by one thread, so that `Ingest` is one step. A
  channel is named by its symbol in lower case (`ChannelKey`), so that subscribers
  whose names differ in their case share one and each receives the bars of both.

## Refinement and composition

* `AsyncSpec` implements `StoreSpec` (run `asyncstore`): seen from the file, any
  interleaving of callers, worker, deaths and reopenings is a sequential use of a
  store. The two share their variables, so that the mapping is the identity.
* `BinanceSpec` implements `ExchangeAdapter!AdapterSpec` (run `binance`), by the
  mapping `link <- Link, live <- Live`: the connection is what the flags
  `connected` and `ws_running` make a caller believe, and it carries the symbols
  of the newest reader. A reader that clears the flag, rightly or not, is a
  connection that broke, so that the refinement does not tell a flag that was
  cleared wrongly from one that was cleared rightly.
* `Lifecycle` is composed with the contract, so what it shows holds over the
  Binance adapter as well as over any other that keeps it.
* `Runtime` is composed with `Decision` and takes from Lifecycle that calls
  return (`CallReturns`).

## The runs

| Run | Bounds | What it shows |
|---|---|---|
| `structure` | up to 6 bars with prices in 0..3: flat, one step tall, or as tall as the whole grid | all properties of CBar and Swing |
| `trend` | up to 10 swings between 6 prices, the first from the lowest, a trend from the fourth swing on; 2 generators, 3 milliseconds of 3 ids, clock set back twice | trends: order, chaining, the past stays; ids increase and differ, a wait ends and is needed |
| `market_data` | 2 instruments, 4 ticks, one of them late, 2 prices, windows of 1 and 2 minutes, 2 sessions; either policy, 2 producers with 2 bars, queue of 2, channel of 1, a subscriber | summaries, volume, consecutive windows, none skipped; loss, order, delivery |
| `asyncstore` | 3 bars, 2 callers, channel of 2, 3 sessions | no holes, loss per interruption, flush and close, liveness, refinement |
| `lifecycle` | 2 symbols, 2 retries, 4 faults | replay, errors, return, recovery |
| `binance` | 2 symbols, 3 readers, 2 trades, both modes | no trade twice, the adapter contract, strict mode notices a reader that is gone |
| `runtime` | 3 names, two of which differ in their case only and share a channel, 5 bars, 2 polls per bar, channel of 2, queue of 3 | nothing left behind, the strategy waits, the run ends |

`trend` and `market_data` check two modules each (`MCTrendIdentity`,
`MCMarketData`). Trend and IdGenerator share no state, and neither do Receiver and
Feed, so that a step of one cannot disturb a property of the other: which of the
two moves is chosen in the initial state (`part`), the other rests, and the states
are the sum of those of both instead of the product.

Why the bounds are enough: a merge that swallows several rows of several bars
needs four bars, a fractal that a merge undoes needs five, and two separated
fractals need six. The tall bar swallows all rows that
the narrow ones built. A trend needs three swings, and a pullback that begins
with a gap and ends the trend needs nine; the bound on the lead keeps out long
walks that never seed a trend. A race for a full queue needs two
producers and one place. A fragment has to be followed by two records, one that
is damaged and one that is not, in a later session. A reconnect that is cut short
and followed by another one needs two symbols and three faults. Three readers
allow an old one to clear the flag that a new one set while a third is started,
and two trades let both receive the second. Five bars with a channel of two lag a
subscriber, and more symbols than one spend iterations on bars of others. Two
milliseconds and a clock set back twice cover every order of the branches of
`get_id`. Four ticks fill a window of two minutes from two instruments, with two
ticks in one of them, one of them late, or a session that begins anew, and a
registration at any place. The timeframe of one minute is registered only
before the first tick: it has no buffer to lose. `structure`, `binance` and
`market_data` take one to two minutes each, the others less. `CHECK_DEADLOCK FALSE`
is given where a behaviour ends: at its bounds in `structure`, `trend` and
`market_data`, with the store closed in `asyncstore`, and with the run in `runtime`.

Where the code differs from what a document, a comment or a test says, a run
shows it:

| Run | Property | What happens |
|---|---|---|
| `swing_gate` | `SeparatedFractalsConfirm` | the gate of the bootstrap phase asks for a fractal before the first one (`swing.rs:164`), so that two separated fractals do not confirm the swing between them (six bars show it) and there is never a second swing; `docs/struxis-core-semantics.md:68` and `:79-82` promise both, and `swing_pipeline_tests.rs:181` asserts two |
| `trend_ids` | `TrendIdsPresent` | a pullback that ends or takes over is written over the row of the trend it ended and has no id; the completed trend is gone |
| `feed_loss` | `LossCounted` | a producer with `DropOldest` pops the oldest bar, another one takes the place, and two bars are lost and one counted (`ingress.rs:68`); `metrics.rs:10` and `:14` promise the number of bars dropped |
| `asyncstore_close` | `CloseReturns` | `close` on a full channel waits for ever |
| `lifecycle_replay` | `SubscriptionsRestored` | a replay cut short is never completed on that connection |

Other differences the models have by construction, without a run of their own:

* Structure: the last swing is confirmed without a successor (`swing.rs:294`) and
  may end at the bar to the right of a fractal (`swing.rs:287`);
  `swing_pipeline_tests.rs:46-69` and `docs/struxis-core-semantics.md:79-82` say
  otherwise.
* Trend: what `trend_ids` finds has consequences with more swings, found with TLC
  and without a run of their own: neighbours of the same direction (9 swings),
  a completed trend that ends with a swing against its direction, which
  `docs/struxis-core-semantics.md:96` excludes (11 swings), and swings between two
  trends that belong to none (13 swings). This is why `TrendsChain` has the premise
  that all trends have ids, and why `TrendsOrdered` says that trends do not overlap,
  but not that they leave no swing out. In the pipeline the layer gets at most one
  swing and makes no trend; the module models its public operation.
* Store: `read_all` skips the record that joined a fragment (`storage.rs:80`),
  although `storage.rs:70` promises all records; `Glued` names it in `FlushCovers`.
* Feed: `dropped` is not the sum of its kinds while a call is counting, whatever
  `metrics.rs:10` says. Besides counting too few (`feed_loss`) the metrics count
  too many: `DroppedOldest` is returned and counted when a consumer has emptied
  the queue in between and nothing was dropped (`ingress.rs:68`). `LossBounded` is
  what remains true with `DropOldest`: no more is lost than the kinds counted, and
  one more for each newest bar dropped.
* Lifecycle: each empty poll counts as a sign of life (`lifecycle.rs:94`), so a
  connection that died without an error is not replaced while polls are frequent;
  `SelfHeals` exempts it, so that no property is about this case.
  `NothingMissedSilently` takes any error that was returned on a connection as
  the notice of what is missing on it.
* Binance: outside strict mode an adapter without a reader goes on with synthetic
  bars for ever, and under a pump that polls more often than the heartbeat
  interval `heartbeat`, the only call that would notice, is never made. The queue
  survives a reconnect, so bars of the old connection come first. A reader that was
  replaced and fails to connect clears the `ws_running` that its successor set
  (`binance.rs:70`), and one that compared epochs just before it was replaced does
  the same when it ends (`:101-102`). To a caller this is a link that broke, which
  the contract allows, so that no property detects it.
* Runtime: in Ctp mode every bar is for `I2601`, whatever symbols are subscribed.
  Channels are named in lower case (`distributor.rs:102-104`), so that two spellings
  of a symbol, which the configuration keeps apart, are two subscribers of one
  channel, and each receives the bars of both. An error of the pump ends the run with the bars ingested so
  far unread. The report of a lag costs an iteration, but each bar that was
  overwritten leaves one over, so nothing is lost by it: `CaughtUp`.
* Strategy: `on_bar` feeds the entry timeframe only, the other two have no
  direction, and the three never agree: the strategy never acts (`NeverActs`).
* Decision: a short needs the same quality, at least -0.1, as a long, the case
  `BreakoutFailure` of the risk test is decided before it is reached, and a score
  of the critical stage opens nothing (`CriticalNeverOpens`).
* Receiver: a late tick closes the bar of its minute again, so that one minute
  becomes several bars, and the tick after it counts volume twice;
  `VolumeAccounted` says by how much.
* Ids: `get_id` returns timestamps, so ids do not begin at 1 and are not
  consecutive, which `cbar_pipeline_tests.rs:23` takes for granted.

## Fairness

* AsyncBarStore: the worker thread is scheduled (its file calls return, with or
  without an error), and a `close` that has begun goes on. No caller has to call.
* Lifecycle: a call that has begun goes on, and a caller polls again and again,
  after errors too. The pump polls until an error, and the run loop of the
  runtime returns at one, so `SelfHeals` is a statement about callers that
  pump again. Faults are bounded, which is how "the faults cease" is said.
* Binance: the adapter is polled. No reader has to do anything: the network may
  leave it waiting in its read for ever.
* Runtime: its one thread runs, since every call of the adapter returns. The
  adapter need not have a bar.
* IdGenerator: the clock goes on, and a thread that spins on it is scheduled.
* CBar, Swing, Trend, Receiver and Feed are checked for safety only.

## The proofs

**StructureProofs** (with the lemmas of **FiniteLemmas** about minima, maxima and recursion)
has the two layers. For CBar: `CBarSpec => []CBarInv`, and from it types, partition, non-inclusion, envelope,
strict fractals, and the action properties `IdsStable` and `BacktrackSound`, for
every set `Bars` of bars with `low <= high` and every `MaxBars`. Partition and
the others are not inductive by themselves. The invariant adds that the spans of
the rows are ordered, that ids increase and stay below the generator's last one,
and that the labels are those of the current rows. `OnSBarShape` says what one
bar does to the rows: the rows before the popped ones stay, except for the label
of the last two, and one row is added behind them. The steps use that the loop
stops at a row that does not contain the new range and that this range is
non-inclusive with the last row kept. `BacktrackSound` compares the
old and the new rows up to the first that differs.
For Swing: `SwingSpec => CBarSpec` (`SwingsLeaveCBars`), so that all this holds
below the swings, then `SwingCoordinates`, `SwingCovers` and `SwingBacktrackSound`.
`GateNeverOpens` says how far the defect of `swing_gate` goes: for any bars there is
at most one swing. It is no promise of the code, and the proofs rest on it. A swing is built anew after each bar, so that `SwingInv`
has the invariant of the rows below, and that the swings are those of a walk over
them (`OneAtMost`). The substance is the invariant of the walk itself, `Built`,
proved by the least row at which it fails (`WalkBuilds`): up to any row, nothing
is built, or one swing that starts at the first fractal and ends at the last one
or at the row behind it (`TheSwing`). A second one
would need a fractal of the opposite kind before the start of the first, and there
is none (`FirstHasNoReference`), so that the gate stays closed whatever the bars
are. For `SwingCovers` the swing's range has to include rows that the walk has
passed without looking at them: between two fractals the rows run in one
direction (`Drifts`, `DriftGoesOn`), because any change of direction in
non-inclusive rows is a fractal (`FractalTurns`), so that the next fractal's three rows
include what lies outside the range (`FractalCovers`). Each rebuild issues a new
id, which makes `SwingBacktrackSound` hold with nothing kept.

**TrendProofs** has the two components that number what they make. For
Trend: `TrendsOrdered`, `TrendsChain` and `PastTrendsSettled`, for any prices and any
number of swings that alternate. A rebuild starts from nothing, so that the invariant of the
behaviours, `TrendInv`, only says that the swings alternate and that the trends are
`Rebuilt` from them; the substance is that of the states along a rebuild
(`RebuildingIs`). After swing `k` (`State`): the rows are in order, all but the
last complete, the last row is the active trend and reaches swing `k`, a pullback
lies inside the active trend and against it, and the ranges that either sequence
keeps stand for swings of its trend against it (`Grounded`). The last part is what
makes `split_pullback_from_seq` find a limit whenever there is a gap
(`GapHasRanges`). Each operator of the rebuild has a lemma of what it returns, and
`ContinueIs`, `BegunIs`, `SplitIs`, `PullbackStepIs` and `BuildStepIs` put them
together. `confirm_trend` is the step that disturbs settled rows: it moves the
start of the last trend to the limit of its swings and the end of the trend before
it to the swing in front. The rows stay ordered because that limit is within the
trend, and they stay chained (`Chained`) because the swings alternate: the swing
in front of the highest one of a falling trend is the rising one that led there, no
rising swing of the trend before, up to this new end, is higher
(`PreviousAtLimit`), and so that trend ends at its limit again. `TrendsChain` has the premise that all trends have ids.
Rows without one do not get one later on, so each step may assume that no pullback
took a row so far (`Named`).
`PastTrendsSettled` compares two rebuilds, one with a further swing
(`RebuiltFurther`). Both begin with the same seed (`SameSeed`) and go through the
same states (`SameRebuilding`): what a step reads of the swings ends at the swing
it is at (`SameLimit`, `SameSplit`, `SameCompleted`), with one exception. A trend
that begins behind the last swing is not begun; with a further swing it is, so that
the second rebuild may be one row ahead (`SameOrAhead`). In its next step such a
trend only goes on, having at most one range and no fractal (`AheadStep`). Any other
step changes the last two rows at most and adds at most one (`BuildStepKeepsPast`).
For IdGenerator:
`GeneratorSpec => []GeneratorInv`, and from it types,
`IdsIncrease`, `IdsDisjoint` and `WaitsOnlyExhausted`, for every width of the
fields, every set of workers that fits, and a clock that moves at will. The
invariant adds that every id has the form `Id(ts, w, s)` with a timestamp and
sequence up to the last ones, and that the numbers of the last millisecond are
filled without a gap. `DigitBelow` and `IdOrder` are the arithmetic: fields one
above the other compare like tuples.

**DataflowProofs** has the receiver, the runtime and the decision table. For Receiver:
`BarsSummarize`, `VolumeAccounted`, `WindowsConsecutive` and
`NothingSkipped`, for any instruments, timeframes, windows, prices, volumes and
numbers of ticks, late ticks, sessions, flushes and registrations. `ReceiverInv` has
four parts. `TicksInv` is about the ticks alone: what a tick adds to its bar
(`Counted`, the difference to the latest tick of its instrument) is what it traded
and what is counted again (`TickAccounted`); for that, the aggregator's last volume
is that of the latest tick, and never more than that of the latest one on time
(`VolumeKept`), also when a late tick arrives. `BarsInv` says that all bars, those
in buffers and those completed included, are the `Summary` of their ticks: it is
kept by a tick that opens or goes on with a bar and by a window that closes
(`SummaryOfOne`, `SummaryGoesOn`, `SummaryOfWindow`), the highs and lows through
both levels, and the volume because the sum of sequences put together is the sum of
their sums (`FlattenTotal`). `FirstsInv`: no two bars begin with the same tick.
`WindowsInv` gives each appended bar of a timeframe its place among the completed
one-minute bars (`Placed`): the places are a window apart, the buffer lies behind
them all, and from the registration on there is no gap. That a bar is at one place
only, which `WindowsConsecutive` asks for, follows with `FirstsInv`, as a stretch
begins with the first tick of its first bar. Sums, flattened sequences and the loop
of `forward_m1_bar` are recursive functions; what they compute is proved along
`0 .. n` by a set of the numbers that are reached (`Reaches`, `RecursionExists`).
For Runtime: `CaughtUp` and `NeverActs` for any names, also such as share a
channel, any number of bars and polls, and channels and queues of any size.
`CaughtUp` speaks of the end only. Its invariant `RInv` has the types, what the pump establishes (nobody
has received, and there are no more bars in a channel or in the queue than were
published) and `LoopInv`: what a subscriber still has to receive fits into the
iterations still to do, with one to spare while it has a report of lag due, and
what it has received is the beginning of what the channel kept. The bars are
published before anyone receives, so there is at most one report, and the
overwritten bar behind it pays for it; `IterateServes` is the step. `NeverActs`
rests on `StrategyWaits`: the higher timeframe has no direction in any context
that `on_bar` builds. About the table itself: `OpensOnlyWhenAgreed`,
`ClosesWhatIsOpen` and `CriticalNeverOpens`, for all contexts.

**AsyncBarStoreProofs** has the two stores. For BarStore: `NoHoles` and
`LossPerInterruption`, for any number of bars and sessions. Both are about the
file, and a buffer that is flushed makes the file grow, so that the invariant
`StoreInv` is about `Content`, the file with the buffer behind it. Flushing,
wholly or in part, leaves `Content` alone, an append adds one record to its end,
and a failure or a crash cuts its end off. `ContentOrdered`: behind every piece
of a bar lie the last pieces of the earlier bars of its session. `LossCounted`:
the acknowledged records that are not on a line of their own, and one more if the
content ends in a fragment, are no more than the interruptions. `DurableInFile`
keeps what was acknowledged independent of the buffer.
For AsyncBarStore: `AsyncSpec => StoreSpec`, step by step (`StepIsStoreStep`),
which carries the two properties over; then `FlushCovers` and `CloseOkComplete`.
`ChannelInv` says what is in the channel, by the state of the worker: the bars
accepted and not yet written, consecutive and in order (`BarsQueued`), a flush for
each caller that waits, behind the bars it promises (`FlushesQueued`), and a
shutdown that nothing follows (`ShutdownLast`). With it, a worker that answers a
flush has written each bar up to the promise (`AllWritten`), to the file or to
a line that joined a fragment, and what was answered stays true while other
callers go on, the process dies and the next one opens the file.

**FeedProofs**: `QueueOrder`, `Delivered` and `LossBounded` for any producers and subscribers, either policy and any capacities. What was
consumed lies before what is queued, producer by producer, and both are bars
whose calls are done with the queue (`QueueInv`), so that a bar pushed at the
second attempt is still the newest of its producer. What a subscriber has
received lies before what the channel has ahead of it, and both together are what
was announced to it, less what it was told it missed (`ChannelInv`); the channel
cuts off its beginning under a subscriber's feet, which moves bars from ahead to
missed only when the subscriber is told. The counters are read after each step of
each call, so that `LossInv` says what calls under way still owe them: with
`DropOldest` a call owes one bar from its first full attempt on, and two from the
moment it has popped one until it counts.

**LifecycleProofs**: `NothingMissedSilently` for any symbols, retries and faults,
from `LinkInv`: on a working connection every listed symbol is carried or is
still to be replayed, unless an error was returned. It assumes of the adapter
nothing but ExchangeAdapter; `UsesTheContract` is the other direction, that
Lifecycle does nothing to a connection that ExchangeAdapter does not allow.
**BinanceProofs**: `BinanceSpec => AdapterContract`, the refinement that lets the
Binance adapter stand in, and `NoTradeTwice`, both for any number of readers. A
replaced reader may still push the trade it holds, so that the invariant has
three parts: a trade in hand is not taken and in one hand only (`HeldOnce`), it
was made (`MadeBefore`), and the newest reader, the only one that goes on to
receive, is ahead of all that is taken or in hand (`CurrentAhead`).

Assumptions are those that the modules name (`BarsAssumption`,
`MaxBarsAssumption`, `GeneratorAssumption`, `BarStoreAssumption`,
`AsyncAssumption`, `FeedAssumption`, `TrendAssumption`, `ReceiverAssumption`,
`LifecycleAssumption`, `BinanceAssumption`, `RuntimeAssumption`); TLC evaluates them in each run. They say that bounds are
numbers, capacities positive, bars not upside down, and that names which stand
for nothing are not symbols.

Only model-checked are the liveness properties (`StrictNotices`, `GetIdReturns`, `FlushReturns`,
`ShutdownCompletes`, `CallReturns`, `SelfHeals`, `RunEnds`): fairness and ENABLED
are out of the prover's reach.

## What is not modelled, and why

* Prices are integers, since the code only compares them, except for the ratio
  0.6 in `determine_swing`. Turnover, open interest, `created_at`, statistics,
  DataFrame caches and the text format of a record are left out: no decision
  depends on them.
* Ids in CBar and Swing are numbered from 1. The layers only compare them, with
  one exception: `determine_swing` counts the rows between two fractals by
  subtracting their ids. That code is behind the gate of the bootstrap phase,
  which never opens (`GateNeverOpens`, proved for any bars); the branches of the turn
  (`Turned`, `Resumed`) are in the model and are not reached there either.
* The backtrack id of Trend: each rebuild gives new ids to all trends, so a
  reader who follows it reloads everything.
* Key zones and scores: averages, ratios and `tanh` of real numbers decide what
  they do, and with these abstracted away there is no control left to check. The
  runtime takes any outcome of the analysis (`Assessments`, `ZoneSignals`).
* Events are callbacks in the thread of `append` with the backtrack ids of the
  layers, which `BacktrackSound` and `SwingBacktrackSound` are about. The other
  methods of the context are queries and exports.
* A flush hands bytes to the operating system. A loss of power, which may lose
  them again, is not modelled; the code does not call `fsync`.
* The lock-free queue and the channels are taken as linearizable, as their
  libraries promise. Delays of the backoff are left out; any time may pass.
* `Feed` with a store behind it (`ingest_broker_bar_with_store`) and
  `pump_from_adapter` have no caller but tests; `SwingManager::on_new_fractal`
  has none at all. The fractal queries change no state and are left out, and so is
  reading the metrics.
* Applications and replay tools read files and the environment; the placeholder
  crates have no code.

## Plan

All safety properties are proved. What is left:

1. Feed: the variant that stores a bar (`ingest_broker_bar_with_store`), of which a
   failing store would make an error of a bar that has already gone out.
2. Trend: that a completed trend's last two rows come to rest, that is, a bound on how
   often `confirm_trend` moves the end of a row.
