------------------------------- MODULE Runtime -------------------------------
(***************************************************************************)
(* run_live_with_mode of the runtime crate: one thread that subscribes the *)
(* strategy and one monitor per further symbol, pumps a bounded number of  *)
(* bars from the adapter into the feed, and only then lets the strategy    *)
(* and the monitors receive, once each per published bar.                  *)
(*                                                                         *)
(* The adapter is a ResilientAdapter, whose calls return a bar, nothing or *)
(* an error, or the CtpFeed, which always has a bar.  Bars are numbered in *)
(* the order in which they are published.                                  *)
(*                                                                         *)
(* A subscriber is named by the symbol it subscribed, a channel by the     *)
(* symbol in lower case: subscribers of two spellings share a channel.     *)
(***************************************************************************)
EXTENDS Decision, Sequences, FiniteSets, SequencesExt

CONSTANTS Names,            \* the instrument names, in any spelling
          Default,          \* "I2601"
          LowerCase,        \* per name: the name in lower case
          Count,            \* the bars to pump
          AttemptsPerBar,   \* the polls per bar before the pump gives up
          ChannelCapacity,  \* FeedConfig.channel_capacity, a power of two
          IngressCapacity,  \* FeedConfig.ingress_capacity
          Assessments,      \* what the analysis may make of a bar
          ZoneSignals       \* and of its reaction to the key zones

ASSUME RuntimeAssumption ==
    /\ IsFiniteSet(Names) /\ Default \in Names
    /\ LowerCase \in [Names -> Names]
    /\ Count \in Nat /\ AttemptsPerBar \in Nat \ {0}
    /\ ChannelCapacity \in Nat \ {0} /\ IngressCapacity \in Nat \ {0}
    /\ Assessments \subseteq Assessment /\ ZoneSignals \subseteq ZoneSignal

VARIABLES mode,         \* RuntimeMode
          policy,       \* FeedConfig.overload_policy
          symbols,      \* STRUXIS_SYMBOLS without repetitions
          phase,
          due,          \* the symbols still to subscribe, or the
                        \* iterations still to do
          attempts,     \* the polls of the pump
          published,    \* the bars the pump has published
          ingress,      \* the queue of the feed
          sent,         \* per channel: the bars broadcast on it
          next,         \* per subscriber: its position in its channel
          received,     \* per subscriber: what it received
          decisions     \* the actions the strategy decided on

runtimeVars == <<mode, policy, symbols, phase, due, attempts, published,
                 ingress, sent, next, received, decisions>>

Primary == Head(symbols)

\* The environment lists any symbols; an empty list means the default one.
RuntimeInit ==
    /\ mode \in {"Ctp", "Binance"}
    /\ policy \in {"DropNewest", "DropOldest"}
    /\ symbols \in {s \in SeqOf(Names, Cardinality(Names)) : s # <<>> /\ IsInjective(s)}
    /\ phase = IF mode = "Ctp" THEN "pumping" ELSE "subscribing"
    /\ due = Len(symbols)
    /\ attempts = 0 /\ published = 0
    /\ ingress = <<>>
    /\ sent = [s \in Names |-> <<>>]
    /\ next = [s \in Names |-> 0]
    /\ received = [s \in Names |-> <<>>]
    /\ decisions = {}

-----------------------------------------------------------------------------
(* The pump.                                                               *)

\* resilient.subscribe_symbol for the next symbol; an error ends the run.
SubscribeNext ==
    /\ phase = "subscribing"
    /\ \/ phase' = IF due = 1 THEN "pumping" ELSE phase
       \/ phase' = "aborted"
    /\ due' = due - 1
    /\ UNCHANGED <<attempts, published, ingress, sent, next, received, decisions>>

\* channel_key.  The interval is the same in all calls.
ChannelKey(symbol) == LowerCase[symbol]

\* There is a channel where somebody has subscribed.
HasChannel(symbol) == \E s \in Range(symbols) : ChannelKey(s) = ChannelKey(symbol)

\* Feed::ingest_broker_bar with one thread: push with the overload policy,
\* then the broadcast on the symbol's channel, if there is one.
Ingest(symbol) ==
    LET bar == published + 1
        full == Len(ingress) = IngressCapacity
    IN  /\ ingress' = IF ~full THEN Append(ingress, bar)
                      ELSE IF policy = "DropOldest" THEN Append(Tail(ingress), bar)
                      ELSE ingress
        /\ sent' = IF HasChannel(symbol)
                   THEN [sent EXCEPT ![ChannelKey(symbol)] = Append(@, bar)] ELSE sent
        /\ published' = bar

Budget == published < Count /\ attempts < Count * AttemptsPerBar

\* pump_from_feed: the CtpFeed has a bar of the default symbol.
PumpFeed ==
    /\ phase = "pumping" /\ mode = "Ctp" /\ published < Count
    /\ Ingest(Default)
    /\ UNCHANGED <<phase, due, attempts, next, received, decisions>>

\* One attempt of pump_from_resilient_adapter.  The name on the bar is any:
\* that of the exchange, for whatever stream the endpoint is set to, a
\* subscribed one when the trade has none, the primary on a synthetic bar.
PumpAdapter ==
    /\ phase = "pumping" /\ mode = "Binance" /\ Budget
    /\ \/ /\ \E s \in Names : Ingest(s)
          /\ UNCHANGED phase
       \/ UNCHANGED <<phase, ingress, sent, published>>
       \/ phase' = "aborted" /\ UNCHANGED <<ingress, sent, published>>
    /\ attempts' = attempts + 1
    /\ UNCHANGED <<due, next, received, decisions>>

\* Mutation of EndPump: an iteration per bar of the strategy's channel.
EndPumpPrimary ==
    /\ phase = "pumping" /\ (published = Count \/ (mode = "Binance" /\ ~Budget))
    /\ phase' = "looping"
    /\ due' = Len(sent[ChannelKey(Primary)])
    /\ UNCHANGED <<attempts, published, ingress, sent, next, received, decisions>>

\* Mutation of EndPump: the pump goes on until it has all its bars.
EndPumpWhenAll ==
    /\ phase = "pumping" /\ published = Count
    /\ phase' = "looping"
    /\ due' = published
    /\ UNCHANGED <<attempts, published, ingress, sent, next, received, decisions>>

EndPump ==
    /\ phase = "pumping" /\ (published = Count \/ (mode = "Binance" /\ ~Budget))
    /\ phase' = "looping"
    /\ due' = published
    /\ UNCHANGED <<attempts, published, ingress, sent, next, received, decisions>>

-----------------------------------------------------------------------------
(* The loop.                                                               *)

\* What was sent on the channel of subscriber s.
OnChannel(s) == sent[ChannelKey(s)]

\* The bars that the channel of s does not keep any more.
Overwritten(s) ==
    IF Len(OnChannel(s)) > ChannelCapacity THEN Len(OnChannel(s)) - ChannelCapacity ELSE 0

\* try_recv of subscriber s: a receiver that fell behind gets no bar but a
\* report, and goes on with the oldest bar kept.
Lagged(s) == next[s] < Overwritten(s)
Ready(s) == next[s] < Len(OnChannel(s)) /\ ~Lagged(s)

\* Every subscriber tries once, and the queue is popped once, whether the
\* strategy got a bar, nothing, or a report that it lagged.
Iterate ==
    /\ phase = "looping" /\ due > 0
    /\ due' = due - 1
    /\ next' = [s \in Names |-> IF s \notin Range(symbols) THEN next[s]
                                ELSE IF Lagged(s) THEN Overwritten(s)
                                ELSE IF Ready(s) THEN next[s] + 1 ELSE next[s]]
    /\ received' = [s \in Names |-> IF s \in Range(symbols) /\ Ready(s)
                                    THEN Append(received[s], OnChannel(s)[next[s] + 1])
                                    ELSE received[s]]
    /\ ingress' = IF ingress = <<>> THEN ingress ELSE Tail(ingress)
    /\ IF Ready(Primary)
       THEN \E sd \in Assessments, signal \in ZoneSignals :
               decisions' = decisions \cup {Evaluate(StrategyContext(sd, signal))}
       ELSE UNCHANGED decisions
    /\ UNCHANGED <<phase, attempts, published, sent>>

Finish ==
    /\ phase = "looping" /\ due = 0
    /\ phase' = "done"
    /\ UNCHANGED <<due, attempts, published, ingress, sent, next, received, decisions>>

RuntimeNext ==
    /\ SubscribeNext \/ PumpFeed \/ PumpAdapter \/ EndPump \/ Iterate \/ Finish
    /\ UNCHANGED <<mode, policy, symbols>>

\* The thread runs, and the adapter's calls return (CallReturns of Lifecycle).
RuntimeSpec == RuntimeInit /\ [][RuntimeNext]_runtimeVars /\ WF_runtimeVars(RuntimeNext)

-----------------------------------------------------------------------------
(* Properties.                                                             *)

StillKept(s) == SubSeq(OnChannel(s), Overwritten(s) + 1, Len(OnChannel(s)))

\* An iteration may be spent on a report of lag, or on a bar of another
\* symbol; nevertheless a run that ends in order leaves nothing behind: the
\* strategy and each monitor have received what their channel could keep, in
\* order, and the queue is empty, also when two names differ in their case
\* only and share a channel, or a bar has a name that nobody subscribed.
CaughtUp ==
    phase = "done" =>
        /\ \A s \in Range(symbols) : received[s] = StillKept(s)
        /\ ingress = <<>>

\* Whatever the analysis makes of the bars, the strategy waits: it feeds one of
\* the three timeframes, the other two have no direction, and it is flat.
NeverActs == decisions \subseteq {"wait"}

\* The run comes to its end or is given up, also with an adapter that never
\* has a bar.
RunEnds == <>(phase \in {"done", "aborted"})

=============================================================================
