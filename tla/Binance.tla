------------------------------- MODULE Binance -------------------------------
(***************************************************************************)
(* BinanceWsAdapter of the broker crate.  One thread calls it; connect and *)
(* each new subscription start a reader thread, which outlives its         *)
(* replacement until it next looks at ws_epoch.  Adapter and readers share *)
(* the queue, ws_running, ws_epoch and last_message_ms, without a lock:    *)
(* every access of a reader to one of them is an action of its own.  The   *)
(* calls of the adapter are single steps, but for a poll that finds the    *)
(* queue empty: readers go on before it looks at ws_running.  Of connect   *)
(* and subscribe_symbol they see ws_epoch advance and ws_running set, and  *)
(* what one does between the two it may as well do before or after them.   *)
(*                                                                         *)
(* Trades are numbered; a reader gets those made after it connected, in    *)
(* order.  All subscribed symbols trade together.                          *)
(***************************************************************************)
EXTENDS Integers, Sequences, FiniteSets, SequencesExt

CONSTANTS Symbols,      \* the symbols that may be subscribed
          Own,          \* BinanceWsAdapter.symbol
          MaxEpochs,    \* bound: the readers started
          MaxTrades     \* bound: the trades made

ASSUME BinanceAssumption == Own \in Symbols /\ MaxEpochs \in Nat /\ MaxTrades \in Nat

VARIABLES strict,           \* STRUXIS_BINANCE_STRICT is "1"
          connected, subscriptions, queue, running,
          reader,           \* the readers; ws_epoch is their number
          age,              \* the time since last_message_ms
          trades,           \* the number of trades made
          polling,          \* poll_bar has found the queue empty
          delivered,        \* the trades that poll_bar returned
          call              \* what the last call returned, see ExchangeAdapter

clientVars == <<connected, subscriptions, polling, delivered, call>>
sharedVars == <<queue, running, age>>
binanceVars == <<strict, clientVars, sharedVars, reader, trades>>

Epoch == Len(reader)

BinanceInit ==
    /\ strict \in BOOLEAN
    /\ connected = FALSE /\ subscriptions = {} /\ queue = <<>> /\ running = FALSE
    /\ reader = <<>> /\ age = "recent"
    /\ trades = 0 /\ polling = FALSE /\ delivered = {} /\ call = "none"

-----------------------------------------------------------------------------
(* The reader thread of epoch e.                                           *)

\* A reader that leaves has no position in the stream any more.
Goes(e, at, step) ==
    /\ reader[e].at = at
    /\ reader' = [reader EXCEPT ![e].at = step,
                                ![e].position = IF step \in {"leaving", "ended"} THEN 0 ELSE @]

\* Mutation of ReaderFails: the flag is left as it is.
ReaderFailsQuietly(e) == Goes(e, "starting", "ended") /\ UNCHANGED <<sharedVars, clientVars, trades>>

\* Without a runtime or a connection the flag is cleared, whatever the epoch.
ReaderFails(e) ==
    /\ Goes(e, "starting", "ended")
    /\ running' = FALSE
    /\ UNCHANGED <<queue, age, clientVars, trades>>

ReaderConnects(e) ==
    /\ reader[e].at = "starting"
    /\ reader' = [reader EXCEPT ![e].at = "reading", ![e].position = trades]
    /\ UNCHANGED <<sharedVars, clientVars, trades>>

\* Mutation of Current: the epoch is not looked at.
AlwaysCurrent(e) == TRUE

Current(e) == e = Epoch

\* The next message is a trade.
ReadTrade(e) ==
    /\ reader[e].at = "reading" /\ reader[e].position < trades
    /\ reader' = [reader EXCEPT ![e].at = IF Current(e) THEN "pushing" ELSE "leaving",
                                ![e].position = IF Current(e) THEN @ + 1 ELSE 0]
    /\ UNCHANGED <<sharedVars, clientVars, trades>>

\* The next message is a ping or a pong.
ReadPing(e) ==
    /\ Goes(e, "reading", IF Current(e) THEN "stamping" ELSE "leaving")
    /\ UNCHANGED <<sharedVars, clientVars, trades>>

\* The next message is a close or an error, or the stream ends.
ReadEnd(e) == Goes(e, "reading", "leaving") /\ UNCHANGED <<sharedVars, clientVars, trades>>

PushBar(e) ==
    /\ reader[e].at = "pushing"
    /\ queue' = Append(queue, reader[e].position)
    /\ reader' = [reader EXCEPT ![e].at = "stamping"]
    /\ UNCHANGED <<running, age, clientVars, trades>>

Stamp(e) ==
    /\ Goes(e, "stamping", "reading")
    /\ age' = "recent"
    /\ UNCHANGED <<queue, running, clientVars, trades>>

\* After the loop: the epoch is tested, and the flag cleared in another step.
TestEpoch(e) ==
    /\ Goes(e, "leaving", IF e = Epoch THEN "clearing" ELSE "ended")
    /\ UNCHANGED <<sharedVars, clientVars, trades>>

ClearFlag(e) ==
    /\ Goes(e, "clearing", "ended")
    /\ running' = FALSE
    /\ UNCHANGED <<queue, age, clientVars, trades>>

Reader(e) ==
    \/ ReaderFails(e) \/ ReaderConnects(e)
    \/ ReadTrade(e) \/ ReadPing(e) \/ ReadEnd(e)
    \/ PushBar(e) \/ Stamp(e) \/ TestEpoch(e) \/ ClearFlag(e)

-----------------------------------------------------------------------------
(* The calls of the adapter.                                               *)

\* Another call than the poll that is half done.
AtOnce == ~polling /\ UNCHANGED polling

\* restart_ws_reader and spawn_ws_reader.  Nobody stops the old reader.
Restart(symbols) ==
    /\ Len(reader) < MaxEpochs
    /\ reader' = Append(reader, [at |-> "starting", symbols |-> symbols, position |-> 0])
    /\ running' = TRUE

\* The queue keeps the bars of earlier connections.
Connect ==
    /\ AtOnce
    /\ subscriptions' = IF subscriptions = {} THEN {Own} ELSE subscriptions
    /\ connected' = TRUE
    /\ age' = "recent"
    /\ Restart(subscriptions')
    /\ call' = "connected"
    /\ UNCHANGED <<queue, delivered, trades>>

\* Mutation of Subscribe: the running reader is expected to take the symbol up.
SubscribeOnly(s) ==
    /\ AtOnce
    /\ connected
    /\ subscriptions' = subscriptions \cup {s}
    /\ call' = s
    /\ UNCHANGED <<connected, reader, sharedVars, delivered, trades>>

Subscribe(s) ==
    /\ AtOnce
    /\ \/ /\ ~connected
          /\ call' = "error"
          /\ UNCHANGED <<subscriptions, reader, running>>
       \/ /\ connected /\ s \in subscriptions
          /\ call' = s
          /\ UNCHANGED <<subscriptions, reader, running>>
       \/ /\ connected /\ s \notin subscriptions
          /\ subscriptions' = subscriptions \cup {s}
          /\ Restart(subscriptions')
          /\ call' = s
    /\ UNCHANGED <<connected, queue, age, delivered, trades>>

Heartbeat ==
    /\ AtOnce
    /\ connected' = (connected /\ age # "expired")
    /\ call' = IF connected' THEN "ok" ELSE "error"
    /\ UNCHANGED <<subscriptions, sharedVars, reader, delivered, trades>>

PollQueued ==
    /\ AtOnce
    /\ connected /\ queue # <<>>
    /\ delivered' = delivered \cup {Head(queue)}
    /\ queue' = Tail(queue)
    /\ call' = "ok"
    /\ UNCHANGED <<connected, subscriptions, running, age, reader, trades>>

PollEmpty ==
    /\ ~polling /\ connected /\ queue = <<>>
    /\ polling' = TRUE
    /\ UNCHANGED <<connected, subscriptions, sharedVars, reader, delivered, trades, call>>

\* With a reader, poll_bar returns nothing, or a synthetic bar after 300 ms
\* without a message; without one, a synthetic bar.  Strict mode has no
\* synthetic bars and disconnects without a reader.
PollFlag ==
    /\ polling /\ polling' = FALSE
    /\ connected' = (running \/ ~strict)
    /\ call' = IF connected' THEN "ok" ELSE "error"
    /\ UNCHANGED <<subscriptions, sharedVars, reader, delivered, trades>>

PollUnconnected ==
    /\ AtOnce
    /\ ~connected
    /\ call' = "error"
    /\ UNCHANGED <<connected, subscriptions, sharedVars, reader, delivered, trades>>

Poll == PollQueued \/ PollEmpty \/ PollFlag \/ PollUnconnected

\* Fifteen seconds pass without a message.
Elapse == age' = "expired" /\ UNCHANGED <<clientVars, queue, running, reader, trades>>

Trade ==
    /\ trades < MaxTrades
    /\ trades' = trades + 1
    /\ UNCHANGED <<clientVars, sharedVars, reader>>

-----------------------------------------------------------------------------

BinanceNext ==
    /\ \/ \E e \in 1 .. Epoch : Reader(e)
       \/ Connect \/ Heartbeat \/ Poll
       \/ \E s \in Symbols : Subscribe(s)
       \/ Elapse \/ Trade
    /\ UNCHANGED strict

\* The pump polls, and the adapter's owner does not stop in between.
BinanceSpec ==
    /\ BinanceInit /\ [][BinanceNext]_binanceVars
    /\ WF_binanceVars(Poll /\ UNCHANGED strict)

-----------------------------------------------------------------------------
(* Properties.                                                             *)

\* What a caller takes for the connection: the flag, not the readers.
Link == IF ~connected THEN "down" ELSE IF running THEN "up" ELSE "silent"

Live == IF connected THEN reader[Epoch].symbols ELSE {}

Contract == INSTANCE ExchangeAdapter WITH link <- Link, live <- Live

\* Whatever the readers, old ones included, do to the flag behind its back,
\* the adapter behaves as the ResilientAdapter needs it: a new connection
\* begins with a call only, and it carries every symbol that was accepted.  A
\* cleared flag is a connection that broke, also when a replaced reader clears
\* that of its successor: the contract does not tell the two apart.
AdapterContract == Contract!AdapterSpec

\* No trade becomes two bars, although old and new readers receive at the
\* same time and the queue survives a reconnect.
NoTradeTwice == IsInjective(queue) /\ Range(queue) \cap delivered = {}

\* In strict mode a caller that polls finds out that the reader is gone: the
\* flag cannot go on promising a reader that has ended, and the bars left in
\* the queue run out.  The converse, that a reader at work is never taken for
\* gone, is not so: a replaced one may have cleared the flag.
StrictNotices ==
    strict /\ connected /\ reader[Epoch].at = "ended"
        ~> ~connected \/ reader[Epoch].at # "ended"

=============================================================================
